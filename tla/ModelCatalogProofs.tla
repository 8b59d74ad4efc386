-------------------------- MODULE ModelCatalogProofs ---------------------------
(***************************************************************************)
(* The catalog keeps its type, and a listing is current and in order of    *)
(* first registration, for any workers, cycles, inventories and requests,  *)
(* although no lock orders registrations and listings.                     *)
(***************************************************************************)
EXTENDS ModelCatalog, SequenceTheorems, TLAPS

Line == [inventory: Registrable, whole: BOOLEAN]
Key(n) == file[n].inventory.cycle

\* The type of a call while the file has n lines.
Steps == {"idle", "validate", "append", "sync", "read", "select", "answer"}
Statuses == {0, 200, 202, 422, 500}
Entered == Inventory \union {None}
Asked == Ask \union {None}
Latest(n) == [Cycle -> 0..n]
Known(n) == SUBSET (1..n)
Call(n) ==
  [step: Steps, inventory: Entered, at: 0..n, next: 0..n + 1, latest: Latest(n),
   order: Seq(Cycle), ask: Asked, listing: Seq(Cycle), chosen: Nat, known: Known(n),
   status: Statuses]

\* The first line of cycle c comes before those of cycle d, among the first n lines.
RegisteredBefore(c, d, n) ==
  \E l \in 1..n : Key(l) = c /\ \A m \in 1..l : Key(m) # d

\* What a listing has built from the lines before r.next: each of them is covered by
\* one at least as late, and a cycle that comes before another in the order has a
\* line before all of the other's.
HasRead(r) ==
  /\ \A m \in 1..(r.next - 1) : r.latest[Key(m)] >= m /\ Key(m) \in Elements(r.order)
  /\ \A i \in DOMAIN r.order : \E n \in 1..(r.next - 1) : Key(n) = r.order[i]
  /\ \A i, j \in DOMAIN r.order : i < j =>
       RegisteredBefore(r.order[i], r.order[j], r.next - 1)

\* What it has selected from the cycles before r.chosen: those that are wanted, in order.
HasSelected(r) ==
  /\ \A i \in DOMAIN r.listing :
       /\ \E p \in DOMAIN r.order : p < r.chosen /\ r.order[p] = r.listing[i]
       /\ Wants(r.ask, Entry(r, r.listing[i]))
  /\ \A p \in DOMAIN r.order : p < r.chosen /\ Wants(r.ask, Entry(r, r.order[p])) =>
       r.order[p] \in Elements(r.listing)
  /\ \A i, j \in DOMAIN r.listing : i < j =>
       RegisteredBefore(r.listing[i], r.listing[j], r.next - 1)

Knows(w) ==
  /\ At(w, "sync") \/ (At(w, "answer") /\ call[w].status = 202) => call[w].at # 0
  /\ At(w, "validate") => call[w].inventory \in Inventory
  /\ At(w, "append") => call[w].inventory \in Registrable
  /\ At(w, "read") \/ At(w, "select") \/ Listing(w) =>
       call[w].next # 0 /\ call[w].ask \in Ask /\ HasRead(call[w])
  /\ At(w, "read") => call[w].listing = <<>>
  /\ At(w, "select") \/ Listing(w) =>
       HasSelected(call[w]) /\ \A n \in call[w].known : n < call[w].next
  /\ At(w, "select") => call[w].chosen # 0 /\ Len(call[w].listing) < call[w].ask.limit
  /\ Listing(w) => \/ Len(call[w].listing) = call[w].ask.limit
                   \/ call[w].chosen > Len(call[w].order)

IInv == TypeOK /\ \A w \in Worker : Knows(w)

-----------------------------------------------------------------------------
LEMMA TypeParts ==
  TypeOK <=> /\ file \in Seq(Line)
             /\ call \in [Worker -> Call(Len(file))]
             /\ acknowledged \subseteq 1..Len(file)
             /\ calls \in 0..MaxCalls
BY DEF TypeOK, Line, Call, Steps, Statuses, Entered, Asked, Latest, Known

LEMMA LineCycle ==
  ASSUME file \in Seq(Line), NEW n \in 1..Len(file)
  PROVE  Key(n) \in Cycle /\ file[n].whole \in BOOLEAN
<1>1. file[n] \in Line  OBVIOUS
<1> QED  BY <1>1, InventoryAssumption DEF Line, Key, Registrable

LEMMA CallGrows ==
  ASSUME NEW n \in Nat, NEW r \in Call(n)
  PROVE  r \in Call(n + 1)
<1>1. 0..n \subseteq 0..(n + 1) /\ 0..(n + 1) \subseteq 0..(n + 1) + 1 /\ 1..n \subseteq 1..(n + 1)
  OBVIOUS
<1> QED  BY <1>1 DEF Call, Latest, Known

LEMMA NoCallType ==
  ASSUME NEW n \in Nat
  PROVE  /\ NoCall \in Call(n) /\ NoCall.step = "idle" /\ NoCall.order = <<>>
         /\ NoCall.latest = [c \in Cycle |-> 0] /\ NoCall.at = 0 /\ NoCall.status = 0
         /\ NoCall.listing = <<>>
BY DEF NoCall, Call, Steps, Statuses, Entered, Asked, Latest, Known

\* A cycle that has a place in the order has a latest entry.
LEMMA OrderedEntry ==
  ASSUME NEW r \in Call(Len(file)), HasRead(r), NEW p \in DOMAIN r.order, Len(file) \in Nat
  PROVE  r.order[p] \in Cycle /\ r.latest[r.order[p]] \in 1..Len(file)
<1>1. /\ r.order \in Seq(Cycle) /\ r.latest \in [Cycle -> 0..Len(file)]
      /\ r.next \in 0..Len(file) + 1
  BY DEF Call, Latest
<1>2. PICK n \in 1..(r.next - 1) : Key(n) = r.order[p]
  BY DEF HasRead
<1>3. r.latest[r.order[p]] >= n
  BY <1>2 DEF HasRead
<1>4. r.order[p] \in Cycle
  BY <1>1
<1>5. r.latest[r.order[p]] \in 0..Len(file)
  BY <1>1, <1>4
<1> QED  BY <1>1, <1>2, <1>3, <1>4, <1>5

-----------------------------------------------------------------------------
\* A step of another worker, or one that leaves this call alone, only lengthens the
\* file; what a call has built of its lines stays true.
Longer == /\ Len(file) <= Len(file')
          /\ \A n \in 1..Len(file) : file'[n] = file[n]

LEMMA LongerKeeps ==
  ASSUME TypeOK, NEW w \in Worker, Knows(w), Longer, file' \in Seq(Line), call'[w] = call[w]
  PROVE  Knows(w)'
<1>1. call[w] \in Call(Len(file)) /\ Len(file) \in Nat
  BY TypeParts
<1>2. /\ call[w].next \in 0..Len(file) + 1
  BY <1>1 DEF Call
<1>3. \A n \in 1..(call[w].next - 1) : Key(n)' = Key(n)
  BY <1>1, <1>2 DEF Longer, Key
<1>4. \A c, d : RegisteredBefore(c, d, call[w].next - 1)' <=> RegisteredBefore(c, d, call[w].next - 1)
  <2>1. \A n \in 1..(call[w].next - 1) : \A m \in 1..n : m \in 1..(call[w].next - 1)
    BY <1>2
  <2> QED  BY <1>3, <2>1 DEF RegisteredBefore
<1>5. HasRead(call[w]) => HasRead(call[w])'
  BY <1>3, <1>4 DEF HasRead, Elements
<1>6. HasRead(call[w]) /\ HasSelected(call[w]) => HasSelected(call[w])'
  <2> SUFFICES ASSUME HasRead(call[w]), HasSelected(call[w]) PROVE HasSelected(call[w])'
    OBVIOUS
  <2>1. \A p \in DOMAIN call[w].order :
          Entry(call[w], call[w].order[p])' = Entry(call[w], call[w].order[p])
    BY <1>1, OrderedEntry DEF Longer, Entry
  <2>2. \A i \in DOMAIN call[w].listing :
          Entry(call[w], call[w].listing[i])' = Entry(call[w], call[w].listing[i])
    BY <2>1 DEF HasSelected
  <2> QED  BY <1>4, <2>1, <2>2 DEF HasSelected, Wants, Elements
<1> QED  BY <1>5, <1>6 DEF Knows, At, Listing

StepOf(w) == \A v \in Worker \ {w} : call'[v] = call[v]
Sound(w) == TypeOK' /\ Longer /\ StepOf(w) /\ Knows(w)'

\* A step that leaves the file as it is.
LEMMA QuietStep ==
  ASSUME TypeOK, call' \in [Worker -> Call(Len(file))], UNCHANGED file,
         acknowledged' \subseteq 1..Len(file), calls' \in 0..MaxCalls
  PROVE  TypeOK' /\ Longer
<1>1. file \in Seq(Line) /\ Len(file) \in Nat
  BY TypeParts
<1>2. call' \in [Worker -> Call(Len(file'))] /\ file' \in Seq(Line)
  BY <1>1
<1>3. acknowledged' \subseteq 1..Len(file') /\ calls' \in 0..MaxCalls
  OBVIOUS
<1>4. TypeOK'
  BY ONLY <1>2, <1>3 DEF TypeOK, Line, Call, Steps, Statuses, Entered, Asked, Latest, Known
<1> QED  BY <1>1, <1>4 DEF Longer

LEMMA PostStep ==
  ASSUME IInv, NEW w \in Worker, NEW i \in Inventory, Post(w, i)
  PROVE  Sound(w)
<1> DEFINE c == [NoCall EXCEPT !.inventory = i, !.step = "validate"]
<1>1. TypeOK /\ Len(file) \in Nat /\ call \in [Worker -> Call(Len(file))]
  BY TypeParts DEF IInv
<1>2. /\ call' = [call EXCEPT ![w] = c]
      /\ UNCHANGED <<file, acknowledged>> /\ calls' = calls + 1 /\ calls < MaxCalls
  BY DEF Post
<1>3. c \in Call(Len(file)) /\ c.step = "validate" /\ c.inventory = i
  <2>1. NoCall \in Call(Len(file))
    BY <1>1, NoCallType
  <2>2. "validate" \in Steps /\ i \in Entered
    BY DEF Steps, Entered
  <2> QED  BY <2>1, <2>2 DEF Call
<1> HIDE DEF c
<1>4. call' \in [Worker -> Call(Len(file))] /\ StepOf(w) /\ call'[w] = c
  BY <1>1, <1>2, <1>3 DEF StepOf
<1>5. TypeOK' /\ Longer
  BY <1>1, <1>2, <1>4, QuietStep, TypeParts, BoundAssumption
<1>6. Knows(w)'
  BY <1>3, <1>4 DEF Knows, At, Listing
<1> QED  BY <1>4, <1>5, <1>6 DEF Sound

LEMMA FailStep ==
  ASSUME IInv, NEW w \in Worker, Fail(w)
  PROVE  Sound(w)
<1>1. TypeOK /\ Len(file) \in Nat /\ call \in [Worker -> Call(Len(file))]
  BY TypeParts DEF IInv
<1>2. NoCall \in Call(Len(file)) /\ NoCall.step = "idle"
  BY <1>1, NoCallType
<1>3. call' = [call EXCEPT ![w] = NoCall] /\ UNCHANGED <<file, acknowledged, calls>>
  BY DEF Fail
<1>4. call' \in [Worker -> Call(Len(file))] /\ StepOf(w) /\ call'[w].step = "idle"
  BY <1>1, <1>2, <1>3 DEF StepOf
<1>5. TypeOK' /\ Longer
  BY <1>1, <1>3, <1>4, QuietStep, TypeParts
<1>6. Knows(w)'
  BY <1>4 DEF Knows, At, Listing
<1> QED  BY <1>4, <1>5, <1>6 DEF Sound

\* A call that is about to be answered with a code.
Ended(r, code) == [r EXCEPT !.step = "answer", !.status = code]

LEMMA EndedCall ==
  ASSUME NEW n \in Nat, NEW r \in Call(n), NEW code \in Statuses
  PROVE  /\ Ended(r, code) \in Call(n)
         /\ Ended(r, code).step = "answer" /\ Ended(r, code).status = code
         /\ Ended(r, code).at = r.at /\ Ended(r, code).next = r.next
         /\ Ended(r, code).latest = r.latest /\ Ended(r, code).order = r.order
         /\ Ended(r, code).listing = r.listing /\ Ended(r, code).chosen = r.chosen
         /\ Ended(r, code).ask = r.ask /\ Ended(r, code).known = r.known
<1> DEFINE d == [r EXCEPT !.step = "answer", !.status = code]
<1>1. "answer" \in Steps
  BY DEF Steps
<1>2. d \in Call(n)
  BY <1>1 DEF Call
<1>3. d.step = "answer"
  BY DEF Call
<1>4. d.status = code
  BY DEF Call
<1>5. d.at = r.at /\ d.next = r.next
  BY DEF Call
<1>6. d.latest = r.latest /\ d.order = r.order
  BY DEF Call
<1>7. d.listing = r.listing /\ d.chosen = r.chosen
  BY DEF Call
<1>8. d.ask = r.ask /\ d.known = r.known
  BY DEF Call
<1> QED  BY <1>2, <1>3, <1>4, <1>5, <1>6, <1>7, <1>8 DEF Ended

LEMMA ValidateStep ==
  ASSUME IInv, NEW w \in Worker, Validate(w)
  PROVE  Sound(w)
<1> DEFINE c == IF Valid(call[w].inventory) THEN [call[w] EXCEPT !.step = "append"]
                ELSE Ended(call[w], 422)
<1>1. TypeOK /\ Len(file) \in Nat /\ call \in [Worker -> Call(Len(file))]
      /\ call[w].inventory \in Inventory
  BY TypeParts DEF IInv, Knows, Validate
<1>2. call' = [call EXCEPT ![w] = c] /\ UNCHANGED <<file, acknowledged, calls>>
  BY DEF Validate, Ended
<1>3. /\ c \in Call(Len(file))
      /\ \/ c.step = "append" /\ c.inventory \in Registrable
         \/ c.step = "answer" /\ c.status = 422
  <2>1. call[w] \in Call(Len(file))
    BY <1>1
  <2>2. "append" \in Steps /\ 422 \in Statuses
    BY DEF Steps, Statuses
  <2>3. CASE Valid(call[w].inventory)
    <3>1. call[w].inventory \in Registrable
      BY <1>1, <2>3 DEF Registrable
    <3>2. c = [call[w] EXCEPT !.step = "append"]
      BY <2>3
    <3> QED  BY <2>1, <2>2, <3>1, <3>2 DEF Call
  <2>4. CASE ~Valid(call[w].inventory)
    BY <1>1, <2>1, <2>2, <2>4, EndedCall
  <2> QED  BY <2>3, <2>4
<1> HIDE DEF c
<1>4. call' \in [Worker -> Call(Len(file))] /\ StepOf(w) /\ call'[w] = c
  BY <1>1, <1>2, <1>3 DEF StepOf
<1>5. TypeOK' /\ Longer
  BY <1>1, <1>2, <1>4, QuietStep, TypeParts
<1>6. Knows(w)'
  BY <1>1, <1>3, <1>4 DEF Knows, At, Listing
<1> QED  BY <1>4, <1>5, <1>6 DEF Sound

LEMMA AppendLineStep ==
  ASSUME IInv, NEW w \in Worker, AppendLine(w)
  PROVE  Sound(w)
<1> DEFINE n == Len(file)
           c == [call[w] EXCEPT !.step = "sync", !.at = n + 1]
<1>1. TypeOK /\ n \in Nat /\ file \in Seq(Line) /\ call \in [Worker -> Call(n)]
      /\ call[w].inventory \in Registrable
  BY TypeParts DEF IInv, Knows, AppendLine
<1>2. PICK line \in Line : file' = Append(file, line)
  BY <1>1 DEF AppendLine, Line
<1>3. call' = [call EXCEPT ![w] = c] /\ UNCHANGED <<acknowledged, calls>>
  BY DEF AppendLine
<1>4. file' \in Seq(Line) /\ Len(file') = n + 1 /\ Longer
  BY <1>1, <1>2 DEF Longer
<1>5. call \in [Worker -> Call(n + 1)]
  BY <1>1, CallGrows
<1>6. c \in Call(n + 1) /\ c.step = "sync" /\ c.at = n + 1
  <2>1. call[w] \in Call(n + 1)
    BY <1>5
  <2>2. "sync" \in Steps /\ n + 1 \in 0..(n + 1)
    BY <1>1 DEF Steps
  <2> QED  BY <2>1, <2>2 DEF Call
<1> HIDE DEF c
<1>7. call' \in [Worker -> Call(n + 1)] /\ StepOf(w) /\ call'[w] = c
  BY <1>3, <1>5, <1>6 DEF StepOf
<1>8. TypeOK'
  <2>1. acknowledged' \subseteq 1..Len(file') /\ calls' \in 0..MaxCalls
    BY <1>1, <1>3, <1>4, TypeParts
  <2>2. call' \in [Worker -> Call(Len(file'))]
    BY <1>4, <1>7
  <2> QED
    BY ONLY <1>4, <2>1, <2>2
       DEF TypeOK, Line, Call, Steps, Statuses, Entered, Asked, Latest, Known
<1>9. Knows(w)'
  <2>1. c.at # 0
    BY <1>1, <1>6
  <2> QED  BY <1>6, <1>7, <2>1 DEF Knows, At, Listing
<1> QED  BY <1>4, <1>7, <1>8, <1>9 DEF Sound

LEMMA SyncStep ==
  ASSUME IInv, NEW w \in Worker, Sync(w)
  PROVE  Sound(w)
<1> DEFINE c == Ended(call[w], 202)
<1>1. TypeOK /\ Len(file) \in Nat /\ call \in [Worker -> Call(Len(file))]
      /\ call[w].at # 0
  BY TypeParts DEF IInv, Knows, Sync
<1>2. call' = [call EXCEPT ![w] = c] /\ UNCHANGED <<file, acknowledged, calls>>
  BY DEF Sync, Ended
<1>3. c \in Call(Len(file)) /\ c.step = "answer" /\ c.status = 202 /\ c.at = call[w].at
  <2>1. call[w] \in Call(Len(file))
    BY <1>1
  <2>2. 202 \in Statuses
    BY DEF Statuses
  <2> QED  BY <1>1, <2>1, <2>2, EndedCall
<1> HIDE DEF c
<1>4. call' \in [Worker -> Call(Len(file))] /\ StepOf(w) /\ call'[w] = c
  BY <1>1, <1>2, <1>3 DEF StepOf
<1>5. TypeOK' /\ Longer
  BY <1>1, <1>2, <1>4, QuietStep, TypeParts
<1>6. Knows(w)'
  BY <1>1, <1>3, <1>4 DEF Knows, At, Listing
<1> QED  BY <1>4, <1>5, <1>6 DEF Sound

LEMMA AnswerStep ==
  ASSUME IInv, NEW w \in Worker, Answer(w)
  PROVE  Sound(w)
<1>1. TypeOK /\ Len(file) \in Nat /\ call \in [Worker -> Call(Len(file))]
      /\ (call[w].status = 202 => call[w].at # 0)
  BY TypeParts DEF IInv, Knows, Answer
<1>2. NoCall \in Call(Len(file)) /\ NoCall.step = "idle"
  BY <1>1, NoCallType
<1>3. call' = [call EXCEPT ![w] = NoCall] /\ UNCHANGED <<file, calls>>
  BY DEF Answer
<1>4. call' \in [Worker -> Call(Len(file))] /\ StepOf(w) /\ call'[w].step = "idle"
  BY <1>1, <1>2, <1>3 DEF StepOf
<1>5. acknowledged' \subseteq 1..Len(file)
  <2>1. acknowledged \subseteq 1..Len(file)
    BY <1>1, TypeParts
  <2>2. call[w].at \in 0..Len(file)
    BY <1>1 DEF Call
  <2>3. acknowledged' = acknowledged \/ (acknowledged' = acknowledged \union {call[w].at}
                                            /\ call[w].status = 202)
    BY DEF Answer
  <2>4. call[w].status = 202 => call[w].at \in 1..Len(file)
    BY <1>1, <2>2
  <2> QED  BY <2>1, <2>3, <2>4
<1>6. TypeOK' /\ Longer
  BY <1>1, <1>3, <1>4, <1>5, QuietStep, TypeParts
<1>7. Knows(w)'
  BY <1>4 DEF Knows, At, Listing
<1> QED  BY <1>4, <1>6, <1>7 DEF Sound

LEMMA GetStep ==
  ASSUME IInv, NEW w \in Worker, NEW ask \in Ask, Get(w, ask)
  PROVE  Sound(w)
<1> DEFINE c == [NoCall EXCEPT !.step = "read", !.next = 1, !.ask = ask, !.known = acknowledged]
<1>1. TypeOK /\ Len(file) \in Nat /\ call \in [Worker -> Call(Len(file))]
      /\ acknowledged \in Known(Len(file))
  BY TypeParts DEF IInv, Known
<1>2. /\ call' = [call EXCEPT ![w] = c]
      /\ UNCHANGED <<file, acknowledged>> /\ calls' = calls + 1 /\ calls < MaxCalls
  BY DEF Get
<1>3. /\ c \in Call(Len(file)) /\ c.step = "read" /\ c.next = 1 /\ c.order = <<>>
      /\ c.ask = ask /\ c.listing = <<>>
  <2>1. NoCall \in Call(Len(file)) /\ NoCall.order = <<>> /\ NoCall.listing = <<>>
    BY <1>1, NoCallType
  <2>2. "read" \in Steps /\ 1 \in 0..(Len(file) + 1) /\ ask \in Asked
    BY <1>1 DEF Steps, Asked
  <2> QED  BY <1>1, <2>1, <2>2 DEF Call
<1> HIDE DEF c
<1>4. call' \in [Worker -> Call(Len(file))] /\ StepOf(w) /\ call'[w] = c
  BY <1>1, <1>2, <1>3 DEF StepOf
<1>5. TypeOK' /\ Longer
  BY <1>1, <1>2, <1>4, QuietStep, TypeParts, BoundAssumption
<1>6. HasRead(call[w])'
  <2>1. call'[w].next - 1 = 0 /\ DOMAIN call'[w].order = {}
    BY <1>3, <1>4
  <2> QED  BY <2>1 DEF HasRead
<1>7. Knows(w)'
  BY <1>3, <1>4, <1>6 DEF Knows, At, Listing
<1> QED  BY <1>4, <1>5, <1>7 DEF Sound

LEMMA EndOfFileStep ==
  ASSUME IInv, NEW w \in Worker, EndOfFile(w)
  PROVE  Sound(w)
<1> DEFINE r == call[w]
           c == [r EXCEPT !.step = "select", !.chosen = 1]
<1>1. TypeOK /\ Len(file) \in Nat /\ call \in [Worker -> Call(Len(file))]
      /\ r \in Call(Len(file)) /\ HasRead(r) /\ r.ask \in Ask /\ r.listing = <<>>
      /\ r.next > Len(file) /\ r.next # 0
  BY TypeParts DEF IInv, Knows, EndOfFile
<1>2. call' = [call EXCEPT ![w] = c] /\ UNCHANGED <<file, acknowledged, calls>>
  BY DEF EndOfFile
<1>3. /\ c \in Call(Len(file)) /\ c.step = "select" /\ c.chosen = 1 /\ c.known = r.known
      /\ c.next = r.next /\ c.latest = r.latest /\ c.order = r.order
      /\ c.ask = r.ask /\ c.listing = <<>>
  <2>1. "select" \in Steps /\ 1 \in Nat
    BY DEF Steps
  <2>2. c \in Call(Len(file)) /\ c.step = "select" /\ c.chosen = 1 /\ c.known = r.known
    BY <1>1, <2>1 DEF Call
  <2>3. c.next = r.next /\ c.latest = r.latest /\ c.order = r.order
    BY <1>1 DEF Call
  <2>4. c.ask = r.ask /\ c.listing = r.listing
    BY <1>1 DEF Call
  <2> QED  BY <1>1, <2>2, <2>3, <2>4
<1> HIDE DEF c
<1>4. call' \in [Worker -> Call(Len(file))] /\ StepOf(w) /\ call'[w] = c
  BY <1>1, <1>2, <1>3 DEF StepOf
<1>5. TypeOK' /\ Longer
  BY <1>1, <1>2, <1>4, QuietStep, TypeParts
<1>6. HasRead(call[w])'
  BY <1>1, <1>2, <1>3, <1>4 DEF HasRead, Key, RegisteredBefore
<1>7. HasSelected(call[w])'
  <2>1. DOMAIN call'[w].listing = {}
    BY <1>3, <1>4
  <2>2. \A p \in DOMAIN call'[w].order : ~(p < call'[w].chosen)
    BY <1>3, <1>4 DEF Call
  <2> QED  BY <2>1, <2>2 DEF HasSelected
<1>8. (\A n \in c.known : n < c.next) /\ Len(c.listing) < c.ask.limit
  BY <1>1, <1>3, AskAssumption DEF Call, Known
<1>9. Knows(w)'
  BY <1>1, <1>3, <1>4, <1>6, <1>7, <1>8 DEF Knows, At, Listing
<1> QED  BY <1>4, <1>5, <1>9 DEF Sound

LEMMA EndOfCyclesStep ==
  ASSUME IInv, NEW w \in Worker, EndOfCycles(w)
  PROVE  Sound(w)
<1> DEFINE r == call[w]
           c == Ended(r, 200)
<1>1. TypeOK /\ Len(file) \in Nat /\ call \in [Worker -> Call(Len(file))]
      /\ r \in Call(Len(file)) /\ HasRead(r) /\ HasSelected(r) /\ r.ask \in Ask /\ r.next # 0
      /\ r.chosen > Len(r.order) /\ \A n \in r.known : n < r.next
  BY TypeParts DEF IInv, Knows, EndOfCycles
<1>2. call' = [call EXCEPT ![w] = c] /\ UNCHANGED <<file, acknowledged, calls>>
  BY DEF EndOfCycles, Ended
<1>3. /\ c \in Call(Len(file)) /\ c.step = "answer" /\ c.status = 200
      /\ c.next = r.next /\ c.latest = r.latest /\ c.order = r.order /\ c.known = r.known
      /\ c.ask = r.ask /\ c.listing = r.listing /\ c.chosen = r.chosen
  <2>1. 200 \in Statuses
    BY DEF Statuses
  <2> QED  BY <1>1, <2>1, EndedCall
<1> HIDE DEF c
<1>4. call' \in [Worker -> Call(Len(file))] /\ StepOf(w) /\ call'[w] = c
  BY <1>1, <1>2, <1>3 DEF StepOf
<1>5. TypeOK' /\ Longer
  BY <1>1, <1>2, <1>4, QuietStep, TypeParts
<1>6. HasRead(call[w])'
  BY <1>1, <1>2, <1>3, <1>4 DEF HasRead, Key, RegisteredBefore
<1>7. HasSelected(call[w])'
  <2>1. /\ call'[w].listing = r.listing /\ call'[w].chosen = r.chosen
        /\ call'[w].order = r.order /\ call'[w].ask = r.ask /\ call'[w].next = r.next
        /\ call'[w].latest = r.latest /\ file' = file
    BY <1>2, <1>3, <1>4
  <2>2. \A x, y : RegisteredBefore(x, y, call[w].next - 1)' <=> RegisteredBefore(x, y, r.next - 1)
    BY <2>1 DEF RegisteredBefore, Key
  <2>3. \A x : Entry(call[w], x)' = Entry(r, x)
    BY <2>1 DEF Entry
  <2>4. \A x : Wants(call[w].ask, Entry(call[w], x))' <=> Wants(r.ask, Entry(r, x))
    BY <2>1, <2>3 DEF Wants
  <2> QED  BY <1>1, <2>1, <2>2, <2>4 DEF HasSelected
<1>8. Knows(w)'
  BY <1>1, <1>3, <1>4, <1>6, <1>7 DEF Knows, At, Listing
<1> QED  BY <1>4, <1>5, <1>8 DEF Sound

\* The listing gets the next cycle if its latest entry is wanted; the cycles that it has
\* already come earlier in the order, and so they were registered earlier.
LEMMA SelectStep ==
  ASSUME IInv, NEW w \in Worker, Select(w)
  PROVE  Sound(w)
<1> DEFINE r == call[w]
           k == r.order[r.chosen]
           wanted == Wants(r.ask, Entry(r, k))
           listing == IF wanted THEN Append(r.listing, k) ELSE r.listing
           full == Len(listing) >= r.ask.limit
           c == [r EXCEPT !.listing = listing, !.chosen = r.chosen + 1,
                          !.step = IF full THEN "answer" ELSE "select",
                          !.status = IF full THEN 200 ELSE 0]
<1>1. TypeOK /\ Len(file) \in Nat /\ call \in [Worker -> Call(Len(file))]
      /\ r \in Call(Len(file)) /\ HasRead(r) /\ HasSelected(r) /\ r.ask \in Ask /\ r.next # 0
      /\ Len(r.listing) < r.ask.limit /\ \A n \in r.known : n < r.next
  BY TypeParts DEF IInv, Knows, Select
<1>2. call' = [call EXCEPT ![w] = c] /\ UNCHANGED <<file, acknowledged, calls>>
  BY DEF Select
<1>3. /\ r.order \in Seq(Cycle) /\ r.listing \in Seq(Cycle) /\ r.chosen \in Nat
      /\ r.next \in Nat /\ r.ask.limit \in Nat
  BY <1>1, AskAssumption DEF Call
<1>4. r.chosen \in DOMAIN r.order /\ k \in Cycle
  <2>1. r.chosen # 0
    BY DEF IInv, Knows, Select
  <2>2. r.chosen <= Len(r.order)
    BY DEF Select
  <2> QED  BY <1>3, <2>1, <2>2
<1> HIDE DEF k
<1>5. c \in Call(Len(file))
  <2>1. listing \in Seq(Cycle) /\ r.chosen + 1 \in Nat
    BY <1>3, <1>4
  <2>2. (IF full THEN "answer" ELSE "select") \in Steps /\ (IF full THEN 200 ELSE 0) \in Statuses
    BY DEF Steps, Statuses
  <2> HIDE DEF listing, full
  <2> QED  BY <1>1, <2>1, <2>2 DEF Call
<1>6. /\ c.listing = listing /\ c.chosen = r.chosen + 1
      /\ c.step = (IF full THEN "answer" ELSE "select")
      /\ c.status = (IF full THEN 200 ELSE 0)
      /\ c.next = r.next /\ c.latest = r.latest /\ c.order = r.order
      /\ c.known = r.known /\ c.ask = r.ask
  <2> HIDE DEF listing, full
  <2> QED  BY <1>1 DEF Call
<1> HIDE DEF c
<1>7. call' \in [Worker -> Call(Len(file))] /\ StepOf(w) /\ call'[w] = c
  BY <1>1, <1>2, <1>5 DEF StepOf
<1>8. TypeOK' /\ Longer
  BY <1>1, <1>2, <1>7, QuietStep, TypeParts
<1>9. HasRead(call[w])'
  BY <1>1, <1>2, <1>6, <1>7 DEF HasRead, Key, RegisteredBefore
<1>10. \A i \in DOMAIN listing :
         IF i \in DOMAIN r.listing THEN listing[i] = r.listing[i]
         ELSE wanted /\ listing[i] = k /\ \A j \in DOMAIN listing : i < j => FALSE
  BY <1>3, <1>4
<1>11. Elements(r.listing) \subseteq Elements(listing) /\ (wanted => k \in Elements(listing))
  <2>1. CASE wanted
    <3>1. /\ DOMAIN listing = 1..(Len(r.listing) + 1) /\ DOMAIN r.listing = 1..Len(r.listing)
          /\ listing[Len(r.listing) + 1] = k /\ Len(r.listing) \in Nat
          /\ \A i \in 1..Len(r.listing) : listing[i] = r.listing[i]
      BY <1>3, <1>4, <2>1
    <3> HIDE DEF listing
    <3> QED  BY <3>1 DEF Elements
  <2>2. CASE ~wanted
    BY <2>2
  <2> QED  BY <2>1, <2>2
<1> HIDE DEF listing
<1>12. \A i \in DOMAIN listing : \E p \in DOMAIN r.order :
          p < r.chosen + 1 /\ r.order[p] = listing[i] /\ Wants(r.ask, Entry(r, listing[i]))
  <2> SUFFICES ASSUME NEW i \in DOMAIN listing
               PROVE  \E p \in DOMAIN r.order :
          p < r.chosen + 1 /\ r.order[p] = listing[i] /\ Wants(r.ask, Entry(r, listing[i]))
    OBVIOUS
  <2>1. CASE i \in DOMAIN r.listing
    <3>1. PICK p \in DOMAIN r.order : p < r.chosen /\ r.order[p] = r.listing[i]
      BY <1>1, <2>1 DEF HasSelected
    <3>2. p < r.chosen + 1
      BY <1>3, <3>1
    <3>3. Wants(r.ask, Entry(r, r.listing[i])) /\ listing[i] = r.listing[i]
      BY <1>1, <1>10, <2>1 DEF HasSelected
    <3> QED  BY <3>1, <3>2, <3>3
  <2>2. CASE i \notin DOMAIN r.listing
    <3>1. wanted /\ listing[i] = k
      BY <1>10, <2>2
    <3>2. r.chosen < r.chosen + 1 /\ r.order[r.chosen] = k
      BY <1>3 DEF k
    <3> QED  BY <1>4, <3>1, <3>2
  <2> QED  BY <2>1, <2>2
<1>13. \A p \in DOMAIN r.order : p < r.chosen + 1 /\ Wants(r.ask, Entry(r, r.order[p])) =>
          r.order[p] \in Elements(listing)
  <2> SUFFICES ASSUME NEW p \in DOMAIN r.order, p < r.chosen + 1,
                      Wants(r.ask, Entry(r, r.order[p]))
               PROVE  r.order[p] \in Elements(listing)
    OBVIOUS
  <2>1. CASE p < r.chosen
    BY <1>1, <1>11, <2>1 DEF HasSelected
  <2>2. CASE p = r.chosen
    BY <1>11, <2>2 DEF k
  <2> QED  BY <1>3, <2>1, <2>2
<1>14. \A i, j \in DOMAIN listing : i < j =>
          RegisteredBefore(listing[i], listing[j], r.next - 1)
  <2> SUFFICES ASSUME NEW i \in DOMAIN listing, NEW j \in DOMAIN listing, i < j
               PROVE  RegisteredBefore(listing[i], listing[j], r.next - 1)
    OBVIOUS
  <2>1. i \in DOMAIN r.listing /\ listing[i] = r.listing[i]
    BY <1>10
  <2>2. CASE j \in DOMAIN r.listing
    BY <1>1, <1>10, <2>1, <2>2 DEF HasSelected
  <2>3. CASE j \notin DOMAIN r.listing
    <3>1. PICK p \in DOMAIN r.order : p < r.chosen /\ r.order[p] = r.listing[i]
      BY <1>1, <2>1 DEF HasSelected
    <3>2. listing[j] = r.order[r.chosen]
      BY <1>10, <2>3 DEF k
    <3>3. RegisteredBefore(r.order[p], r.order[r.chosen], r.next - 1)
      BY <1>1, <1>4, <3>1 DEF HasRead
    <3> QED  BY <2>1, <3>1, <3>2, <3>3
  <2> QED  BY <2>2, <2>3
<1>15. HasSelected(call[w])'
  <2>1. /\ call'[w].listing = listing /\ call'[w].chosen = r.chosen + 1
        /\ call'[w].order = r.order /\ call'[w].ask = r.ask /\ call'[w].next = r.next
        /\ call'[w].latest = r.latest /\ file' = file
    BY <1>2, <1>6, <1>7
  <2>2. \A x, y : RegisteredBefore(x, y, call[w].next - 1)' <=> RegisteredBefore(x, y, r.next - 1)
    BY <2>1 DEF RegisteredBefore, Key
  <2>3. \A x : Entry(call[w], x)' = Entry(r, x)
    BY <2>1 DEF Entry
  <2>4. \A x : Wants(call[w].ask, Entry(call[w], x))' <=> Wants(r.ask, Entry(r, x))
    BY <2>1, <2>3 DEF Wants
  <2> QED  BY <1>12, <1>13, <1>14, <2>1, <2>2, <2>4 DEF HasSelected
<1>16. Len(listing) \in Nat /\ (full => Len(listing) = r.ask.limit)
  BY <1>1, <1>3, <1>4 DEF listing
<1>17. Knows(w)'
  <2>1. /\ c.ask \in Ask /\ c.next # 0 /\ c.chosen # 0 /\ \A n \in c.known : n < c.next
    BY <1>1, <1>3, <1>6
  <2>2. \/ c.step = "select" /\ Len(c.listing) < c.ask.limit
        \/ c.step = "answer" /\ c.status = 200 /\ Len(c.listing) = c.ask.limit
    BY <1>3, <1>6, <1>16
  <2> HIDE DEF r, full
  <2> QED  BY <1>7, <1>9, <1>15, <2>1, <2>2 DEF Knows, At, Listing
<1> QED  BY <1>7, <1>8, <1>17 DEF Sound

\* Order t is s with cycle k, at the end unless it has a place already.
Places(k, s, t) ==
  /\ t \in Seq(Cycle)
  /\ k \in Elements(t) /\ Elements(s) \subseteq Elements(t)
  /\ \A i \in DOMAIN t : IF i \in DOMAIN s THEN t[i] = s[i]
       ELSE t[i] = k /\ k \notin Elements(s) /\ \A j \in DOMAIN t : j < i => j \in DOMAIN s

LEMMA PositionPlaces ==
  ASSUME NEW s \in Seq(Cycle), NEW k \in Cycle
  PROVE  Places(k, s, Position(k, s))
<1> DEFINE t == Position(k, s)
<1>1. CASE k \in Elements(s)
  BY <1>1 DEF Position, Places
<1>2. CASE k \notin Elements(s)
  <2>1. /\ t = Append(s, k) /\ t \in Seq(Cycle) /\ Len(s) \in Nat
        /\ DOMAIN s = 1..Len(s) /\ DOMAIN t = 1..(Len(s) + 1)
        /\ t[Len(s) + 1] = k /\ \A i \in 1..Len(s) : t[i] = s[i]
    BY <1>2 DEF Position
  <2>2. k \in Elements(t)
    BY <2>1 DEF Elements
  <2>3. Elements(s) \subseteq Elements(t)
    BY <2>1 DEF Elements
  <2>4. Places(k, s, t)
    <3> HIDE DEF t
    <3> QED  BY <1>2, <2>1, <2>2, <2>3 DEF Places
  <2> QED  BY <2>4
<1> QED  BY <1>1, <1>2

\* The next line makes its cycle's latest entry, and puts the cycle last if it is new.
LEMMA ReadLineStep ==
  ASSUME IInv, NEW w \in Worker, ReadLine(w)
  PROVE  Sound(w)
<1> DEFINE r == call[w]
           n == r.next
           k == file[n].inventory.cycle
           c == [r EXCEPT !.next = n + 1, !.latest = Enter(k, r.latest, n),
                          !.order = Position(k, r.order)]
           d == Ended(r, 500)
<1>1. TypeOK /\ Len(file) \in Nat /\ file \in Seq(Line) /\ call \in [Worker -> Call(Len(file))]
      /\ r \in Call(Len(file)) /\ HasRead(r) /\ r.step = "read" /\ n # 0
      /\ r.ask \in Ask /\ r.listing = <<>>
  BY TypeParts DEF IInv, Knows, ReadLine, At
<1>2. /\ n \in 1..Len(file) /\ r.latest \in [Cycle -> 0..Len(file)] /\ r.order \in Seq(Cycle)
  BY <1>1 DEF Call, Latest, ReadLine
<1>3. k \in Cycle /\ k = Key(n)
  BY <1>1, <1>2, LineCycle DEF Key
<1>4. /\ \/ file[n].whole /\ call' = [call EXCEPT ![w] = c]
         \/ call' = [call EXCEPT ![w] = d]
      /\ UNCHANGED <<file, acknowledged, calls>>
  BY DEF ReadLine, Ended
<1>5. CASE call' = [call EXCEPT ![w] = d]
  <2>1. d \in Call(Len(file)) /\ d.step = "answer" /\ d.status = 500
    <3>1. 500 \in Statuses
      BY DEF Statuses
    <3> QED  BY <1>1, <3>1, EndedCall
  <2> HIDE DEF d
  <2>2. call' \in [Worker -> Call(Len(file))] /\ StepOf(w) /\ call'[w] = d
    BY <1>1, <1>5, <2>1 DEF StepOf
  <2>3. TypeOK' /\ Longer
    BY <1>1, <1>4, <2>2, QuietStep, TypeParts
  <2>4. Knows(w)'
    BY <2>1, <2>2 DEF Knows, At, Listing
  <2> QED  BY <2>2, <2>3, <2>4 DEF Sound
<1>6. CASE call' = [call EXCEPT ![w] = c]
  <2> DEFINE latest == Enter(k, r.latest, n)
             order == Position(k, r.order)
  <2>1. latest \in [Cycle -> 0..Len(file)] /\ latest[k] = n
          /\ \A x \in Cycle : x # k => latest[x] = r.latest[x]
    BY <1>2, <1>3 DEF Enter
  <2>2. Places(k, r.order, order)
    BY <1>2, <1>3, PositionPlaces
  <2>3. latest = Enter(k, r.latest, n) /\ order = Position(k, r.order)
    OBVIOUS
  <2> HIDE DEF latest, order
  <2>4. /\ c \in Call(Len(file)) /\ c.step = "read" /\ c.next = n + 1
        /\ c.latest = latest /\ c.order = order
        /\ c.ask = r.ask /\ c.listing = r.listing
    <3>1. n + 1 \in 0..Len(file) + 1
      BY <1>2
    <3>2. c = [r EXCEPT !.next = n + 1, !.latest = latest, !.order = order]
      BY <2>3
    <3> HIDE DEF c
    <3> QED  BY <1>1, <2>1, <2>2, <3>1, <3>2 DEF Call, Latest, Places
  <2> HIDE DEF c
  <2>5. call' \in [Worker -> Call(Len(file))] /\ StepOf(w) /\ call'[w] = c
    BY <1>1, <1>6, <2>4 DEF StepOf
  <2>6. TypeOK' /\ Longer
    BY <1>1, <1>4, <2>5, QuietStep, TypeParts
  <2>7. \A m \in 1..n : latest[Key(m)] >= m /\ Key(m) \in Elements(order)
    <3> SUFFICES ASSUME NEW m \in 1..n PROVE latest[Key(m)] >= m /\ Key(m) \in Elements(order)
      OBVIOUS
    <3>1. k \in Elements(order) /\ Elements(r.order) \subseteq Elements(order)
      BY <2>2 DEF Places
    <3>2. CASE m = n
      BY <1>2, <1>3, <2>1, <3>1, <3>2
    <3>3. CASE m # n
      <4>1. m \in 1..(n - 1) /\ m <= n /\ m \in 1..Len(file)
        BY <1>2, <3>3
      <4>2. r.latest[Key(m)] >= m /\ Key(m) \in Elements(r.order)
        BY <1>1, <4>1 DEF HasRead
      <4>3. Key(m) \in Cycle
        BY <1>1, <4>1, LineCycle
      <4>4. CASE Key(m) = k
        BY <1>2, <2>1, <3>1, <4>1, <4>4
      <4>5. CASE Key(m) # k
        BY <2>1, <3>1, <4>2, <4>3, <4>5
      <4> QED  BY <4>4, <4>5
    <3> QED  BY <3>2, <3>3
  <2>8. \A i \in DOMAIN order : \E m \in 1..n : Key(m) = order[i]
    <3> SUFFICES ASSUME NEW i \in DOMAIN order PROVE \E m \in 1..n : Key(m) = order[i]
      OBVIOUS
    <3>1. CASE i \in DOMAIN r.order /\ order[i] = r.order[i]
      BY <1>1, <1>2, <3>1 DEF HasRead
    <3>2. CASE order[i] = k
      BY <1>2, <1>3, <3>2
    <3> QED  BY <2>2, <3>1, <3>2 DEF Places
  <2>9. \A i, j \in DOMAIN order : i < j => RegisteredBefore(order[i], order[j], n)
    <3> SUFFICES ASSUME NEW i \in DOMAIN order, NEW j \in DOMAIN order, i < j
                 PROVE  \E m \in 1..n : Key(m) = order[i] /\ \A l \in 1..m : Key(l) # order[j]
      BY DEF RegisteredBefore
    <3>1. /\ i \in DOMAIN r.order /\ order[i] = r.order[i]
          /\ \/ j \in DOMAIN r.order /\ order[j] = r.order[j]
             \/ order[j] = k /\ k \notin Elements(r.order)
      <4>1. CASE j \in DOMAIN r.order
        <5>1. i \in DOMAIN r.order
          BY <1>2, <2>2, <4>1 DEF Places
        <5> QED  BY <2>2, <4>1, <5>1 DEF Places
      <4>2. CASE j \notin DOMAIN r.order
        BY <2>2, <4>2 DEF Places
      <4> QED  BY <4>1, <4>2
    <3>2. 1..(n - 1) \subseteq 1..n
      BY <1>2
    <3>3. CASE j \in DOMAIN r.order /\ order[j] = r.order[j]
      BY <1>1, <3>1, <3>2, <3>3 DEF HasRead, RegisteredBefore
    <3>4. CASE order[j] = k /\ k \notin Elements(r.order)
      <4>1. PICK m \in 1..(n - 1) : Key(m) = order[i]
        BY <1>1, <3>1 DEF HasRead
      <4>2. \A l \in 1..m : l \in 1..(n - 1)
        BY <1>2, <4>1
      <4>3. \A l \in 1..m : Key(l) \in Elements(r.order)
        BY <1>1, <4>2 DEF HasRead
      <4> QED  BY <3>2, <3>4, <4>1, <4>3
    <3> QED  BY <3>1, <3>3, <3>4
  <2>10. HasRead(call[w])'
    <3>1. call'[w].next = n + 1 /\ call'[w].latest = latest /\ call'[w].order = order
      BY <2>4, <2>5
    <3>3. call'[w].next - 1 = n
      BY <1>2, <3>1
    <3>2. \A m : Key(m)' = Key(m)
      BY <1>4 DEF Key
    <3> QED  BY <2>7, <2>8, <2>9, <3>1, <3>2, <3>3 DEF HasRead, RegisteredBefore
  <2>11. Knows(w)'
    BY <2>4, <2>5, <2>10, <1>1, <1>2 DEF Knows, At, Listing
  <2> QED  BY <2>5, <2>6, <2>11 DEF Sound
<1> QED  BY <1>4, <1>5, <1>6

-----------------------------------------------------------------------------
LEMMA SoundStep ==
  ASSUME IInv, NEW w \in Worker, Sound(w)
  PROVE  IInv'
<1>1. file' \in Seq(Line)
  BY DEF Sound, TypeOK, Line
<1>2. ASSUME NEW v \in Worker \ {w} PROVE Knows(v)'
  BY <1>1, <1>2, LongerKeeps DEF IInv, Sound, StepOf
<1> QED  BY <1>2 DEF IInv, Sound

LEMMA InitSound == Init => IInv
<1> SUFFICES ASSUME Init PROVE IInv
  OBVIOUS
<1>1. TypeOK
  <2>1. Len(file) = 0 /\ file \in Seq(Line)  BY DEF Init
  <2>2. NoCall \in Call(0)  BY NoCallType
  <2> QED  BY <2>1, <2>2, TypeParts, BoundAssumption DEF Init
<1>2. ASSUME NEW w \in Worker PROVE Knows(w)
  <2>1. call[w].step = "idle"
    BY DEF Init, NoCall
  <2> QED  BY <2>1 DEF Knows, At, Listing
<1> QED  BY <1>1, <1>2 DEF IInv

LEMMA NextSound == IInv /\ [Next]_vars => IInv'
<1>1. ASSUME IInv, UNCHANGED vars PROVE IInv'
  <2>1. TypeOK' /\ file' \in Seq(Line) /\ Longer
    BY <1>1, TypeParts DEF IInv, TypeOK, vars, Longer
  <2> QED  BY <1>1, <2>1, LongerKeeps DEF IInv, vars
<1>2. ASSUME IInv, Next PROVE IInv'
  <2> USE <1>2
  <2>1. PICK w \in Worker :
          \/ \E i \in Inventory : Post(w, i)
          \/ \E ask \in Ask : Get(w, ask)
          \/ Validate(w) \/ AppendLine(w) \/ Sync(w)
          \/ ReadLine(w) \/ EndOfFile(w) \/ Select(w) \/ EndOfCycles(w)
          \/ Answer(w) \/ Fail(w)
    BY DEF Next
  <2>2. Sound(w)
    BY <2>1, PostStep, GetStep, ValidateStep, AppendLineStep, SyncStep, ReadLineStep,
       EndOfFileStep, SelectStep, EndOfCyclesStep, AnswerStep, FailStep
  <2> QED  BY <2>2, SoundStep
<1> QED  BY <1>1, <1>2

LEMMA Inductive == Spec => []IInv
BY InitSound, NextSound, PTL DEF Spec

LEMMA ListingIsKnown ==
  ASSUME IInv, NEW w \in Worker, Listing(w)
  PROVE  /\ HasRead(call[w]) /\ \A n \in call[w].known : n \in 1..(call[w].next - 1)
         /\ \A n \in 1..(call[w].next - 1) : n \in DOMAIN file
         /\ HasSelected(call[w]) /\ call[w].order \in Seq(Cycle) /\ call[w].chosen \in Nat
         /\ Len(call[w].listing) = call[w].ask.limit \/ call[w].chosen > Len(call[w].order)
<1>1. call[w] \in Call(Len(file)) /\ Len(file) \in Nat /\ DOMAIN file = 1..Len(file)
  BY TypeParts DEF IInv
<1>2. call[w].known \subseteq 1..Len(file) /\ call[w].next \in 0..Len(file) + 1
  BY <1>1 DEF Call, Known
<1>3. call[w].order \in Seq(Cycle) /\ call[w].chosen \in Nat
  BY <1>1 DEF Call
<1> QED  BY <1>1, <1>2, <1>3 DEF IInv, Knows

\* The file holds whole or short lines of registered inventories, and every position
\* that a call or an acknowledgement names is one of its lines.
THEOREM TypeCorrect == Spec => []TypeOK
<1>1. IInv => TypeOK  BY DEF IInv
<1> QED  BY <1>1, Inductive, PTL

\* A listing that no lock protects, read from a file that grows under it, judges each
\* cycle by an entry no older than what was acknowledged when it began, and holds just
\* those that are wanted, up to its limit.
THEOREM ListingIsCurrentHolds == Spec => []ListingIsCurrent
<1>1. ASSUME IInv PROVE ListingIsCurrent
  <2> SUFFICES ASSUME NEW w \in Worker, Listing(w), NEW n \in call[w].known
               PROVE  /\ call[w].latest[Key(n)] >= n
                      /\ Key(n) \in Elements(call[w].listing) =>
                           Wants(call[w].ask, Entry(call[w], Key(n)))
                      /\ Wants(call[w].ask, Entry(call[w], Key(n))) =>
                           \/ Key(n) \in Elements(call[w].listing)
                           \/ Len(call[w].listing) = call[w].ask.limit
    BY DEF ListingIsCurrent, Key
  <2> DEFINE r == call[w]
  <2>1. /\ HasRead(r) /\ HasSelected(r) /\ n \in 1..(r.next - 1)
        /\ r.order \in Seq(Cycle) /\ r.chosen \in Nat
        /\ Len(r.listing) = r.ask.limit \/ r.chosen > Len(r.order)
    BY <1>1, ListingIsKnown
  <2> HIDE DEF r
  <2>2. r.latest[Key(n)] >= n /\ Key(n) \in Elements(r.order)
    BY <2>1 DEF HasRead
  <2>3. Key(n) \in Elements(r.listing) => Wants(r.ask, Entry(r, Key(n)))
    BY <2>1 DEF HasSelected, Elements
  <2>4. ASSUME Wants(r.ask, Entry(r, Key(n))), r.chosen > Len(r.order)
        PROVE  Key(n) \in Elements(r.listing)
    <3>1. PICK p \in DOMAIN r.order : r.order[p] = Key(n)
      BY <2>2 DEF Elements
    <3>2. p < r.chosen
      BY <2>1, <2>4, <3>1
    <3> QED  BY <2>1, <2>4, <3>1, <3>2 DEF HasSelected
  <2> QED  BY <2>1, <2>2, <2>3, <2>4 DEF r
<1> QED  BY <1>1, Inductive, PTL

\* The order of a listing is that of the first registrations: a later registration of
\* a cycle moves nothing, however it interleaves with the reading.
THEOREM UpdatesInPlaceHolds == Spec => []UpdatesInPlace
<1>1. ASSUME IInv PROVE UpdatesInPlace
  <2> SUFFICES ASSUME NEW w \in Worker, Listing(w), NEW i \in DOMAIN call[w].listing,
                      NEW j \in DOMAIN call[w].listing, i < j
               PROVE  \E n \in DOMAIN file :
                        /\ file[n].inventory.cycle = call[w].listing[i]
                        /\ \A m \in 1..n : file[m].inventory.cycle # call[w].listing[j]
    BY DEF UpdatesInPlace
  <2>1. PICK n \in 1..(call[w].next - 1) :
          Key(n) = call[w].listing[i] /\ \A m \in 1..n : Key(m) # call[w].listing[j]
    BY <1>1, ListingIsKnown DEF HasSelected, RegisteredBefore
  <2>2. n \in DOMAIN file
    BY <1>1, <2>1, ListingIsKnown
  <2> QED  BY <2>1, <2>2 DEF Key
<1> QED  BY <1>1, Inductive, PTL
=============================================================================
