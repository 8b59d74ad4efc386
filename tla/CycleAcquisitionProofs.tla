------------------------- MODULE CycleAcquisitionProofs -------------------------
(***************************************************************************)
(* The acquisition of a cycle keeps its type, never goes backwards, calls  *)
(* nothing usable without its minimum and cuts every coherent slice along  *)
(* its message, for any workers, fields, manifests and publications.       *)
(***************************************************************************)
EXTENDS CycleAcquisition, TLAPS

\* An evaluation that has not been applied yet is still true: fields only arrive.
EvaluationsHold ==
  \A w \in Worker :
    /\ call[w].target \in Usable => Minimum \subseteq Arrived
    /\ call[w].target = "complete" => Complete \subseteq Arrived

\* A worker downloads messages that its index matches to their fields alone.
IsMessage(index, size, m) ==
  \E i \in DOMAIN index :
    UniqueMatch(index, m.name, i) /\ m.start = index[i].offset /\ m.end = ByteEnd(index, size, i)
SelectionsMatch ==
  \A w \in Worker : \A m \in call[w].selected : IsMessage(call[w].index, call[w].size, m)
SlicesMatch == \A s \in slices : IsMessage(s.index, s.size, s)

IInv ==
  /\ TypeOK
  /\ UsableMeansMinimum
  /\ EvaluationsHold
  /\ SelectionsMatch
  /\ SlicesMatch

-----------------------------------------------------------------------------
LEMMA NoCallType == NoCall \in Call /\ NoCall.target \notin Usable /\ NoCall.selected = {}
BY DEF NoCall, Call, Step, CycleState, Usable

\* A transition goes to its target or nowhere, and never backwards.
LEMMA TransitionForward ==
  ASSUME NEW target \in CycleState, state \in CycleState, Transition(target)
  PROVE  /\ state' \in CycleState
         /\ state' \in {state, target}
         /\ Rank(state) <= Rank(state')
BY DEF Transition, Allowed, AfterPartial, CycleState, Retired, Rank

LEMMA PublicationFields ==
  ASSUME NEW p \in Publication
  PROVE  /\ p.object \in Object
         /\ p.index \in Seq(Line)
         /\ p.object.size \in Nat
BY PublicationAssumption DEF Object

LEMMA LineFields ==
  ASSUME NEW index \in Seq(Line), NEW i \in DOMAIN index
  PROVE  index[i] \in Line /\ index[i].offset \in Int /\ index[i].tokens \subseteq Token
<1>1. i \in 1..Len(index)  OBVIOUS
<1>2. index[i] \in Line  BY <1>1
<1> QED  BY <1>2 DEF Line

LEMMA ByteEndType ==
  ASSUME NEW index \in Seq(Line), NEW size \in Nat, NEW i \in DOMAIN index
  PROVE  ByteEnd(index, size, i) \in Int
<1>1. CASE i < Len(index)
  <2>1. i + 1 \in DOMAIN index  BY <1>1
  <2> QED  BY <1>1, <2>1, LineFields DEF ByteEnd
<1>2. CASE ~(i < Len(index))
  BY <1>2 DEF ByteEnd
<1> QED  BY <1>1, <1>2

\* select_grib_messages returns messages of its index.
LEMMA SelectionMatches ==
  ASSUME NEW index \in Seq(Line), NEW size \in Nat, NEW names \in SUBSET Name
  PROVE  /\ Selection(index, size, names) \subseteq Message
         /\ \A m \in Selection(index, size, names) : IsMessage(index, size, m)
<1> SUFFICES ASSUME NEW m \in Selection(index, size, names)
             PROVE  m \in Message /\ IsMessage(index, size, m)
  OBVIOUS
<1>1. PICK n \in names, i \in DOMAIN index :
        UniqueMatch(index, n, i)
        /\ m = [name |-> n, start |-> index[i].offset, end |-> ByteEnd(index, size, i)]
  BY DEF Selection
<1>2. m \in Message  BY <1>1, LineFields, ByteEndType DEF Message
<1>3. IsMessage(index, size, m)  BY <1>1 DEF IsMessage
<1> QED  BY <1>2, <1>3

LEMMA EvaluatedTrue ==
  /\ Evaluated(Arrived \intersect Complete) \in CycleState
  /\ Evaluated(Arrived \intersect Complete) \in Usable => Minimum \subseteq Arrived
  /\ Evaluated(Arrived \intersect Complete) = "complete" => Complete \subseteq Arrived
BY ManifestAssumption DEF Evaluated, CycleState, Usable

-----------------------------------------------------------------------------
\* What all steps have in common: the stores only grow, by slices that match.
Growth ==
  /\ provider' \in Publication
  /\ publications' \in 0..MaxPublications /\ runs' \in 0..MaxRuns
  /\ state' \in CycleState
  /\ slices \subseteq slices'
  /\ \A s \in slices' : s \in slices \/ (s \in Slice /\ IsMessage(s.index, s.size, s))

\* What a call may know, when these fields have arrived.
Sound(c, arrived) ==
  /\ c \in Call
  /\ c.target \in Usable => Minimum \subseteq arrived
  /\ c.target = "complete" => Complete \subseteq arrived
  /\ \A m \in c.selected : IsMessage(c.index, c.size, m)

LEMMA SoundIsKept ==
  ASSUME NEW c, NEW early, NEW late, Sound(c, early), early \subseteq late
  PROVE  Sound(c, late)
BY DEF Sound

LEMMA ArrivedGrows == Growth => Arrived \subseteq Arrived'
BY DEF Growth, Arrived

LEMMA CallsAreSound ==
  ASSUME IInv, NEW w \in Worker
  PROVE  Sound(call[w], Arrived)
BY DEF IInv, TypeOK, EvaluationsHold, SelectionsMatch, Sound

\* One call moves, to where it knows no more than it may; the state becomes usable
\* only by the evaluation that it applies.
LEMMA OneCallMoves ==
  ASSUME IInv, Growth,
         NEW w \in Worker, NEW c, Sound(c, Arrived'), call' = [call EXCEPT ![w] = c],
         state' \in Usable => state' = state \/ state' = call[w].target
  PROVE  IInv'
<1>1. call' \in [Worker -> Call]  BY DEF IInv, TypeOK, Sound
<1>2. TypeOK'  BY <1>1 DEF IInv, TypeOK, Growth
<1>3. ASSUME NEW v \in Worker PROVE Sound(call'[v], Arrived')
  <2>1. CASE v = w  BY <2>1 DEF IInv, TypeOK
  <2>2. CASE v # w
    <3>1. call'[v] = call[v]  BY <2>2 DEF IInv, TypeOK
    <3> QED  BY <3>1, CallsAreSound, ArrivedGrows, SoundIsKept
  <2> QED  BY <2>1, <2>2
<1>4. EvaluationsHold' /\ SelectionsMatch'
  BY <1>3 DEF Sound, EvaluationsHold, SelectionsMatch
<1>5. UsableMeansMinimum'
  BY ArrivedGrows DEF IInv, UsableMeansMinimum, EvaluationsHold, Usable
<1>6. SlicesMatch'  BY DEF IInv, SlicesMatch, Growth
<1> QED  BY <1>2, <1>4, <1>5, <1>6 DEF IInv

LEMMA FieldTypes ==
  ASSUME TypeOK, NEW w \in Worker
  PROVE  /\ call[w] \in Call
         /\ call[w].at \in Step /\ call[w].names \subseteq Name /\ call[w].size \in Nat
         /\ call[w].index \in Seq(Line) /\ call[w].selected \subseteq Message
         /\ call[w].target \in CycleState
BY DEF TypeOK, Call

LEMMA OnlyStateMoves ==
  ASSUME TypeOK, UNCHANGED <<provider, slices, publications>>, state' \in CycleState,
         runs' \in 0..MaxRuns
  PROVE  Growth
BY DEF Growth, TypeOK

-----------------------------------------------------------------------------
\* One lemma per action.
LEMMA DiscoverKeeps ==
  ASSUME IInv, NEW w \in Worker, NEW names \in Requirement, Discover(w, names)
  PROVE  IInv'
<1> DEFINE c == [NoCall EXCEPT !.at = "index", !.names = names, !.size = provider.object.size]
<1>1. Growth  BY BoundAssumption, OnlyStateMoves DEF Discover, IInv, TypeOK
<1>2. c \in Call
  BY NoCallType, RequirementAssumption, PublicationFields DEF IInv, TypeOK, NoCall, Call, Step
<1>3. c.target = "discovered" /\ c.selected = {}  BY DEF NoCall
<1>4. Sound(c, Arrived')  BY <1>2, <1>3 DEF Sound, Usable
<1>5. call' = [call EXCEPT ![w] = c] /\ state' = state  BY DEF Discover
<1> HIDE DEF c
<1> QED  BY <1>1, <1>4, <1>5, OneCallMoves

LEMMA SelectKeeps ==
  ASSUME IInv, NEW w \in Worker, Select(w)
  PROVE  IInv' /\ Rank(state) <= Rank(state')
<1> DEFINE index == provider.index
           found == Selection(index, call[w].size, call[w].names)
           c == [call[w] EXCEPT !.at = "start", !.names = {}, !.index = index, !.selected = found]
<1>1. TypeOK  BY DEF IInv
<1>2. CASE Parses(index, call[w].size) /\ Selectable(index, call[w].names)
  <2>1. Transition("index_available") /\ call' = [call EXCEPT ![w] = c]
    BY <1>2 DEF Select
  <2>2. state' \in CycleState /\ state' \in {state, "index_available"} /\ Rank(state) <= Rank(state')
    BY <1>1, <2>1, TransitionForward DEF TypeOK, CycleState
  <2>3. Growth  BY <1>1, <2>2, OnlyStateMoves DEF Select, TypeOK
  <2>4. index \in Seq(Line)  BY <1>1, PublicationFields DEF TypeOK
  <2>5. found \subseteq Message /\ \A m \in found : IsMessage(index, call[w].size, m)
    BY <1>1, <2>4, FieldTypes, SelectionMatches
  <2> HIDE DEF index, found
  <2>6. /\ c \in Call /\ c.target = call[w].target /\ c.selected = found
        /\ c.index = index /\ c.size = call[w].size
    BY <1>1, <2>4, <2>5, FieldTypes DEF Call, Step
  <2>7. Sound(call[w], Arrived')  BY CallsAreSound, <2>3, ArrivedGrows, SoundIsKept
  <2> HIDE DEF c
  <2>8. Sound(c, Arrived')  BY <2>5, <2>6, <2>7 DEF Sound
  <2> QED  BY <2>1, <2>2, <2>3, <2>8, OneCallMoves DEF Usable
<1>3. CASE ~(Parses(index, call[w].size) /\ Selectable(index, call[w].names))
  <2>1. call' = [call EXCEPT ![w] = NoCall] /\ state' = state  BY <1>3 DEF Select
  <2>2. Growth  BY <1>1, <2>1, OnlyStateMoves DEF Select, TypeOK
  <2>3. Sound(NoCall, Arrived')  BY NoCallType DEF Sound, Usable, NoCall
  <2>4. Rank(state) <= Rank(state')  BY <1>1, <2>1 DEF TypeOK, CycleState, Rank
  <2> QED  BY <2>1, <2>2, <2>3, <2>4, OneCallMoves
<1> QED  BY <1>2, <1>3

LEMMA StartKeeps ==
  ASSUME IInv, NEW w \in Worker, Start(w)
  PROVE  IInv' /\ Rank(state) <= Rank(state')
<1> DEFINE c == [call[w] EXCEPT !.at = "download"]
<1>1. TypeOK  BY DEF IInv
<1>2. call' = [call EXCEPT ![w] = c]  BY DEF Start, Advance
<1>3. state' \in CycleState /\ state' \in {state, "downloading"} /\ Rank(state) <= Rank(state')
  BY <1>1, TransitionForward DEF Start, TypeOK, CycleState
<1>4. Growth  BY <1>1, <1>3, OnlyStateMoves DEF Start, TypeOK
<1>5. Sound(call[w], Arrived')  BY CallsAreSound, <1>4, ArrivedGrows, SoundIsKept
<1>6. /\ c \in Call /\ c.target = call[w].target /\ c.selected = call[w].selected
      /\ c.index = call[w].index /\ c.size = call[w].size
  BY <1>1, FieldTypes DEF Call, Step
<1> HIDE DEF c
<1>7. Sound(c, Arrived')  BY <1>5, <1>6 DEF Sound
<1> QED  BY <1>2, <1>3, <1>4, <1>7, OneCallMoves DEF Usable

LEMMA DownloadKeeps ==
  ASSUME IInv, NEW w \in Worker, NEW m \in call[w].selected, Download(w, m)
  PROVE  IInv'
<1> DEFINE c == [call[w] EXCEPT !.selected = call[w].selected \ {m}]
           slice == [name |-> m.name, start |-> m.start, end |-> m.end, size |-> call[w].size,
                     index |-> call[w].index, object |-> provider.object]
<1>1. TypeOK /\ m \in Message  BY FieldTypes DEF IInv
<1>2. call' = [call EXCEPT ![w] = c] /\ slices' \in {slices, slices \union {slice}}
      /\ UNCHANGED <<provider, state, publications, runs>>
  <2>1. call' = [call EXCEPT ![w] = c]  BY DEF Download
  <2>2. slices' = slices \union {slice} \/ slices' = slices  BY DEF Download
  <2>3. UNCHANGED <<provider, state, publications, runs>>  BY DEF Download
  <2> QED  BY <2>1, <2>2, <2>3
<1>3. slice \in Slice
  <2>1. provider.object \in Object  BY <1>1, PublicationFields DEF TypeOK
  <2> QED  BY <1>1, <2>1, FieldTypes DEF Slice, Message
<1>4. IsMessage(slice.index, slice.size, slice)
  BY DEF IInv, SelectionsMatch, IsMessage
<1> HIDE DEF slice
<1>5. Growth  BY <1>1, <1>2, <1>3, <1>4 DEF Growth, TypeOK
<1>6. Sound(call[w], Arrived')  BY CallsAreSound, <1>5, ArrivedGrows, SoundIsKept
<1>7. /\ c \in Call /\ c.target = call[w].target /\ c.selected \subseteq call[w].selected
      /\ c.index = call[w].index /\ c.size = call[w].size
  BY <1>1, FieldTypes DEF Call
<1> HIDE DEF c
<1>8. Sound(c, Arrived')  BY <1>6, <1>7 DEF Sound
<1> QED  BY <1>2, <1>5, <1>8, OneCallMoves

LEMMA EvaluateKeeps ==
  ASSUME IInv, NEW w \in Worker, Evaluate(w)
  PROVE  IInv'
<1> DEFINE target == Evaluated(Arrived \intersect Complete)
           c == [call[w] EXCEPT !.at = "apply", !.target = target]
<1>1. TypeOK  BY DEF IInv
<1>2. call' = [call EXCEPT ![w] = c] /\ UNCHANGED <<provider, state, slices, publications, runs>>
  BY DEF Evaluate
<1>3. Growth  BY <1>1, <1>2, OnlyStateMoves DEF TypeOK
<1>4. /\ target \in CycleState
      /\ target \in Usable => Minimum \subseteq Arrived'
      /\ target = "complete" => Complete \subseteq Arrived'
  BY <1>3, ArrivedGrows, EvaluatedTrue
<1> HIDE DEF target
<1>5. /\ c \in Call /\ c.target = target /\ c.selected = call[w].selected
      /\ c.index = call[w].index /\ c.size = call[w].size
  BY <1>1, <1>4, FieldTypes DEF Call, Step
<1> HIDE DEF c
<1>6. Sound(c, Arrived')  BY <1>4, <1>5, CallsAreSound DEF Sound
<1> QED  BY <1>2, <1>3, <1>6, OneCallMoves

LEMMA ApplyKeeps ==
  ASSUME IInv, NEW w \in Worker, Apply(w)
  PROVE  IInv' /\ Rank(state) <= Rank(state')
<1> DEFINE c == IF call[w].selected = {} THEN NoCall
                ELSE [call[w] EXCEPT !.at = "download", !.target = "discovered"]
<1>1. TypeOK  BY DEF IInv
<1>2. call' = [call EXCEPT ![w] = c]  BY DEF Apply
<1>3. /\ state' \in CycleState /\ state' \in {state, call[w].target}
      /\ Rank(state) <= Rank(state')
  BY <1>1, FieldTypes, TransitionForward DEF Apply, TypeOK
<1>4. Growth  BY <1>1, <1>3, OnlyStateMoves DEF Apply, TypeOK
<1>5. Sound(c, Arrived')
  <2>1. CASE call[w].selected = {}
    BY <2>1, NoCallType DEF Sound, Usable, NoCall
  <2>2. CASE call[w].selected # {}
    <3>1. /\ c \in Call /\ c.target = "discovered" /\ c.selected = call[w].selected
          /\ c.index = call[w].index /\ c.size = call[w].size
      BY <1>1, <2>2, FieldTypes DEF Call, Step, CycleState
    <3> HIDE DEF c
    <3> QED  BY <3>1, CallsAreSound DEF Sound, Usable
  <2> QED  BY <2>1, <2>2
<1> HIDE DEF c
<1> QED  BY <1>2, <1>3, <1>4, <1>5, OneCallMoves

\* Steps of nobody's call that make nothing usable.
LEMMA NoCallMoves ==
  ASSUME IInv, UNCHANGED <<slices, call>>, TypeOK', state' \in Usable => state' = state
  PROVE  IInv'
BY DEF IInv, UsableMeansMinimum, EvaluationsHold, SelectionsMatch, SlicesMatch, Arrived, Usable

LEMMA RetireKeeps ==
  ASSUME IInv, NEW target \in Retired, Retire(target)
  PROVE  IInv' /\ Rank(state) <= Rank(state')
<1>1. TypeOK /\ target \in CycleState  BY DEF IInv, Retired, CycleState
<1>2. state' \in CycleState /\ state' \in {state, target} /\ Rank(state) <= Rank(state')
  BY <1>1, TransitionForward DEF Retire, TypeOK
<1>3. TypeOK'  BY <1>1, <1>2 DEF Retire, TypeOK
<1> QED  BY <1>2, <1>3, NoCallMoves DEF Retire, Retired, Usable

LEMMA PublishKeeps ==
  ASSUME IInv, NEW publication \in Publication, Publish(publication)
  PROVE  IInv'
<1>1. TypeOK'  BY BoundAssumption DEF IInv, TypeOK, Publish
<1> QED  BY <1>1, NoCallMoves DEF Publish

-----------------------------------------------------------------------------
LEMMA IInvInitially == Init => IInv
<1> SUFFICES ASSUME Init PROVE IInv  OBVIOUS
<1>1. call \in [Worker -> Call] /\ \A w \in Worker : call[w] = NoCall
  BY NoCallType DEF Init
<1>2. TypeOK  BY <1>1, BoundAssumption DEF Init, TypeOK, CycleState
<1>3. EvaluationsHold /\ SelectionsMatch
  BY <1>1, NoCallType DEF EvaluationsHold, SelectionsMatch, Usable
<1>4. UsableMeansMinimum /\ SlicesMatch
  BY DEF Init, UsableMeansMinimum, SlicesMatch, Usable
<1> QED  BY <1>2, <1>3, <1>4 DEF IInv

LEMMA SameRank == TypeOK /\ state' = state => Rank(state) <= Rank(state')
BY DEF TypeOK, CycleState, Rank

LEMMA StepKeeps ==
  ASSUME IInv, [Next]_vars
  PROVE  IInv' /\ Rank(state) <= Rank(state')
<1>1. TypeOK  BY DEF IInv
<1>2. ASSUME NEW w \in Worker, NEW names \in Requirement, Discover(w, names)
      PROVE  IInv' /\ Rank(state) <= Rank(state')
  BY <1>1, <1>2, DiscoverKeeps, SameRank DEF Discover
<1>3. ASSUME NEW w \in Worker, WorkerStep(w)
      PROVE  IInv' /\ Rank(state) <= Rank(state')
  <2>1. CASE \E m \in call[w].selected : Download(w, m)
    BY <1>1, <2>1, DownloadKeeps, SameRank DEF Download
  <2>2. CASE Evaluate(w)  BY <1>1, <2>2, EvaluateKeeps, SameRank DEF Evaluate
  <2> QED  BY <1>3, <2>1, <2>2, SelectKeeps, StartKeeps, ApplyKeeps DEF WorkerStep
<1>4. ASSUME NEW publication \in Publication, Publish(publication)
      PROVE  IInv' /\ Rank(state) <= Rank(state')
  BY <1>1, <1>4, PublishKeeps, SameRank DEF Publish
<1>5. CASE UNCHANGED vars
  <2>1. TypeOK'  BY <1>1, <1>5 DEF TypeOK, vars
  <2> QED  BY <1>1, <1>5, <2>1, NoCallMoves, SameRank DEF vars
<1> QED  BY <1>2, <1>3, <1>4, <1>5, RetireKeeps DEF Next

THEOREM IInvHolds == Spec => []IInv
BY IInvInitially, StepKeeps, PTL DEF Spec

\* The state keeps its type, for any workers, fields, manifests and publications.
THEOREM TypeCorrect == Spec => []TypeOK
<1>1. IInv => TypeOK  BY DEF IInv
<1> QED  BY <1>1, IInvHolds, PTL

\* A cycle is called usable or complete only with the slices that make it so.
THEOREM UsableMeansMinimumHolds == Spec => []UsableMeansMinimum
<1>1. IInv => UsableMeansMinimum  BY DEF IInv
<1> QED  BY <1>1, IInvHolds, PTL

\* No evaluation, however stale, moves a cycle backwards.
THEOREM NeverBackwardsHolds == Spec => NeverBackwards
<1>1. IInv /\ [Next]_vars => [Rank(state) <= Rank(state')]_vars
  BY StepKeeps
<1> QED  BY <1>1, IInvHolds, PTL DEF Spec, NeverBackwards

\* A slice whose size, index and object belong together is its field's message.
THEOREM SliceIsItsMessageHolds == Spec => []SliceIsItsMessage
<1>1. IInv => SliceIsItsMessage
  <2> SUFFICES ASSUME IInv, NEW s \in slices, Coherent(s)
               PROVE  \E i \in DOMAIN s.object.starts :
                        /\ s.start = s.object.starts[i]
                        /\ s.end + 1 = IF i < Len(s.object.starts) THEN s.object.starts[i + 1]
                                       ELSE s.object.size
                        /\ \A j \in DOMAIN s.object.what :
                             Tokens[s.name] \subseteq s.object.what[j] <=> i = j
    BY DEF SliceIsItsMessage
  <2>1. PICK i \in DOMAIN s.index :
          UniqueMatch(s.index, s.name, i) /\ s.start = s.index[i].offset
          /\ s.end = ByteEnd(s.index, s.size, i)
    BY DEF IInv, SlicesMatch, IsMessage
  <2>2. s.index \in Seq(Line) /\ s.object \in Object /\ s.start \in Int /\ s.end \in Int
    BY DEF IInv, TypeOK, Slice
  <2>3. /\ DOMAIN s.index = DOMAIN s.object.starts /\ DOMAIN s.index = DOMAIN s.object.what
        /\ Len(s.index) = Len(s.object.starts)
    <3>1. s.object.starts \in Seq(Nat) /\ s.object.what \in Seq(SUBSET Token)
      BY <2>2 DEF Object
    <3>2. Len(s.index) = Len(s.object.starts) /\ Len(s.index) = Len(s.object.what)
      BY DEF Coherent
    <3>3. DOMAIN s.index = 1..Len(s.index)  BY <2>2
    <3>4. DOMAIN s.object.starts = 1..Len(s.object.starts)  BY <3>1
    <3>5. DOMAIN s.object.what = 1..Len(s.object.what)  BY <3>1
    <3> QED  BY <3>2, <3>3, <3>4, <3>5
  <2>4. s.start = s.object.starts[i]  BY <2>1 DEF Coherent
  <2>5. \A j \in DOMAIN s.object.what : Tokens[s.name] \subseteq s.object.what[j] <=> i = j
    BY <2>1, <2>3 DEF Coherent, UniqueMatch, Matches
  <2>6. s.end + 1 = IF i < Len(s.object.starts) THEN s.object.starts[i + 1] ELSE s.object.size
    <3>1. CASE i < Len(s.index)
      <4>1. i + 1 \in DOMAIN s.index  BY <2>2, <3>1
      <4>2. s.index[i + 1].offset = s.object.starts[i + 1]  BY <4>1 DEF Coherent
      <4>3. s.index[i + 1].offset \in Int  BY <2>2, <4>1, LineFields
      <4> QED  BY <2>1, <2>2, <2>3, <3>1, <4>2, <4>3 DEF ByteEnd
    <3>2. CASE ~(i < Len(s.index))
      BY <2>1, <2>2, <2>3, <3>2 DEF ByteEnd, Coherent, Object
    <3> QED  BY <3>1, <3>2
  <2> QED  BY <2>1, <2>3, <2>4, <2>5, <2>6
<1> QED  BY <1>1, IInvHolds, PTL
=============================================================================
