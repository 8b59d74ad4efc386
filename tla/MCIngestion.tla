----------------------------- MODULE MCIngestion ------------------------------
(* Two HTTP workers and one WIS2 consumer; a plain record, one whose JSON     *)
(* claims upstream verification and a rejected one; messages with and without *)
(* an integrity claim, from the origin and from a cache.                      *)
EXTENDS Ingestion

CONSTANTS s1, bad, garbled, payloadId, dataId, now, later, link1, link2, id1, centre1, centre2

Says(q, l) == [dataId |-> payloadId, published |-> now, quality |-> q, label |-> l]
MCClaimed == [s \in Source |->
  IF s = s1 THEN Says("accept", "upstream")
  ELSE IF s = bad THEN Says("reject", "platform")
  ELSE Undecodable]

Obs(i, s, q, l) == [id |-> i, source |-> s, dataId |-> payloadId, published |-> now,
                    quality |-> q, label |-> l]
MCRequest == { [kind |-> "record", body |-> s1],
               [kind |-> "record", body |-> bad],
               [kind |-> "put", body |-> s1, digest |-> s1],
               [kind |-> "put", body |-> s1, digest |-> bad],
               [kind |-> "observation", observation |-> Obs(id1, garbled, "quarantine", "upstream")],
               [kind |-> "observation", observation |-> Obs(<<s1>>, s1, "accept", "upstream")],
               [kind |-> "observation", observation |-> Obs(<<garbled>>, s1, "accept", "platform")],
               [kind |-> "observation", observation |-> Obs(id1, s1, "reject", "platform")] }

Note(f, g, k, c, t) == [wellFormed |-> f, cache |-> g, link |-> k, claim |-> c,
                        dataId |-> dataId, pubtime |-> t]
MCNotification == { Note(TRUE, centre1, link1, s1, now),
                    Note(TRUE, None, link2, None, now),
                    Note(FALSE, None, link1, None, later) }
MCTopic == { [channel |-> "cache", centre |-> centre1],
             [channel |-> "cache", centre |-> centre2],
             [channel |-> "origin", centre |-> centre1],
             [channel |-> "invalid", centre |-> centre1] }
MCServed == [k \in Link |-> IF k = link1 THEN {s1, bad} ELSE Source]
=============================================================================
