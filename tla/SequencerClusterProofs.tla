----------------------- MODULE SequencerClusterProofs -----------------------
(***************************************************************************)
(* The state of a sequencer cluster keeps its shape, and a block is        *)
(* committed and sent out only by a server whose sequencer runs: for any   *)
(* number of servers, any tree of blocks and any number of elections,      *)
(* failures and restarts.                                                  *)
(*                                                                         *)
(* The sequencer does not look at active when one of its events comes, so  *)
(* a stop in the middle of a job must not be followed by the commit of the *)
(* job's block.  The argument is about the event queue: it holds at most   *)
(* one event of a building job, and a sequencer that was stopped has no    *)
(* job in hand while it holds one.  A job that is started all the same     *)
(* stays in hand and is never sealed, because nothing is due.              *)
(***************************************************************************)
EXTENDS SequencerCluster, TLAPS

-----------------------------------------------------------------------------
(* The invariant *)

\* In this cluster every label of a controller is known.
KnownController ==
  [ unsafe : L2Block, pending : L2Block, localSafe : L2Block, safe : L2Block,
    finalized : L2Block, needFCU : BOOLEAN ]

ConductorState ==
  [ leader : BOOLEAN, health : Health, active : BOOLEAN, prev : Status,
    status : Status, queued : BOOLEAN, pc : Place, failed : BOOLEAN, cons : L2Ref ]

RaftState ==
  [ leader : Server, belief : SUBSET Server, log : SUBSET L2Block, head : L2Block,
    news : [Server -> {"none", "leader", "follower"}] ]

\* The events of a building job, up to the publication of its block, and the others.
OwnedTypes == {"BuildStarted", "BuildSeal", "BuildSealed", "Committed"}
JobTypes == {"SequencerAction", "BuildStart"} \cup OwnedTypes

PlainMsg ==
  [t : {"EngineTemporaryError", "UnsafeUpdate", "Reset", "CriticalError"}]
  \cup [t : {"PayloadInvalid", "PayloadSealFailed", "PayloadProcess", "PayloadSuccess"},
        ref : L2Block]
  \cup [t : {"ForkchoiceUpdate"}, unsafe : L2Block, safe : L2Block, finalized : L2Block]

JobMsg(s) ==
  [t : {"SequencerAction"}] \cup [t : {"BuildStart"}, ref : L2Block]
  \cup [t : OwnedTypes, ref : {b \in L2Block : Builder[b] = s}]

Msg(s) == PlainMsg \cup JobMsg(s)

IsJob(m) == m.t \in JobTypes

HasJob(q) == \E i \in DOMAIN q : IsJob(q[i])

OneJob(q) == \A i, j \in DOMAIN q : IsJob(q[i]) /\ IsJob(q[j]) => i = j

\* A commit in progress holds the sequencer's lock: nothing is handled before it.
CommitFirst(q) == \A i \in DOMAIN q : q[i].t = "Committed" => i = 1

QueueOK(q, s) == q \in Seq(Msg(s)) /\ OneJob(q) /\ CommitFirst(q)

\* What the sequencer q of server s has in hand.
SequencerOK(q, s) ==
  /\ q \in SequencerState
  /\ q.due => q.active
  /\ q.latest.info # NoBlock => Builder[q.latest.info] = s

\* The sequencer, and the events that wait for it.
JobOK(queue, q) ==
  /\ HasJob(queue) /\ ~q.active => q.latest.info = NoBlock
  /\ queue # <<>> /\ Head(queue).t = "Committed" => q.active

NodeOK(n, s) ==
  /\ n \in [eng : KnownController, el : Engine, payloads : SUBSET L2Block, queue : Seq(Msg(s))]
  /\ QueueOK(n.queue, s)

ConductorOK(c) ==
  /\ c \in ConductorState
  /\ c.cons # NoBlock <=> c.pc \in {"compare", "post", "leading", "start"}

ServerOK(n, q, c, s) ==
  /\ NodeOK(n, s) /\ SequencerOK(q, s) /\ JobOK(n.queue, q) /\ ConductorOK(c)
  /\ c.pc = "stopWait" => q.active

IInv ==
  /\ DOMAIN node = Server /\ DOMAIN seq = Server /\ DOMAIN con = Server
  /\ \A s \in Server : ServerOK(node[s], seq[s], con[s], s)
  /\ raft \in RaftState
  /\ published \subseteq L2Block
  /\ budget \in Scenario

-----------------------------------------------------------------------------
(* The event queue *)

LEMMA MessageKinds ==
  ASSUME NEW s \in Server
  PROVE  /\ \A m \in PlainMsg : ~IsJob(m) /\ m.t # "Committed"
         /\ \A m \in JobMsg(s) : IsJob(m)
         /\ \A m \in Msg(s) : IsJob(m) => m \in JobMsg(s)
<1>1. \A m \in PlainMsg : ~IsJob(m) /\ m.t # "Committed"
  BY DEF PlainMsg, IsJob, JobTypes, OwnedTypes
<1>2. \A m \in JobMsg(s) : IsJob(m)
  BY DEF JobMsg, IsJob, JobTypes, OwnedTypes
<1> QED  BY <1>1, <1>2 DEF Msg

\* What the first event carries.
LEMMA HeadCarries ==
  ASSUME NEW s \in Server, NEW q, QueueOK(q, s), q # <<>>
  PROVE  /\ Head(q) \in Msg(s)
         /\ Head(q).t \in {"BuildStart", "PayloadSealFailed", "PayloadProcess",
                           "PayloadSuccess"} => Head(q).ref \in L2Block
         /\ Head(q).t \in OwnedTypes => Head(q).ref \in L2Block /\ Builder[Head(q).ref] = s
         /\ Head(q).t = "ForkchoiceUpdate" =>
              Head(q).unsafe \in L2Block /\ Head(q).safe \in L2Block
<1>1. Head(q) \in Msg(s)  BY DEF QueueOK
<1> DEFINE m == Head(q)
<1> HIDE DEF m
<1>2. m \in Msg(s)  BY <1>1 DEF m
<1>3. m.t \in {"BuildStart", "PayloadSealFailed", "PayloadProcess", "PayloadSuccess"}
        => m.ref \in L2Block
  BY <1>2 DEF Msg, PlainMsg, JobMsg, OwnedTypes
<1>4. m.t \in OwnedTypes => m.ref \in L2Block /\ Builder[m.ref] = s
  BY <1>2 DEF Msg, PlainMsg, JobMsg, OwnedTypes
<1>5. m.t = "ForkchoiceUpdate" => m.unsafe \in L2Block /\ m.safe \in L2Block
  BY <1>2 DEF Msg, PlainMsg, JobMsg, OwnedTypes
<1> QED  BY <1>1, <1>3, <1>4, <1>5 DEF m

\* The first event is taken from the queue.
LEMMA Taken ==
  ASSUME NEW s \in Server, NEW q, QueueOK(q, s), q # <<>>
  PROVE  /\ QueueOK(Tail(q), s)
         /\ HasJob(Tail(q)) => HasJob(q)
         /\ IsJob(Head(q)) => ~HasJob(Tail(q)) /\ HasJob(q)
         /\ \A i \in DOMAIN Tail(q) : Tail(q)[i].t # "Committed"
<1> DEFINE r == Tail(q)
<1>1. /\ q \in Seq(Msg(s)) /\ Len(q) \in Nat \ {0} /\ DOMAIN q = 1 .. Len(q)
      /\ Head(q) = q[1]
  BY DEF QueueOK
<1>2. r \in Seq(Msg(s)) /\ DOMAIN r = 1 .. Len(q) - 1
  BY <1>1
<1>3. \A i \in DOMAIN r : i + 1 \in DOMAIN q /\ r[i] = q[i + 1] /\ i + 1 # 1
  BY <1>1, <1>2
<1> HIDE DEF r
<1>4. OneJob(r)
  <2> SUFFICES ASSUME NEW i \in DOMAIN r, NEW j \in DOMAIN r, IsJob(r[i]), IsJob(r[j])
               PROVE  i = j
    BY DEF OneJob
  <2>1. i + 1 = j + 1  BY <1>3 DEF QueueOK, OneJob
  <2> QED  BY <2>1, <1>1, <1>2
<1>5. \A i \in DOMAIN r : r[i].t # "Committed"
  BY <1>3 DEF QueueOK, CommitFirst
<1>6. HasJob(r) => HasJob(q)
  BY <1>3 DEF HasJob
<1>7. IsJob(Head(q)) => ~HasJob(r) /\ HasJob(q)
  <2> SUFFICES ASSUME IsJob(Head(q)) PROVE ~HasJob(r) /\ HasJob(q)  OBVIOUS
  <2>1. 1 \in DOMAIN q /\ IsJob(q[1])  BY <1>1
  <2> QED  BY <2>1, <1>3 DEF HasJob, QueueOK, OneJob
<1> QED  BY <1>2, <1>4, <1>5, <1>6, <1>7 DEF r, QueueOK, CommitFirst

\* Events are put at its end.
LEMMA Added ==
  ASSUME NEW s \in Server, NEW q, QueueOK(q, s), NEW e \in Seq(Msg(s)),
         OneJob(e), ~HasJob(q) \/ ~HasJob(e), \A i \in DOMAIN e : e[i].t # "Committed"
  PROVE  /\ QueueOK(q \o e, s)
         /\ HasJob(q \o e) => HasJob(q) \/ HasJob(e)
         /\ q \o e # <<>> /\ Head(q \o e).t = "Committed" =>
              q # <<>> /\ Head(q \o e) = Head(q)
<1> DEFINE r == q \o e
<1>1. /\ q \in Seq(Msg(s)) /\ Len(q) \in Nat /\ DOMAIN q = 1 .. Len(q)
      /\ Len(e) \in Nat /\ DOMAIN e = 1 .. Len(e)
  BY DEF QueueOK
<1>2. r \in Seq(Msg(s)) /\ DOMAIN r = 1 .. Len(q) + Len(e) /\ Len(r) = Len(q) + Len(e)
  BY <1>1
<1>3. \A i \in DOMAIN r : \/ i \in DOMAIN q /\ r[i] = q[i]
                          \/ i - Len(q) \in DOMAIN e /\ r[i] = e[i - Len(q)] /\ i > Len(q)
  BY <1>1, <1>2
<1>h. r # <<>> => Head(r) = r[1] /\ 1 \in DOMAIN r
  BY <1>2, <1>1
<1>q. q # <<>> => Head(q) = q[1]
  BY <1>1
<1> HIDE DEF r
<1>4. \A i \in DOMAIN r : IsJob(r[i]) =>
        \/ HasJob(q) /\ i \in DOMAIN q /\ r[i] = q[i]
        \/ HasJob(e) /\ i - Len(q) \in DOMAIN e /\ r[i] = e[i - Len(q)]
  BY <1>3 DEF HasJob
<1>5. OneJob(r)
  <2> SUFFICES ASSUME NEW i \in DOMAIN r, NEW j \in DOMAIN r, IsJob(r[i]), IsJob(r[j])
               PROVE  i = j
    BY DEF OneJob
  <2>1. i \in Nat /\ j \in Nat  BY <1>2, <1>1
  <2>2. CASE HasJob(q)
    BY <2>2, <1>4 DEF QueueOK, OneJob
  <2>3. CASE ~HasJob(q)
    <3>1. i - Len(q) = j - Len(q)  BY <2>3, <1>4 DEF OneJob
    <3> QED  BY <3>1, <2>1, <1>1
  <2> QED  BY <2>2, <2>3
<1>6. CommitFirst(r)
  BY <1>3 DEF CommitFirst, QueueOK
<1>7. HasJob(r) => HasJob(q) \/ HasJob(e)
  BY <1>4 DEF HasJob
<1>8. r # <<>> /\ Head(r).t = "Committed" => q # <<>> /\ Head(r) = Head(q)
  <2> SUFFICES ASSUME r # <<>>, Head(r).t = "Committed"
               PROVE  q # <<>> /\ Head(r) = Head(q)
    OBVIOUS
  <2>1. 1 \in DOMAIN q /\ r[1] = q[1]  BY <1>3, <1>h
  <2> QED  BY <2>1, <1>h, <1>q, <1>1
<1> QED  BY <1>2, <1>5, <1>6, <1>7, <1>8 DEF r, QueueOK

\* The usual ways of adding: events that belong to no job, or one of a job.
LEMMA AddedPlain ==
  ASSUME NEW s \in Server, NEW q, QueueOK(q, s), NEW e \in Seq(PlainMsg)
  PROVE  /\ QueueOK(q \o e, s)
         /\ HasJob(q \o e) => HasJob(q)
         /\ q \o e # <<>> /\ Head(q \o e).t = "Committed" =>
              q # <<>> /\ Head(q \o e) = Head(q)
<1>1. e \in Seq(Msg(s)) /\ \A i \in DOMAIN e : e[i] \in PlainMsg
  BY DEF Msg
<1>2. \A i \in DOMAIN e : ~IsJob(e[i]) /\ e[i].t # "Committed"
  BY <1>1, MessageKinds
<1>3. OneJob(e) /\ ~HasJob(e)
  BY <1>2 DEF OneJob, HasJob
<1> QED  BY <1>1, <1>2, <1>3, Added

LEMMA AddedJob ==
  ASSUME NEW s \in Server, NEW q, QueueOK(q, s), ~HasJob(q),
         NEW m \in JobMsg(s), m.t # "Committed"
  PROVE  /\ QueueOK(q \o <<m>>, s)
         /\ q \o <<m>> # <<>> /\ Head(q \o <<m>>).t = "Committed" =>
              q # <<>> /\ Head(q \o <<m>>) = Head(q)
<1> DEFINE e == <<m>>
<1>1. e \in Seq(Msg(s)) /\ DOMAIN e = {1} /\ e[1] = m
  BY DEF Msg
<1> HIDE DEF e
<1>2. OneJob(e) /\ \A i \in DOMAIN e : e[i].t # "Committed"
  BY <1>1 DEF OneJob
<1>3. /\ QueueOK(q \o e, s)
      /\ q \o e # <<>> /\ Head(q \o e).t = "Committed" =>
           q # <<>> /\ Head(q \o e) = Head(q)
  BY <1>1, <1>2, Added
<1> QED  BY <1>3 DEF e

LEMMA AddedPlainAndJob ==
  ASSUME NEW s \in Server, NEW q, QueueOK(q, s), ~HasJob(q),
         NEW p \in PlainMsg, NEW m \in JobMsg(s), m.t # "Committed"
  PROVE  /\ QueueOK(q \o <<p, m>>, s)
         /\ q \o <<p, m>> # <<>> /\ Head(q \o <<p, m>>).t = "Committed" =>
              q # <<>> /\ Head(q \o <<p, m>>) = Head(q)
<1> DEFINE e == <<p, m>>
<1>1. e \in Seq(Msg(s)) /\ DOMAIN e = {1, 2} /\ e[1] = p /\ e[2] = m
  BY DEF Msg
<1> HIDE DEF e
<1>2. ~IsJob(p) /\ p.t # "Committed"  BY MessageKinds
<1>3. OneJob(e) /\ \A i \in DOMAIN e : e[i].t # "Committed"
  BY <1>1, <1>2 DEF OneJob
<1>4. /\ QueueOK(q \o e, s)
      /\ q \o e # <<>> /\ Head(q \o e).t = "Committed" =>
           q # <<>> /\ Head(q \o e) = Head(q)
  BY <1>1, <1>3, Added
<1> QED  BY <1>4 DEF e

\* A commit takes the place of the sealed block.
LEMMA CommitStarted ==
  ASSUME NEW s \in Server, NEW q, QueueOK(q, s), q # <<>>, IsJob(Head(q)),
         NEW m \in JobMsg(s)
  PROVE  QueueOK(<<m>> \o Tail(q), s)
<1> DEFINE t == Tail(q)
           r == <<m>> \o t
<1>1. QueueOK(t, s) /\ ~HasJob(t) /\ \A i \in DOMAIN t : t[i].t # "Committed"
  BY Taken
<1> HIDE DEF t
<1>2. t \in Seq(Msg(s)) /\ Len(t) \in Nat /\ DOMAIN t = 1 .. Len(t) /\ m \in Msg(s)
  BY <1>1 DEF QueueOK, Msg
<1>3. r \in Seq(Msg(s)) /\ DOMAIN r = 1 .. Len(t) + 1
  BY <1>2
<1>4. \A i \in DOMAIN r : i = 1 \/ (i - 1 \in DOMAIN t /\ r[i] = t[i - 1])
  BY <1>2, <1>3
<1> HIDE DEF r
<1>5. \A i \in DOMAIN r : IsJob(r[i]) => i = 1
  BY <1>4, <1>1 DEF HasJob
<1>6. \A i \in DOMAIN r : r[i].t = "Committed" => i = 1
  BY <1>4, <1>1
<1> QED  BY <1>3, <1>5, <1>6 DEF QueueOK, OneJob, CommitFirst, r, t

-----------------------------------------------------------------------------
(* The engine controller *)

LEMMA ForkchoiceType ==
  ASSUME NEW el \in Engine, NEW h \in L2Block, NEW sf \in L2Block, NEW f \in L2Block
  PROVE  Forkchoice(el, h, sf, f).el \in Engine
BY DEF Forkchoice, Engine

LEMMA PlainMessages ==
  ASSUME NEW b \in L2Block, NEW e \in KnownController
  PROVE  /\ Signal("EngineTemporaryError") \in PlainMsg /\ Signal("UnsafeUpdate") \in PlainMsg
         /\ Signal("Reset") \in PlainMsg /\ Signal("CriticalError") \in PlainMsg
         /\ Event("PayloadSealFailed", b) \in PlainMsg /\ Event("PayloadProcess", b) \in PlainMsg
         /\ Event("PayloadSuccess", b) \in PlainMsg
         /\ [t |-> "PayloadInvalid", ref |-> b] \in PlainMsg
         /\ ForkchoiceUpdate(b, e.safe, e.finalized) \in PlainMsg
         /\ RequestForkchoiceUpdate(e) \in PlainMsg
<1>1. /\ Signal("EngineTemporaryError") \in PlainMsg /\ Signal("UnsafeUpdate") \in PlainMsg
      /\ Signal("Reset") \in PlainMsg /\ Signal("CriticalError") \in PlainMsg
  BY DEF Signal, PlainMsg
<1>2. /\ Event("PayloadSealFailed", b) \in PlainMsg /\ Event("PayloadProcess", b) \in PlainMsg
      /\ Event("PayloadSuccess", b) \in PlainMsg
      /\ [t |-> "PayloadInvalid", ref |-> b] \in PlainMsg
  BY DEF Event, PlainMsg
<1>3. e.unsafe \in L2Block /\ e.safe \in L2Block /\ e.finalized \in L2Block
  BY DEF KnownController
<1>4. /\ ForkchoiceUpdate(b, e.safe, e.finalized) \in PlainMsg
      /\ RequestForkchoiceUpdate(e) \in PlainMsg
  BY <1>3 DEF ForkchoiceUpdate, RequestForkchoiceUpdate, PlainMsg
<1> QED  BY <1>1, <1>2, <1>4

LEMMA UnknownsKnown ==
  ASSUME NEW e \in KnownController, NEW el
  PROVE  InitializeUnknowns(e, el) = e
<1>1. \A b \in L2Block : b # NoBlock  BY ChainsAssumption
<1>2. /\ e.unsafe \in L2Block /\ e.safe \in L2Block /\ e.finalized \in L2Block
      /\ e.localSafe \in L2Block
  BY DEF KnownController
<1>3. /\ Known(e.unsafe, el.head) = e.unsafe /\ Known(e.safe, el.safe) = e.safe
      /\ Known(e.finalized, el.finalized) = e.finalized
      /\ Known(e.localSafe, e.safe) = e.localSafe
  BY <1>1, <1>2 DEF Known
<1> QED  BY <1>3 DEF InitializeUnknowns, KnownController

\* tryUpdateEngineInternal knows every label, and emits nothing of a job.
LEMMA UpdateEngineInternalType ==
  ASSUME NEW e \in KnownController, NEW el \in Engine, NEW up \in BOOLEAN
  PROVE  LET r == TryUpdateEngineInternal(e, el, up)
         IN  /\ r.eng \in KnownController /\ r.el \in Engine /\ r.evs \in Seq(PlainMsg)
             /\ r.eng = e \/ r.eng = [e EXCEPT !.needFCU = FALSE]
<1> DEFINE fcu == Forkchoice(el, e.unsafe, e.safe, e.finalized)
           fails(err) == [eng |-> e, el |-> el, evs |-> <<>>, err |-> err]
           e1 == [e EXCEPT !.needFCU = FALSE]
           q == RequestForkchoiceUpdate(e)
           r == TryUpdateEngineInternal(e, el, up)
<1>1. /\ e.unsafe \in L2Block /\ e.safe \in L2Block /\ e.finalized \in L2Block
      /\ e1 \in KnownController
  BY DEF KnownController
<1>2. fcu.el \in Engine
  BY <1>1, ForkchoiceType
<1>3. q \in PlainMsg /\ Signal("CriticalError") \in PlainMsg
  BY <1>1, PlainMessages
<1>4. << >> \in Seq(PlainMsg) /\ <<q>> \in Seq(PlainMsg)
      /\ <<Signal("CriticalError")>> \in Seq(PlainMsg)
  BY <1>3
<1>5. InitializeUnknowns(e, el) = e
  BY UnknownsKnown
<1>6. r = IF ~e.needFCU THEN [fails("none") EXCEPT !.eng = e]
          ELSE IF ~up THEN [fails("temporary") EXCEPT !.eng = e]
          ELSE IF Number[e.unsafe] < Number[e.finalized]
            THEN [fails("critical") EXCEPT !.evs = <<Signal("CriticalError")>>]
          ELSE IF ~fcu.valid THEN [fails("reset") EXCEPT !.el = fcu.el]
          ELSE [eng |-> e1, el |-> fcu.el, evs |-> <<q>>, err |-> "none"]
  BY <1>5 DEF TryUpdateEngineInternal
<1> HIDE DEF fcu, q, r, e1
<1>7. /\ r.eng \in {e, e1} /\ r.el \in {el, fcu.el}
      /\ r.evs \in {<< >>, <<q>>, <<Signal("CriticalError")>>}
  BY <1>6
<1>8. r.eng \in KnownController /\ r.el \in Engine /\ r.evs \in Seq(PlainMsg)
  BY <1>7, <1>1, <1>2, <1>4
<1> QED  BY <1>7, <1>8 DEF r, e1

LEMMA ErrorEventsType ==
  ASSUME NEW err
  PROVE  ErrorEvents(err) \in Seq(PlainMsg)
<1>1. /\ Signal("Reset") \in PlainMsg /\ Signal("EngineTemporaryError") \in PlainMsg
      /\ Signal("CriticalError") \in PlainMsg
  BY DEF Signal, PlainMsg
<1>2. /\ <<Signal("Reset")>> \in Seq(PlainMsg) /\ << >> \in Seq(PlainMsg)
      /\ <<Signal("EngineTemporaryError")>> \in Seq(PlainMsg)
      /\ <<Signal("CriticalError")>> \in Seq(PlainMsg)
  BY <1>1
<1>3. ErrorEvents(err) \in {<<Signal("Reset")>>, <<Signal("EngineTemporaryError")>>,
                            <<Signal("CriticalError")>>, << >>}
  BY DEF ErrorEvents
<1> QED  BY <1>2, <1>3

LEMMA UpdateEngineType ==
  ASSUME NEW e \in KnownController, NEW el \in Engine, NEW up \in BOOLEAN
  PROVE  LET r == TryUpdateEngine(e, el, up)
         IN  r.eng \in KnownController /\ r.el \in Engine /\ r.evs \in Seq(PlainMsg)
<1> DEFINE r == TryUpdateEngineInternal(e, el, up)
<1>1. r.eng \in KnownController /\ r.el \in Engine /\ r.evs \in Seq(PlainMsg)
  BY UpdateEngineInternalType
<1>2. ErrorEvents(r.err) \in Seq(PlainMsg)
  BY ErrorEventsType
<1> HIDE DEF r
<1>3. r.evs \o ErrorEvents(r.err) \in Seq(PlainMsg)
  BY <1>1, <1>2
<1> QED  BY <1>1, <1>3 DEF TryUpdateEngine, r

LEMMA InsertPayloadType ==
  ASSUME NEW e \in KnownController, NEW el \in Engine, NEW p \in L2Block, NEW up \in BOOLEAN
  PROVE  LET r == InsertUnsafePayload(e, el, p, up)
         IN  r.eng \in KnownController /\ r.el \in Engine /\ r.evs \in Seq(PlainMsg)
<1> DEFINE fcu == Forkchoice(el, p, e.safe, e.finalized)
           e1 == [e EXCEPT !.unsafe = p, !.needFCU = FALSE]
           error == Signal("EngineTemporaryError")
           inval == [t |-> "PayloadInvalid", ref |-> p]
           q == RequestForkchoiceUpdate(e1)
           r == InsertUnsafePayload(e, el, p, up)
<1>1. e.safe \in L2Block /\ e.finalized \in L2Block /\ e1 \in KnownController
  BY DEF KnownController
<1>2. fcu.el \in Engine
  BY <1>1, ForkchoiceType
<1>3. /\ error \in PlainMsg /\ inval \in PlainMsg /\ q \in PlainMsg
      /\ Signal("Reset") \in PlainMsg /\ Signal("UnsafeUpdate") \in PlainMsg
  BY <1>1, PlainMessages
<1>4. r = IF ~up THEN [eng |-> e, el |-> el, evs |-> <<error>>]
          ELSE IF p \in Invalid THEN [eng |-> e, el |-> el, evs |-> <<inval, error>>]
          ELSE IF ~fcu.valid THEN [eng |-> e, el |-> fcu.el, evs |-> <<Signal("Reset")>>]
          ELSE [eng |-> e1, el |-> fcu.el, evs |-> <<Signal("UnsafeUpdate"), q>>]
  BY DEF InsertUnsafePayload
<1> HIDE DEF fcu, e1, error, inval, q, r
<1>5. /\ <<error>> \in Seq(PlainMsg) /\ <<inval, error>> \in Seq(PlainMsg)
      /\ <<Signal("Reset")>> \in Seq(PlainMsg)
      /\ <<Signal("UnsafeUpdate"), q>> \in Seq(PlainMsg)
  BY <1>3
<1>6. /\ r.eng \in {e, e1} /\ r.el \in {el, fcu.el}
      /\ r.evs \in {<<error>>, <<inval, error>>, <<Signal("Reset")>>,
                    <<Signal("UnsafeUpdate"), q>>}
  BY <1>4
<1>7. r.eng \in KnownController /\ r.el \in Engine /\ r.evs \in Seq(PlainMsg)
  BY <1>6, <1>1, <1>2, <1>5
<1> QED  BY <1>7 DEF r

-----------------------------------------------------------------------------
(* The sequencer *)

\* A handler that neither starts nor stops the sequencer, nor gives it a job.
Tame(q, r) == r.active = q.active /\ r.latest.info \in {q.latest.info, NoBlock}

LEMMA NoBuildType == NoBuild \in BuildingState /\ NoBuild.info = NoBlock
BY DEF NoBuild, BuildingState, L2Ref

LEMMA HandleInvalidTame ==
  ASSUME NEW s \in Server, NEW q, SequencerOK(q, s)
  PROVE  SequencerOK(HandleInvalid(q), s) /\ Tame(q, HandleInvalid(q))
<1>1. q \in SequencerState /\ NoBlock \in L2Ref  BY DEF SequencerOK, L2Ref
<1>2. /\ HandleInvalid(q) \in SequencerState
      /\ HandleInvalid(q).due = q.active /\ HandleInvalid(q).active = q.active
      /\ HandleInvalid(q).latest = NoBuild
  BY <1>1, NoBuildType DEF HandleInvalid, SequencerState
<1> QED  BY <1>2, NoBuildType DEF SequencerOK, Tame

LEMMA HandlersTame ==
  ASSUME NEW s \in Server, NEW q, SequencerOK(q, s), NEW b \in L2Block, NEW up \in BOOLEAN
  PROVE  /\ SequencerOK(OnPayloadSealFailed(q, b), s) /\ Tame(q, OnPayloadSealFailed(q, b))
         /\ SequencerOK(OnPayloadSuccess(q, b), s) /\ Tame(q, OnPayloadSuccess(q, b))
         /\ SequencerOK(OnEngineTemporaryError(q), s) /\ Tame(q, OnEngineTemporaryError(q))
         /\ SequencerOK(OnForkchoiceUpdate(q, b), s) /\ Tame(q, OnForkchoiceUpdate(q, b))
         /\ SequencerOK(OnBuildSealed(q, b), s) /\ Tame(q, OnBuildSealed(q, b))
         /\ SequencerOK(OnGossiped(q, up), s) /\ Tame(q, OnGossiped(q, up))
<1>1. /\ q \in SequencerState /\ NoBlock \in L2Ref /\ b \in L2Ref
      /\ q.latest \in BuildingState /\ q.active \in BOOLEAN
  BY DEF SequencerOK, L2Ref, SequencerState
<1>2. SequencerOK(OnPayloadSealFailed(q, b), s) /\ Tame(q, OnPayloadSealFailed(q, b))
  BY HandleInvalidTame DEF OnPayloadSealFailed, Tame
<1>3. SequencerOK(OnPayloadSuccess(q, b), s) /\ Tame(q, OnPayloadSuccess(q, b))
  BY <1>1, NoBuildType DEF OnPayloadSuccess, Tame, SequencerOK, SequencerState
<1>4. SequencerOK(OnEngineTemporaryError(q), s) /\ Tame(q, OnEngineTemporaryError(q))
  BY <1>1, NoBuildType DEF OnEngineTemporaryError, Tame, SequencerOK, SequencerState
<1>5. SequencerOK(OnForkchoiceUpdate(q, b), s) /\ Tame(q, OnForkchoiceUpdate(q, b))
  <2> DEFINE r == OnForkchoiceUpdate(q, b)
  <2>1. CASE ~q.active
    BY <2>1, <1>1 DEF OnForkchoiceUpdate, Tame, SequencerOK, SequencerState
  <2>2. CASE q.active
    <3> DEFINE due == q.due \/ Number[b] > Number[q.head]
               latest == IF q.latest # NoBuild /\ Number[q.latest.onto] < Number[b]
                           THEN NoBuild ELSE q.latest
    <3>1. due \in BOOLEAN /\ latest \in BuildingState /\ latest \in {NoBuild, q.latest}
      BY <1>1, NoBuildType
    <3>2. r = [q EXCEPT !.head = b, !.latest = latest, !.due = due]
      BY <2>2 DEF OnForkchoiceUpdate
    <3> HIDE DEF due, latest, r
    <3>3. /\ r \in SequencerState /\ r.active = q.active /\ r.latest = latest
      BY <3>1, <3>2, <1>1 DEF SequencerState
    <3> QED  BY <3>1, <3>3, <2>2, NoBuildType DEF r, Tame, SequencerOK
  <2> QED  BY <2>1, <2>2, <1>1
<1>6. SequencerOK(OnBuildSealed(q, b), s) /\ Tame(q, OnBuildSealed(q, b))
  BY <1>1 DEF OnBuildSealed, Tame, SequencerOK, SequencerState, BuildingState
<1>7. SequencerOK(OnGossiped(q, up), s) /\ Tame(q, OnGossiped(q, up))
  BY <1>1 DEF OnGossiped, Tame, SequencerOK, SequencerState
<1> QED  BY <1>2, <1>3, <1>4, <1>5, <1>6, <1>7

\* What onSequencerAction emits: at most one event, and it seals the job in hand.
LEMMA SequencerActionTame ==
  ASSUME NEW s \in Server, NEW q, SequencerOK(q, s), NEW e \in KnownController,
         NEW up \in BOOLEAN
  PROVE  LET r == OnSequencerAction(q, e, up)
         IN  /\ SequencerOK(r.seq, s) /\ Tame(q, r.seq)
             /\ \/ r.evs \in Seq(PlainMsg)
                \/ /\ \E m \in JobMsg(s) : m.t # "Committed" /\ r.evs = <<m>>
                   /\ r.seq.latest.info = NoBlock \/ r.seq.latest.info = q.latest.info
<1> DEFINE r == OnSequencerAction(q, e, up)
           Goal(x) ==
             /\ SequencerOK(x.seq, s) /\ Tame(q, x.seq)
             /\ \/ x.evs \in Seq(PlainMsg)
                \/ /\ \E m \in JobMsg(s) : m.t # "Committed" /\ x.evs = <<m>>
                   /\ x.seq.latest.info = NoBlock \/ x.seq.latest.info = q.latest.info
<1> SUFFICES Goal(r)  OBVIOUS
<1> HIDE DEF r
<1>1. /\ q \in SequencerState /\ NoBlock \in L2Ref
      /\ q.latest \in BuildingState /\ q.active \in BOOLEAN
      /\ q.latest.info \in L2Block \cup {NoBlock} /\ q.buffer \in L2Block \cup {NoBlock}
      /\ q.head \in L2Block \cup {NoBlock}
  BY DEF SequencerOK, L2Ref, SequencerState, BuildingState
<1>2. CASE q.buffer # NoBlock
  <2>1. r = [seq |-> [q EXCEPT !.latest.ref = q.buffer],
             evs |-> <<Event("PayloadProcess", q.buffer)>>]
    BY <1>2 DEF OnSequencerAction, r
  <2>2. Event("PayloadProcess", q.buffer) \in PlainMsg
    BY <1>1, <1>2, PlainMessages
  <2>3. SequencerOK(r.seq, s) /\ Tame(q, r.seq)
    BY <2>1, <1>1 DEF Tame, SequencerOK, SequencerState, BuildingState
  <2> QED  BY <2>1, <2>2, <2>3
<1>3. CASE q.buffer = NoBlock /\ q.latest.info # NoBlock
  <2>1. r = [seq |-> [q EXCEPT !.due = FALSE], evs |-> <<Event("BuildSeal", q.latest.info)>>]
    BY <1>3 DEF OnSequencerAction, r
  <2>2. Event("BuildSeal", q.latest.info) \in JobMsg(s)
        /\ Event("BuildSeal", q.latest.info).t # "Committed"
    BY <1>1, <1>3 DEF SequencerOK, Event, JobMsg, OwnedTypes
  <2>3. /\ r.seq \in SequencerState /\ r.seq.active = q.active /\ ~r.seq.due
        /\ r.seq.latest = q.latest
    BY <2>1, <1>1 DEF SequencerState
  <2>4. SequencerOK(r.seq, s) /\ Tame(q, r.seq) /\ r.seq.latest.info = q.latest.info
    BY <2>3 DEF Tame, SequencerOK
  <2> QED  BY <2>1, <2>2, <2>4
<1>4. CASE q.buffer = NoBlock /\ q.latest.info = NoBlock /\ q.latest = NoBuild
  <2>1. r = StartBuildingBlock(q, e, up)
    BY <1>4 DEF OnSequencerAction, r
  <2>2. CASE q.head = NoBlock
    <3>1. r = [seq |-> q, evs |-> <<RequestForkchoiceUpdate(e)>>]
      BY <2>1, <2>2 DEF StartBuildingBlock
    <3>2. RequestForkchoiceUpdate(e) \in PlainMsg
      BY DEF RequestForkchoiceUpdate, ForkchoiceUpdate, PlainMsg, KnownController
    <3> QED  BY <3>1, <3>2 DEF Tame
  <2>3. CASE q.head # NoBlock /\ ~up
    <3>1. r = [seq |-> q, evs |-> <<Signal("EngineTemporaryError")>>]
      BY <2>1, <2>3 DEF StartBuildingBlock
    <3>2. Signal("EngineTemporaryError") \in PlainMsg  BY DEF Signal, PlainMsg
    <3> QED  BY <3>1, <3>2 DEF Tame
  <2>4. CASE q.head # NoBlock /\ up
    <3> DEFINE q1 == [q EXCEPT !.due = FALSE, !.latest = [NoBuild EXCEPT !.onto = q.head]]
    <3>1. r = [seq |-> q1, evs |-> <<Event("BuildStart", q.head)>>]
      BY <2>1, <2>4 DEF StartBuildingBlock
    <3>2. Event("BuildStart", q.head) \in JobMsg(s)
          /\ Event("BuildStart", q.head).t # "Committed"
      BY <1>1, <2>4 DEF Event, JobMsg
    <3> HIDE DEF q1
    <3>3. q1 \in SequencerState /\ q1.active = q.active /\ ~q1.due /\ q1.latest.info = NoBlock
      BY <1>1, NoBuildType DEF q1, SequencerState, BuildingState, L2Ref
    <3>4. SequencerOK(q1, s) /\ Tame(q, q1)
      BY <3>3 DEF SequencerOK, Tame
    <3> QED  BY <3>1, <3>2, <3>3, <3>4
  <2> QED  BY <2>2, <2>3, <2>4
<1>5. CASE q.buffer = NoBlock /\ q.latest.info = NoBlock /\ q.latest # NoBuild
  <2>1. r = [seq |-> q, evs |-> <<>>]
    BY <1>5 DEF OnSequencerAction, r
  <2> QED  BY <2>1 DEF Tame
<1> QED  BY <1>2, <1>3, <1>4, <1>5

\* The calls of the conductor, and a restart, leave no job in hand.
LEMMA StartStopType ==
  ASSUME NEW s \in Server, NEW q, SequencerOK(q, s)
  PROVE  /\ SequencerOK(ForceStart(q), s) /\ ForceStart(q).active
         /\ ~q.active => ForceStart(q).latest.info = NoBlock
         /\ SequencerOK(Stop(q), s) /\ Stop(q).latest.info = NoBlock
         /\ SequencerOK(NewSequencer, s) /\ NewSequencer.latest.info = NoBlock
<1>1. q \in SequencerState /\ NoBlock \in L2Ref
  BY DEF SequencerOK, L2Ref
<1>2. /\ ForceStart(q) \in SequencerState /\ ForceStart(q).active
      /\ ForceStart(q) = q \/ (~q.active /\ ForceStart(q).latest = NoBuild)
      /\ ~q.active => ForceStart(q).latest = NoBuild
  BY <1>1, NoBuildType DEF ForceStart, SequencerState
<1>3. Stop(q) \in SequencerState /\ ~Stop(q).due /\ Stop(q).latest = NoBuild
  BY <1>1, NoBuildType DEF Stop, SequencerState
<1>4. NewSequencer \in SequencerState /\ ~NewSequencer.due /\ NewSequencer.latest = NoBuild
  BY <1>1, NoBuildType DEF NewSequencer, SequencerState
<1>5. SequencerOK(ForceStart(q), s)
  BY <1>2, NoBuildType DEF SequencerOK
<1> QED  BY <1>2, <1>3, <1>4, <1>5, NoBuildType DEF SequencerOK

\* A tame handler keeps the job and the queue in step while no event of a job is new.
LEMMA TameKeepsJob ==
  ASSUME NEW q, NEW r, NEW old, NEW new, JobOK(old, q), Tame(q, r),
         HasJob(new) => HasJob(old),
         new # <<>> /\ Head(new).t = "Committed" => old # <<>> /\ Head(new) = Head(old)
  PROVE  JobOK(new, r)
BY DEF JobOK, Tame

-----------------------------------------------------------------------------
(* The conductor *)

LEMMA FinishType ==
  ASSUME NEW c \in ConductorState
  PROVE  ConductorOK(Finish(c, NoBlock)) /\ Finish(c, NoBlock).pc = "loop"
<1>1. NoBlock \in L2Ref /\ "loop" \in Place  BY DEF L2Ref, Place
<1>2. /\ Finish(c, NoBlock) \in ConductorState /\ Finish(c, NoBlock).pc = "loop"
      /\ Finish(c, NoBlock).cons = NoBlock
  BY <1>1 DEF Finish, ConductorState
<1> QED  BY <1>2 DEF ConductorOK

LEMMA ConductorMoves ==
  ASSUME NEW c, ConductorOK(c), NEW ok \in BOOLEAN, NEW h \in Health
  PROVE  /\ ConductorOK(HandleLeaderUpdate(c, ok)) /\ HandleLeaderUpdate(c, ok).pc = c.pc
         /\ ConductorOK(HandleHealthUpdate(c, h)) /\ HandleHealthUpdate(c, h).pc = c.pc
         /\ ConductorOK(StartFailed(c, NoBlock)) /\ StartFailed(c, NoBlock).pc # "stopWait"
         /\ ConductorOK(StartSucceeded(c, NoBlock)) /\ StartSucceeded(c, NoBlock).pc # "stopWait"
         /\ ConductorOK(TransferReturned(c, ok, NoBlock))
         /\ TransferReturned(c, ok, NoBlock).pc # "stopWait"
<1>1. c \in ConductorState /\ NoBlock \in L2Ref /\ "transfer" \in Place
  BY DEF ConductorOK, L2Ref, Place
<1>2. ConductorOK(HandleLeaderUpdate(c, ok)) /\ HandleLeaderUpdate(c, ok).pc = c.pc
  BY <1>1 DEF HandleLeaderUpdate, ConductorOK, ConductorState
<1>3. ConductorOK(HandleHealthUpdate(c, h)) /\ HandleHealthUpdate(c, h).pc = c.pc
  BY <1>1 DEF HandleHealthUpdate, ConductorOK, ConductorState
<1>4. ConductorOK(StartFailed(c, NoBlock)) /\ StartFailed(c, NoBlock).pc # "stopWait"
  <2>1. [c EXCEPT !.failed = TRUE] \in ConductorState
    BY <1>1 DEF ConductorState
  <2>2. LET d == [c EXCEPT !.pc = "transfer", !.cons = NoBlock]
        IN  d \in ConductorState /\ d.pc = "transfer" /\ d.cons = NoBlock
    BY <1>1 DEF ConductorState
  <2> QED  BY <2>1, <2>2, FinishType DEF StartFailed, ConductorOK
<1>5. /\ ConductorOK(StartSucceeded(c, NoBlock))
      /\ StartSucceeded(c, NoBlock).pc # "stopWait"
  <2>1. [c EXCEPT !.active = TRUE] \in ConductorState
    BY <1>1 DEF ConductorState
  <2> QED  BY <2>1, FinishType DEF StartSucceeded
<1>6. /\ ConductorOK(TransferReturned(c, ok, NoBlock))
      /\ TransferReturned(c, ok, NoBlock).pc # "stopWait"
  <2>1. [c EXCEPT !.leader = @ /\ ~ok, !.failed = @ \/ ~ok] \in ConductorState
    BY <1>1 DEF ConductorState
  <2> QED  BY <2>1, FinishType DEF TransferReturned
<1> QED  BY <1>2, <1>3, <1>4, <1>5, <1>6

LEMMA StopReturnedType ==
  ASSUME NEW c, ConductorOK(c), c.pc \in {"stop", "stopWait"}, NEW ok \in BOOLEAN
  PROVE  /\ ConductorOK(StopReturned(c, ok, NoBlock))
         /\ StopReturned(c, ok, NoBlock).pc # "stopWait"
<1> DEFINE d == [c EXCEPT !.active = @ /\ ~ok, !.failed = ~ok]
<1>1. c \in ConductorState /\ c.cons = NoBlock /\ "transfer" \in Place
  BY DEF ConductorOK, Place
<1>2. d \in ConductorState /\ d.cons = NoBlock
  BY <1>1 DEF ConductorState
<1> HIDE DEF d
<1>3. LET f == [d EXCEPT !.pc = "transfer"]
      IN  f \in ConductorState /\ f.pc = "transfer" /\ f.cons = NoBlock
  BY <1>1, <1>2 DEF ConductorState
<1>4. StopReturned(c, ok, NoBlock) = IF d.status.leader THEN [d EXCEPT !.pc = "transfer"]
                                     ELSE Finish(d, NoBlock)
  BY DEF StopReturned, d
<1> QED  BY <1>2, <1>3, <1>4, FinishType DEF ConductorOK

\* action() starts with one of its calls, or ends.
LEMMA ActionType ==
  ASSUME NEW c, ConductorOK(c), c.pc = "loop"
  PROVE  ConductorOK(Action(c, NoBlock)) /\ Action(c, NoBlock).pc # "stopWait"
<1> DEFINE st == NewStatus(c.leader, c.health = "ok", c.active)
           d == [c EXCEPT !.queued = FALSE, !.status = st]
           at(pc) == [d EXCEPT !.pc = pc]
           f == [d EXCEPT !.failed = TRUE]
<1>1. c \in ConductorState /\ c.cons = NoBlock
  BY DEF ConductorOK
<1>2. st \in Status
  BY <1>1 DEF ConductorState, NewStatus, Status
<1> HIDE DEF st
<1>3. d \in ConductorState /\ d.cons = NoBlock /\ f \in ConductorState
  BY <1>1, <1>2 DEF ConductorState
<1> HIDE DEF d
<1>4. \A pc \in {"stop", "consensus", "transfer"} :
        at(pc) \in ConductorState /\ at(pc).cons = NoBlock /\ at(pc).pc = pc
  BY <1>3 DEF ConductorState, Place
<1>5. \/ \E pc \in {"stop", "consensus", "transfer"} : Action(c, NoBlock) = at(pc)
      \/ Action(c, NoBlock) \in {Finish(d, NoBlock), Finish(f, NoBlock)}
  BY <1>2 DEF Action, st, d, Status
<1>6. \A pc \in {"stop", "consensus", "transfer"} : ConductorOK(at(pc))
  BY <1>4 DEF ConductorOK
<1> HIDE DEF at, f
<1>7. CASE \E pc \in {"stop", "consensus", "transfer"} : Action(c, NoBlock) = at(pc)
  BY <1>7, <1>4, <1>6
<1>8. CASE Action(c, NoBlock) \in {Finish(d, NoBlock), Finish(f, NoBlock)}
  BY <1>8, <1>3, FinishType
<1> QED  BY <1>5, <1>7, <1>8

-----------------------------------------------------------------------------
(* One server takes a step, the others do not *)

OthersKept(s) ==
  /\ DOMAIN node' = Server /\ DOMAIN seq' = Server /\ DOMAIN con' = Server
  /\ \A t \in Server \ {s} : node'[t] = node[t] /\ seq'[t] = seq[t] /\ con'[t] = con[t]

LEMMA Frame ==
  ASSUME IInv, NEW s \in Server, OthersKept(s),
         NodeOK(node'[s], s), SequencerOK(seq'[s], s), JobOK(node'[s].queue, seq'[s]),
         ConductorOK(con'[s]), con'[s].pc = "stopWait" => seq'[s].active,
         raft' \in RaftState, budget' \in Scenario, published' \subseteq L2Block
  PROVE  IInv'
<1>1. ASSUME NEW t \in Server, t # s
      PROVE  ServerOK(node'[t], seq'[t], con'[t], t)
  BY <1>1 DEF IInv, OthersKept
<1>2. ServerOK(node'[s], seq'[s], con'[s], s)
  BY DEF ServerOK
<1> QED  BY <1>1, <1>2 DEF IInv, OthersKept

\* The parts of the invariant that concern one server.
LEMMA Parts ==
  ASSUME IInv, NEW s \in Server
  PROVE  /\ NodeOK(node[s], s) /\ SequencerOK(seq[s], s) /\ JobOK(node[s].queue, seq[s])
         /\ ConductorOK(con[s]) /\ (con[s].pc = "stopWait" => seq[s].active)
         /\ QueueOK(node[s].queue, s)
         /\ node[s].eng \in KnownController /\ node[s].el \in Engine
         /\ node[s].payloads \subseteq L2Block
         /\ raft \in RaftState /\ published \subseteq L2Block /\ budget \in Scenario
BY DEF IInv, ServerOK, NodeOK

LEMMA Budgets ==
  ASSUME budget \in Scenario, NEW up \in BOOLEAN, Call(up) \/ Answered(up)
  PROVE  budget' \in Scenario
BY DEF Scenario, Call, Answered

LEMMA Queues ==
  ASSUME IInv, NEW s \in Server, NEW q, QueueOK(q, s),
         node' = [node EXCEPT ![s].queue = q]
  PROVE  /\ DOMAIN node' = Server /\ \A t \in Server \ {s} : node'[t] = node[t]
         /\ node'[s].queue = q /\ NodeOK(node'[s], s)
<1>1. NodeOK(node[s], s) /\ DOMAIN node = Server
  BY DEF IInv, ServerOK
<1>2. node'[s] = [node[s] EXCEPT !.queue = q]
  BY <1>1
<1>3. node'[s].queue = q /\ NodeOK(node'[s], s)
  BY <1>1, <1>2 DEF NodeOK, QueueOK
<1> QED  BY <1>1, <1>3

LEMMA QueuesAt ==
  ASSUME IInv, NEW s \in Server, NEW e \in KnownController, NEW l \in Engine,
         NEW q, QueueOK(q, s),
         node' = [node EXCEPT ![s].eng = e, ![s].el = l, ![s].queue = q]
  PROVE  /\ DOMAIN node' = Server /\ \A t \in Server \ {s} : node'[t] = node[t]
         /\ node'[s].queue = q /\ NodeOK(node'[s], s)
<1>1. NodeOK(node[s], s) /\ DOMAIN node = Server
  BY DEF IInv, ServerOK
<1>2. node'[s] = [node[s] EXCEPT !.eng = e, !.el = l, !.queue = q]
  BY <1>1
<1>3. node'[s].queue = q /\ NodeOK(node'[s], s)
  BY <1>1, <1>2 DEF NodeOK, QueueOK
<1> QED  BY <1>1, <1>3

\* A handler that takes the first event, emits what belongs to no job, and changes the
\* sequencer tamely.
LEMMA TameStep ==
  ASSUME IInv, NEW s \in Server, node[s].queue # <<>>,
         NEW e \in KnownController, NEW l \in Engine, NEW evs \in Seq(PlainMsg),
         ProcessedAt(s, e, l, evs) \/ Processed(s, evs),
         NEW r, SequencerOK(r, s), Tame(seq[s], r),
         seq' = [seq EXCEPT ![s] = r] \/ (seq' = seq /\ r = seq[s]),
         con' = con, raft' = raft, published' = published, budget' \in Scenario
  PROVE  IInv'
<1> DEFINE q == Tail(node[s].queue) \o evs
<1>1. QueueOK(node[s].queue, s)  BY Parts
<1>2. /\ QueueOK(Tail(node[s].queue), s)
      /\ HasJob(Tail(node[s].queue)) => HasJob(node[s].queue)
      /\ \A i \in DOMAIN Tail(node[s].queue) : Tail(node[s].queue)[i].t # "Committed"
  BY <1>1, Taken
<1>3. /\ QueueOK(q, s) /\ (HasJob(q) => HasJob(node[s].queue))
      /\ q # <<>> /\ Head(q).t = "Committed" =>
           Tail(node[s].queue) # <<>> /\ Head(q) = Head(Tail(node[s].queue))
  BY <1>2, AddedPlain
<1>4. ~(q # <<>> /\ Head(q).t = "Committed")
  <2> DEFINE t == Tail(node[s].queue)
  <2>1. t \in Seq(Msg(s)) /\ (t # <<>> => 1 \in DOMAIN t /\ Head(t) = t[1])
    BY <1>2 DEF QueueOK
  <2> QED  BY <2>1, <1>2, <1>3
<1>5. /\ DOMAIN node' = Server /\ \A t \in Server \ {s} : node'[t] = node[t]
      /\ node'[s].queue = q /\ NodeOK(node'[s], s)
  <2>1. CASE ProcessedAt(s, e, l, evs)
    <3>1. node' = [node EXCEPT ![s].eng = e, ![s].el = l, ![s].queue = q]
      BY <2>1 DEF ProcessedAt
    <3> HIDE DEF q
    <3> QED  BY <3>1, <1>3, QueuesAt
  <2>2. CASE Processed(s, evs)
    <3>1. node' = [node EXCEPT ![s].queue = q]
      BY <2>2 DEF Processed
    <3> HIDE DEF q
    <3> QED  BY <3>1, <1>3, Queues
  <2> QED  BY <2>1, <2>2
<1> HIDE DEF q
<1>p. /\ JobOK(node[s].queue, seq[s]) /\ ConductorOK(con[s]) /\ raft \in RaftState
      /\ (con[s].pc = "stopWait" => seq[s].active) /\ published \subseteq L2Block
  BY Parts
<1>6. JobOK(q, r)
  BY <1>3, <1>4, <1>p, TameKeepsJob
<1>7. DOMAIN seq = Server /\ DOMAIN con = Server  BY DEF IInv
<1>8. seq'[s] = r /\ OthersKept(s)
  BY <1>5, <1>7 DEF OthersKept
<1>9. con'[s].pc = "stopWait" => seq'[s].active
  BY <1>8, <1>p DEF Tame
<1>10. JobOK(node'[s].queue, seq'[s])
  BY <1>5, <1>6, <1>8
<1> QED  BY <1>5, <1>8, <1>9, <1>10, <1>p, Frame

\* A handler that goes on with the job: it takes one event of it and emits the next.
LEMMA JobStep ==
  ASSUME IInv, NEW s \in Server, node[s].queue # <<>>, IsJob(Head(node[s].queue)),
         NEW e \in KnownController, NEW l \in Engine,
         NEW p \in PlainMsg, NEW m \in JobMsg(s), m.t # "Committed",
         NEW evs, evs = <<m>> \/ evs = <<p, m>>,
         ProcessedAt(s, e, l, evs) \/ Processed(s, evs),
         NEW r, SequencerOK(r, s), Tame(seq[s], r),
         seq' = [seq EXCEPT ![s] = r] \/ (seq' = seq /\ r = seq[s]),
         con' = con, raft' = raft, published' = published, budget' \in Scenario
  PROVE  IInv'
<1> DEFINE old == node[s].queue
           q == Tail(old) \o evs
<1>1. QueueOK(old, s)  BY Parts
<1>2. /\ QueueOK(Tail(old), s) /\ ~HasJob(Tail(old)) /\ HasJob(old)
      /\ \A i \in DOMAIN Tail(old) : Tail(old)[i].t # "Committed"
  BY <1>1, Taken
<1>3. /\ QueueOK(q, s)
      /\ q # <<>> /\ Head(q).t = "Committed" =>
           Tail(old) # <<>> /\ Head(q) = Head(Tail(old))
  <2>1. CASE evs = <<m>>
    BY <2>1, <1>2, AddedJob
  <2>2. CASE evs = <<p, m>>
    BY <2>2, <1>2, AddedPlainAndJob
  <2> QED  BY <2>1, <2>2
<1>4. ~(q # <<>> /\ Head(q).t = "Committed")
  <2> DEFINE t == Tail(old)
  <2>1. t \in Seq(Msg(s)) /\ (t # <<>> => 1 \in DOMAIN t /\ Head(t) = t[1])
    BY <1>2 DEF QueueOK
  <2> QED  BY <2>1, <1>2, <1>3
<1>5. /\ DOMAIN node' = Server /\ \A t \in Server \ {s} : node'[t] = node[t]
      /\ node'[s].queue = q /\ NodeOK(node'[s], s)
  <2>1. CASE ProcessedAt(s, e, l, evs)
    <3>1. node' = [node EXCEPT ![s].eng = e, ![s].el = l, ![s].queue = q]
      BY <2>1 DEF ProcessedAt
    <3> HIDE DEF q
    <3> QED  BY <3>1, <1>3, QueuesAt
  <2>2. CASE Processed(s, evs)
    <3>1. node' = [node EXCEPT ![s].queue = q]
      BY <2>2 DEF Processed
    <3> HIDE DEF q
    <3> QED  BY <3>1, <1>3, Queues
  <2> QED  BY <2>1, <2>2
<1> HIDE DEF q
<1>p. /\ JobOK(old, seq[s]) /\ ConductorOK(con[s]) /\ raft \in RaftState
      /\ (con[s].pc = "stopWait" => seq[s].active) /\ published \subseteq L2Block
  BY Parts
<1>6. JobOK(q, r)
  BY <1>2, <1>4, <1>p, TameKeepsJob
<1>7. DOMAIN seq = Server /\ DOMAIN con = Server  BY DEF IInv
<1>8. seq'[s] = r /\ OthersKept(s)
  BY <1>5, <1>7 DEF OthersKept
<1>9. con'[s].pc = "stopWait" => seq'[s].active
  BY <1>8, <1>p DEF Tame
<1> QED  BY <1>5, <1>6, <1>8, <1>9, <1>p, Frame

-----------------------------------------------------------------------------
(* The events of the node *)

LEMMA FireSequencerActionStep ==
  ASSUME IInv, NEW s \in Server, FireSequencerAction(s)
  PROVE  IInv'
<1> DEFINE m == Signal("SequencerAction")
           old == node[s].queue
           q == old \o <<m>>
           r == [seq[s] EXCEPT !.due = FALSE]
<1>1. /\ QueueOK(old, s) /\ SequencerOK(seq[s], s) /\ JobOK(old, seq[s])
      /\ ConductorOK(con[s]) /\ (con[s].pc = "stopWait" => seq[s].active)
      /\ raft \in RaftState /\ published \subseteq L2Block /\ budget \in Scenario
  BY Parts
<1>2. /\ old = <<>> /\ seq[s].due /\ seq' = [seq EXCEPT ![s].due = FALSE]
      /\ node' = [node EXCEPT ![s].queue = q]
      /\ con' = con /\ raft' = raft /\ published' = published /\ budget' = budget
  BY DEF FireSequencerAction, Emitted
<1>3. m \in JobMsg(s) /\ m.t # "Committed"
  BY DEF Signal, JobMsg
<1>4. ~HasJob(old)
  BY <1>2 DEF HasJob
<1>5. QueueOK(q, s) /\ ~(q # <<>> /\ Head(q).t = "Committed")
  BY <1>1, <1>2, <1>3, <1>4, AddedJob
<1> HIDE DEF q, m
<1>6. /\ DOMAIN node' = Server /\ \A t \in Server \ {s} : node'[t] = node[t]
      /\ node'[s].queue = q /\ NodeOK(node'[s], s)
  BY <1>2, <1>5, Queues
<1>7. /\ r \in SequencerState /\ r.active /\ ~r.due /\ r.latest = seq[s].latest
  BY <1>1, <1>2 DEF SequencerOK, SequencerState
<1>8. SequencerOK(r, s)
  BY <1>1, <1>7 DEF SequencerOK
<1>9. DOMAIN seq = Server /\ DOMAIN con = Server  BY DEF IInv
<1>10. seq'[s] = r /\ OthersKept(s)
  BY <1>2, <1>6, <1>9 DEF OthersKept
<1> HIDE DEF r
<1>11. JobOK(q, r)
  BY <1>5, <1>7 DEF JobOK
<1> QED  BY <1>1, <1>2, <1>6, <1>7, <1>8, <1>10, <1>11, Frame

LEMMA HandleSequencerActionStep ==
  ASSUME IInv, NEW s \in Server, HandleSequencerAction(s)
  PROVE  IInv'
<1> DEFINE eng == node[s].eng
           el == node[s].el
<1>1. /\ SequencerOK(seq[s], s) /\ eng \in KnownController /\ el \in Engine
      /\ budget \in Scenario /\ published \subseteq L2Block
  BY Parts
<1>2. /\ node[s].queue # <<>> /\ Head(node[s].queue).t = "SequencerAction"
      /\ con' = con /\ raft' = raft /\ published' = published
  BY DEF HandleSequencerAction, Next1
<1>3. PICK up \in BOOLEAN :
        /\ Call(up)
        /\ seq' = [seq EXCEPT ![s] = OnSequencerAction(seq[s], eng, up).seq]
        /\ Processed(s, OnSequencerAction(seq[s], eng, up).evs)
  BY DEF HandleSequencerAction
<1> DEFINE r == OnSequencerAction(seq[s], eng, up)
<1>4. /\ SequencerOK(r.seq, s) /\ Tame(seq[s], r.seq)
      /\ \/ r.evs \in Seq(PlainMsg)
         \/ \E m \in JobMsg(s) : m.t # "Committed" /\ r.evs = <<m>>
  BY <1>1, SequencerActionTame
<1>5. budget' \in Scenario
  BY <1>1, <1>3, Budgets
<1> HIDE DEF r, eng, el
<1>6. /\ seq' = [seq EXCEPT ![s] = r.seq] /\ Processed(s, r.evs)
  BY <1>3 DEF r
<1>7. CASE r.evs \in Seq(PlainMsg)
  BY <1>7, <1>1, <1>2, <1>4, <1>5, <1>6, TameStep
<1>8. CASE \E m \in JobMsg(s) : m.t # "Committed" /\ r.evs = <<m>>
  <2>1. PICK m \in JobMsg(s) : m.t # "Committed" /\ r.evs = <<m>>
    BY <1>8
  <2>2. IsJob(Head(node[s].queue))
    BY <1>2 DEF IsJob, JobTypes
  <2>3. Signal("Reset") \in PlainMsg  BY DEF Signal, PlainMsg
  <2> QED  BY <2>1, <2>2, <2>3, <1>1, <1>2, <1>4, <1>5, <1>6, JobStep
<1> QED  BY <1>4, <1>7, <1>8

LEMMA HandleBuildStartStep ==
  ASSUME IInv, NEW s \in Server, HandleBuildStart(s)
  PROVE  IInv'
<1> DEFINE e == node[s].eng
           p == Ref(s)
           fcu == Forkchoice(node[s].el, p, e.safe, e.finalized)
<1>1. /\ SequencerOK(seq[s], s) /\ e \in KnownController /\ node[s].el \in Engine
      /\ budget \in Scenario /\ published \subseteq L2Block /\ QueueOK(node[s].queue, s)
  BY Parts
<1>2. /\ node[s].queue # <<>> /\ Head(node[s].queue).t = "BuildStart"
      /\ seq' = seq /\ con' = con /\ raft' = raft /\ published' = published
  BY DEF HandleBuildStart, Next1
<1>3. p \in L2Block
  BY <1>1, <1>2, HeadCarries DEF Ref
<1>4. Tame(seq[s], seq[s])  BY DEF Tame
<1>5. CASE Call(FALSE) /\ Processed(s, <<Signal("EngineTemporaryError")>>)
  <2>1. Signal("EngineTemporaryError") \in PlainMsg  BY DEF Signal, PlainMsg
  <2>2. <<Signal("EngineTemporaryError")>> \in Seq(PlainMsg)  BY <2>1
  <2>3. budget' \in Scenario  BY <1>1, <1>5, Budgets
  <2> HIDE DEF e
  <2> QED  BY <2>2, <2>3, <1>1, <1>2, <1>4, <1>5, TameStep
<1>6. CASE /\ \E b \in Jobs(s, p) :
                ProcessedAt(s, e, fcu.el, <<ForkchoiceUpdate(p, e.safe, e.finalized),
                                            Event("BuildStarted", b)>>)
           /\ UNCHANGED budget
  <2>1. PICK b \in Jobs(s, p) :
          ProcessedAt(s, e, fcu.el, <<ForkchoiceUpdate(p, e.safe, e.finalized),
                                      Event("BuildStarted", b)>>)
    BY <1>6
  <2>2. Event("BuildStarted", b) \in JobMsg(s) /\ Event("BuildStarted", b).t # "Committed"
    BY DEF Event, JobMsg, OwnedTypes, Jobs
  <2>3. ForkchoiceUpdate(p, e.safe, e.finalized) \in PlainMsg
    BY <1>1, <1>3, PlainMessages
  <2>4. e.safe \in L2Block /\ e.finalized \in L2Block
    BY <1>1 DEF KnownController
  <2>5. fcu.el \in Engine
    BY <2>4, <1>1, <1>3, ForkchoiceType
  <2>6. IsJob(Head(node[s].queue))
    BY <1>2 DEF IsJob, JobTypes
  <2>7. budget' \in Scenario  BY <1>1, <1>6
  <2> HIDE DEF e, fcu, p
  <2> QED  BY <2>1, <2>2, <2>3, <2>5, <2>6, <2>7, <1>1, <1>2, <1>4, JobStep
<1> QED  BY <1>5, <1>6 DEF HandleBuildStart

\* A job that is started for a sequencer that was stopped leaves no event of it behind.
LEMMA HandleBuildStartedStep ==
  ASSUME IInv, NEW s \in Server, HandleBuildStarted(s)
  PROVE  IInv'
<1> DEFINE b == Ref(s)
           old == node[s].queue
           q == Tail(old) \o <<>>
           r == OnBuildStarted(seq[s], b)
<1>1. /\ QueueOK(old, s) /\ SequencerOK(seq[s], s) /\ JobOK(old, seq[s])
      /\ ConductorOK(con[s]) /\ (con[s].pc = "stopWait" => seq[s].active)
      /\ raft \in RaftState /\ published \subseteq L2Block /\ budget \in Scenario
  BY Parts
<1>2. /\ old # <<>> /\ Head(old).t = "BuildStarted" /\ seq' = [seq EXCEPT ![s] = r]
      /\ node' = [node EXCEPT ![s].queue = q]
      /\ con' = con /\ raft' = raft /\ published' = published /\ budget' = budget
  BY DEF HandleBuildStarted, Next1, Processed
<1>3. b \in L2Block /\ Builder[b] = s
  BY <1>1, <1>2, HeadCarries DEF Ref, OwnedTypes
<1>4. IsJob(Head(old))
  BY <1>2 DEF IsJob, JobTypes, OwnedTypes
<1>5. /\ QueueOK(Tail(old), s) /\ ~HasJob(Tail(old))
      /\ \A i \in DOMAIN Tail(old) : Tail(old)[i].t # "Committed"
  BY <1>1, <1>2, <1>4, Taken
<1>6. q = Tail(old) /\ (q # <<>> => 1 \in DOMAIN q /\ Head(q) = q[1])
  <2>1. Tail(old) \in Seq(Msg(s))  BY <1>5 DEF QueueOK
  <2> QED  BY <2>1
<1>7. QueueOK(q, s) /\ ~HasJob(q) /\ ~(q # <<>> /\ Head(q).t = "Committed")
  BY <1>5, <1>6
<1> HIDE DEF q
<1>8. /\ DOMAIN node' = Server /\ \A t \in Server \ {s} : node'[t] = node[t]
      /\ node'[s].queue = q /\ NodeOK(node'[s], s)
  BY <1>2, <1>7, Queues
<1>9. SequencerOK(r, s) /\ r.active = seq[s].active
  <2>1. CASE seq[s].latest.onto # Parent[b]
    BY <2>1, <1>1, HandleInvalidTame DEF OnBuildStarted, Tame
  <2>2. CASE seq[s].latest.onto = Parent[b]
    <3>1. r = [seq[s] EXCEPT !.latest.info = b, !.due = seq[s].active]
      BY <2>2 DEF OnBuildStarted
    <3>2. b \in L2Ref /\ seq[s] \in SequencerState
      BY <1>1, <1>3 DEF SequencerOK, L2Ref
    <3> HIDE DEF r, b
    <3>3. /\ r \in SequencerState /\ r.active = seq[s].active /\ r.due = seq[s].active
          /\ r.latest.info = b
      BY <3>1, <3>2 DEF SequencerState, BuildingState
    <3> QED  BY <3>3, <1>3 DEF SequencerOK
  <2> QED  BY <2>1, <2>2
<1>10. DOMAIN seq = Server /\ DOMAIN con = Server  BY DEF IInv
<1> HIDE DEF r
<1>11. seq'[s] = r /\ OthersKept(s)
  BY <1>2, <1>8, <1>10 DEF OthersKept
<1>12. JobOK(q, r)
  BY <1>7 DEF JobOK
<1> QED  BY <1>1, <1>2, <1>8, <1>9, <1>11, <1>12, Frame

LEMMA HandleBuildSealStep ==
  ASSUME IInv, NEW s \in Server, HandleBuildSeal(s)
  PROVE  IInv'
<1>1. /\ SequencerOK(seq[s], s) /\ node[s].eng \in KnownController /\ node[s].el \in Engine
      /\ budget \in Scenario /\ published \subseteq L2Block /\ QueueOK(node[s].queue, s)
  BY Parts
<1>2. /\ node[s].queue # <<>> /\ Head(node[s].queue).t = "BuildSeal"
      /\ seq' = seq /\ con' = con /\ raft' = raft /\ published' = published
  BY DEF HandleBuildSeal, Next1
<1>3. Ref(s) \in L2Block /\ Builder[Ref(s)] = s
  BY <1>1, <1>2, HeadCarries DEF Ref, OwnedTypes
<1>4. Tame(seq[s], seq[s])  BY DEF Tame
<1>5. PICK up \in BOOLEAN :
        /\ Call(up)
        /\ Processed(s, <<Event(IF up THEN "BuildSealed" ELSE "PayloadSealFailed", Ref(s))>>)
  BY DEF HandleBuildSeal
<1>6. budget' \in Scenario  BY <1>1, <1>5, Budgets
<1>7. CASE up
  <2> DEFINE m == Event("BuildSealed", Ref(s))
  <2>1. m \in JobMsg(s) /\ m.t # "Committed"
    BY <1>3 DEF Event, JobMsg, OwnedTypes
  <2>2. Processed(s, <<m>>)  BY <1>5, <1>7
  <2>3. IsJob(Head(node[s].queue))
    BY <1>2 DEF IsJob, JobTypes, OwnedTypes
  <2>4. Signal("Reset") \in PlainMsg  BY DEF Signal, PlainMsg
  <2> HIDE DEF m
  <2> QED  BY <2>1, <2>2, <2>3, <2>4, <1>1, <1>2, <1>4, <1>6, JobStep
<1>8. CASE ~up
  <2> DEFINE m == Event("PayloadSealFailed", Ref(s))
  <2>1. m \in PlainMsg
    BY <1>3 DEF Event, PlainMsg
  <2>2. <<m>> \in Seq(PlainMsg)  BY <2>1
  <2>3. Processed(s, <<m>>)  BY <1>5, <1>8
  <2> HIDE DEF m
  <2> QED  BY <2>2, <2>3, <1>1, <1>2, <1>4, <1>6, TameStep
<1> QED  BY <1>7, <1>8

LEMMA HandlePayloadSealFailedStep ==
  ASSUME IInv, NEW s \in Server, HandlePayloadSealFailed(s)
  PROVE  IInv'
<1>1. /\ SequencerOK(seq[s], s) /\ node[s].eng \in KnownController /\ node[s].el \in Engine
      /\ budget \in Scenario /\ published \subseteq L2Block /\ QueueOK(node[s].queue, s)
  BY Parts
<1>2. /\ node[s].queue # <<>> /\ Head(node[s].queue).t = "PayloadSealFailed"
      /\ seq' = [seq EXCEPT ![s] = OnPayloadSealFailed(seq[s], Ref(s))]
      /\ Processed(s, <<>>)
      /\ con' = con /\ raft' = raft /\ published' = published /\ budget' = budget
  BY DEF HandlePayloadSealFailed, Next1
<1>3. Ref(s) \in L2Block
  BY <1>1, <1>2, HeadCarries DEF Ref
<1>4. /\ SequencerOK(OnPayloadSealFailed(seq[s], Ref(s)), s)
      /\ Tame(seq[s], OnPayloadSealFailed(seq[s], Ref(s)))
  BY <1>1, <1>3, HandlersTame
<1>5. << >> \in Seq(PlainMsg)  OBVIOUS
<1> QED  BY <1>1, <1>2, <1>4, <1>5, TameStep

\* Only a running sequencer has the sealed job in hand, and a commit starts.
LEMMA HandleBuildSealedStep ==
  ASSUME IInv, NEW s \in Server, HandleBuildSealed(s)
  PROVE  IInv'
<1> DEFINE b == Ref(s)
           old == node[s].queue
           m == Event("Committed", b)
<1>1. /\ SequencerOK(seq[s], s) /\ node[s].eng \in KnownController /\ node[s].el \in Engine
      /\ budget \in Scenario /\ published \subseteq L2Block /\ QueueOK(old, s)
      /\ JobOK(old, seq[s]) /\ ConductorOK(con[s]) /\ raft \in RaftState
      /\ (con[s].pc = "stopWait" => seq[s].active)
  BY Parts
<1>2. /\ old # <<>> /\ Head(old).t = "BuildSealed"
      /\ seq' = seq /\ con' = con /\ published' = published
  BY DEF HandleBuildSealed, Next1
<1>3. b \in L2Block /\ Builder[b] = s
  BY <1>1, <1>2, HeadCarries DEF Ref, OwnedTypes
<1>4. Tame(seq[s], seq[s])  BY DEF Tame
<1>5. Signal("EngineTemporaryError") \in PlainMsg  BY DEF Signal, PlainMsg
<1>6. << >> \in Seq(PlainMsg) /\ <<Signal("EngineTemporaryError")>> \in Seq(PlainMsg)
  BY <1>5
<1>7. Commit(b) => raft' \in RaftState
  <2>1. Apply(raft.head, b) \in L2Block /\ raft.log \cup {b} \subseteq L2Block
    BY <1>1, <1>3 DEF RaftState, Apply
  <2> QED  BY <2>1, <1>1 DEF RaftState, Commit
<1>8. ASSUME Processed(s, <<>>) \/ Processed(s, <<Signal("EngineTemporaryError")>>),
             raft' \in RaftState, budget' \in Scenario
      PROVE  IInv'
  <2>1. PICK evs \in Seq(PlainMsg) : Processed(s, evs)
    BY <1>6, <1>8
  <2> DEFINE q == Tail(old) \o evs
  <2>2. /\ QueueOK(Tail(old), s) /\ (HasJob(Tail(old)) => HasJob(old))
        /\ \A i \in DOMAIN Tail(old) : Tail(old)[i].t # "Committed"
    BY <1>1, <1>2, Taken
  <2>3. /\ QueueOK(q, s) /\ (HasJob(q) => HasJob(old))
        /\ q # <<>> /\ Head(q).t = "Committed" =>
             Tail(old) # <<>> /\ Head(q) = Head(Tail(old))
    BY <2>2, AddedPlain
  <2>4. ~(q # <<>> /\ Head(q).t = "Committed")
    <3> DEFINE t == Tail(old)
    <3>1. t \in Seq(Msg(s)) /\ (t # <<>> => 1 \in DOMAIN t /\ Head(t) = t[1])
      BY <2>2 DEF QueueOK
    <3> QED  BY <3>1, <2>2, <2>3
  <2>5. node' = [node EXCEPT ![s].queue = q]
    BY <2>1 DEF Processed
  <2> HIDE DEF q
  <2>6. /\ DOMAIN node' = Server /\ \A t \in Server \ {s} : node'[t] = node[t]
        /\ node'[s].queue = q /\ NodeOK(node'[s], s)
    BY <2>3, <2>5, Queues
  <2>7. JobOK(q, seq[s])
    BY <2>3, <2>4, <1>1 DEF JobOK
  <2>8. DOMAIN seq = Server /\ DOMAIN con = Server  BY DEF IInv
  <2>9. OthersKept(s)
    BY <2>6, <2>8, <1>2 DEF OthersKept
  <2> QED  BY <2>6, <2>7, <2>9, <1>1, <1>2, <1>8, Frame
<1>9. CASE /\ seq[s].latest.info = b /\ Commit(b)
           /\ node' = [node EXCEPT ![s].queue = <<m>> \o Tail(@)]
           /\ UNCHANGED budget
  <2> DEFINE q == <<m>> \o Tail(old)
  <2>1. IsJob(Head(old))
    BY <1>2 DEF IsJob, JobTypes, OwnedTypes
  <2>2. m \in JobMsg(s)
    BY <1>3 DEF Event, JobMsg, OwnedTypes
  <2>3. QueueOK(q, s)
    BY <2>1, <2>2, <1>1, <1>2, CommitStarted
  <2>4. node' = [node EXCEPT ![s].queue = q]
    BY <1>9
  <2> HIDE DEF q
  <2>5. /\ DOMAIN node' = Server /\ \A t \in Server \ {s} : node'[t] = node[t]
        /\ node'[s].queue = q /\ NodeOK(node'[s], s)
    BY <2>3, <2>4, Queues
  <2>6. seq[s].active
    <3>1. HasJob(old)  BY <2>1, <1>1, <1>2, Taken
    <3>2. b # NoBlock  BY <1>3, ChainsAssumption
    <3> QED  BY <3>1, <3>2, <1>1, <1>9 DEF JobOK
  <2>7. JobOK(q, seq[s])
    BY <2>6 DEF JobOK
  <2>8. DOMAIN seq = Server /\ DOMAIN con = Server  BY DEF IInv
  <2>9. OthersKept(s)
    BY <2>5, <2>8, <1>2 DEF OthersKept
  <2>10. raft' \in RaftState /\ budget' \in Scenario  BY <1>1, <1>7, <1>9
  <2> QED  BY <2>5, <2>7, <2>9, <2>10, <1>1, <1>2, <1>9, Frame
<1>10. CASE /\ Commit(b) /\ Answered(FALSE)
            /\ Processed(s, <<Signal("EngineTemporaryError")>>)
  <2>1. budget' \in Scenario  BY <1>1, <1>10, Budgets
  <2> QED  BY <2>1, <1>10, <1>7, <1>8
<1>11. CASE /\ Processed(s, <<>>) \/ Processed(s, <<Signal("EngineTemporaryError")>>)
            /\ UNCHANGED <<raft, budget>>
  BY <1>11, <1>8, <1>1
<1> QED  BY <1>9, <1>10, <1>11 DEF HandleBuildSealed

LEMMA HandleCommittedStep ==
  ASSUME IInv, NEW s \in Server, HandleCommitted(s)
  PROVE  IInv'
<1> DEFINE r == OnBuildSealed(seq[s], Ref(s))
<1>1. /\ SequencerOK(seq[s], s) /\ node[s].eng \in KnownController /\ node[s].el \in Engine
      /\ budget \in Scenario /\ QueueOK(node[s].queue, s)
  BY Parts
<1>2. /\ node[s].queue # <<>> /\ Head(node[s].queue).t = "Committed"
      /\ seq' = [seq EXCEPT ![s] = r] /\ Processed(s, <<Event("PayloadProcess", Ref(s))>>)
      /\ con' = con /\ raft' = raft /\ published' = published /\ budget' = budget
  BY DEF HandleCommitted, Next1
<1>3. Ref(s) \in L2Block
  BY <1>1, <1>2, HeadCarries DEF Ref, OwnedTypes
<1>4. SequencerOK(r, s) /\ Tame(seq[s], r)
  BY <1>1, <1>3, HandlersTame
<1>5. Event("PayloadProcess", Ref(s)) \in PlainMsg
  BY <1>3 DEF Event, PlainMsg
<1>6. <<Event("PayloadProcess", Ref(s))>> \in Seq(PlainMsg)  BY <1>5
<1> HIDE DEF r
<1> QED  BY <1>1, <1>2, <1>4, <1>6, TameStep

\* The gossiper's goroutine touches neither the queue nor the job in hand.
LEMMA PublishStep ==
  ASSUME IInv, NEW s \in Server, Publish(s)
  PROVE  IInv'
<1>1. /\ NodeOK(node[s], s) /\ SequencerOK(seq[s], s) /\ JobOK(node[s].queue, seq[s])
      /\ ConductorOK(con[s]) /\ (con[s].pc = "stopWait" => seq[s].active)
      /\ raft \in RaftState /\ published \subseteq L2Block /\ budget \in Scenario
  BY Parts
<1>2. /\ node' = node /\ con' = con /\ raft' = raft /\ seq[s].gossiping # NoBlock
  BY DEF Publish, Silent
<1>3. PICK up \in BOOLEAN :
        /\ Call(up)
        /\ published' = IF up THEN published \cup {seq[s].gossiping} ELSE published
        /\ seq' = [seq EXCEPT ![s] = OnGossiped(seq[s], up)]
  BY DEF Publish
<1> DEFINE r == OnGossiped(seq[s], up)
<1>4. Genesis \in L2Block  BY ChainsAssumption
<1>5. SequencerOK(r, s) /\ Tame(seq[s], r)
  BY <1>1, <1>4, HandlersTame
<1>6. published' \subseteq L2Block
  BY <1>1, <1>2, <1>3 DEF SequencerOK, SequencerState, L2Ref
<1>7. budget' \in Scenario  BY <1>1, <1>3, Budgets
<1> HIDE DEF r
<1>8. DOMAIN node = Server /\ DOMAIN seq = Server /\ DOMAIN con = Server  BY DEF IInv
<1>9. seq'[s] = r /\ OthersKept(s)
  BY <1>2, <1>3, <1>8 DEF OthersKept, r
<1>10. JobOK(node[s].queue, r) /\ (con[s].pc = "stopWait" => r.active)
  BY <1>1, <1>5 DEF JobOK, Tame
<1> QED  BY <1>1, <1>2, <1>5, <1>6, <1>7, <1>9, <1>10, Frame

LEMMA HandlePayloadProcessStep ==
  ASSUME IInv, NEW s \in Server, HandlePayloadProcess(s)
  PROVE  IInv'
<1>1. /\ SequencerOK(seq[s], s) /\ node[s].eng \in KnownController /\ node[s].el \in Engine
      /\ budget \in Scenario /\ published \subseteq L2Block /\ QueueOK(node[s].queue, s)
  BY Parts
<1>2. /\ node[s].queue # <<>> /\ Head(node[s].queue).t = "PayloadProcess"
      /\ seq' = seq /\ con' = con /\ raft' = raft /\ published' = published
  BY DEF HandlePayloadProcess, Next1
<1>3. Ref(s) \in L2Block
  BY <1>1, <1>2, HeadCarries DEF Ref
<1>4. PICK up \in BOOLEAN :
        /\ Call(up)
        /\ Processed(s, <<IF up THEN Event("PayloadSuccess", Ref(s))
                          ELSE Signal("EngineTemporaryError")>>)
  BY DEF HandlePayloadProcess
<1> DEFINE m == IF up THEN Event("PayloadSuccess", Ref(s)) ELSE Signal("EngineTemporaryError")
<1>5. Event("PayloadSuccess", Ref(s)) \in PlainMsg /\ Signal("EngineTemporaryError") \in PlainMsg
  BY <1>3 DEF Event, Signal, PlainMsg
<1>6. m \in PlainMsg  BY <1>5
<1>7. <<m>> \in Seq(PlainMsg)  BY <1>6
<1>8. budget' \in Scenario  BY <1>1, <1>4, Budgets
<1>9. Tame(seq[s], seq[s])  BY DEF Tame
<1> HIDE DEF m
<1>10. Processed(s, <<m>>)  BY <1>4 DEF m
<1> QED  BY <1>1, <1>2, <1>7, <1>8, <1>9, <1>10, TameStep

LEMMA HandlePayloadSuccessStep ==
  ASSUME IInv, NEW s \in Server, HandlePayloadSuccess(s)
  PROVE  IInv'
<1> DEFINE e == SetUnsafeHead(node[s].eng, Ref(s))
<1>1. /\ SequencerOK(seq[s], s) /\ node[s].eng \in KnownController /\ node[s].el \in Engine
      /\ budget \in Scenario /\ published \subseteq L2Block /\ QueueOK(node[s].queue, s)
  BY Parts
<1>2. /\ node[s].queue # <<>> /\ Head(node[s].queue).t = "PayloadSuccess"
      /\ seq' = [seq EXCEPT ![s] = OnPayloadSuccess(seq[s], Ref(s))]
      /\ con' = con /\ raft' = raft /\ published' = published
  BY DEF HandlePayloadSuccess, Next1
<1>3. Ref(s) \in L2Block
  BY <1>1, <1>2, HeadCarries DEF Ref
<1>4. e \in KnownController
  BY <1>1, <1>3 DEF SetUnsafeHead, KnownController
<1> HIDE DEF e
<1>5. PICK up \in BOOLEAN :
        LET r == TryUpdateEngineInternal(e, node[s].el, up)
        IN  /\ Call(up)
            /\ ProcessedAt(s, r.eng, r.el,
                 (IF r.eng.needFCU THEN <<Signal("UnsafeUpdate")>> ELSE <<>>) \o r.evs)
  BY DEF HandlePayloadSuccess, e
<1> DEFINE r == TryUpdateEngineInternal(e, node[s].el, up)
           first == IF r.eng.needFCU THEN <<Signal("UnsafeUpdate")>> ELSE <<>>
           evs == first \o r.evs
<1>6. r.eng \in KnownController /\ r.el \in Engine /\ r.evs \in Seq(PlainMsg)
  BY <1>1, <1>4, UpdateEngineInternalType
<1> HIDE DEF r
<1>7. first \in Seq(PlainMsg)
  <2>1. Signal("UnsafeUpdate") \in PlainMsg  BY DEF Signal, PlainMsg
  <2> QED  BY <2>1
<1> HIDE DEF first
<1>8. evs \in Seq(PlainMsg)
  BY <1>6, <1>7
<1>9. ProcessedAt(s, r.eng, r.el, evs) /\ Call(up)
  BY <1>5 DEF r, first
<1> HIDE DEF evs
<1>10. budget' \in Scenario  BY <1>1, <1>9, Budgets
<1>11. /\ SequencerOK(OnPayloadSuccess(seq[s], Ref(s)), s)
       /\ Tame(seq[s], OnPayloadSuccess(seq[s], Ref(s)))
  BY <1>1, <1>3, HandlersTame
<1> QED  BY <1>1, <1>2, <1>6, <1>8, <1>9, <1>10, <1>11, TameStep

LEMMA HandleUnsafeUpdateStep ==
  ASSUME IInv, NEW s \in Server, HandleUnsafeUpdate(s)
  PROVE  IInv'
<1>1. /\ SequencerOK(seq[s], s) /\ node[s].eng \in KnownController /\ node[s].el \in Engine
      /\ budget \in Scenario /\ published \subseteq L2Block
  BY Parts
<1>2. /\ node[s].queue # <<>>
      /\ seq' = seq /\ con' = con /\ raft' = raft /\ published' = published
  BY DEF HandleUnsafeUpdate, Next1
<1>3. PICK up \in BOOLEAN :
        LET r == TryUpdateEngine(node[s].eng, node[s].el, up)
        IN  Call(up) /\ ProcessedAt(s, r.eng, r.el, r.evs)
  <2>1. node[s].eng.needFCU \in BOOLEAN  BY <1>1 DEF KnownController
  <2> QED  BY <2>1 DEF HandleUnsafeUpdate
<1> DEFINE r == TryUpdateEngine(node[s].eng, node[s].el, up)
<1>4. r.eng \in KnownController /\ r.el \in Engine /\ r.evs \in Seq(PlainMsg)
  BY <1>1, UpdateEngineType
<1>5. ProcessedAt(s, r.eng, r.el, r.evs) /\ Call(up)
  BY <1>3
<1> HIDE DEF r
<1>6. budget' \in Scenario  BY <1>1, <1>5, Budgets
<1>7. Tame(seq[s], seq[s])  BY DEF Tame
<1> QED  BY <1>1, <1>2, <1>4, <1>5, <1>6, <1>7, TameStep

LEMMA HandleEngineTemporaryErrorStep ==
  ASSUME IInv, NEW s \in Server, HandleEngineTemporaryError(s)
  PROVE  IInv'
<1>1. /\ SequencerOK(seq[s], s) /\ node[s].eng \in KnownController /\ node[s].el \in Engine
      /\ budget \in Scenario /\ published \subseteq L2Block
  BY Parts
<1>2. /\ node[s].queue # <<>>
      /\ seq' = [seq EXCEPT ![s] = OnEngineTemporaryError(seq[s])]
      /\ Processed(s, <<>>)
      /\ con' = con /\ raft' = raft /\ published' = published /\ budget' = budget
  BY DEF HandleEngineTemporaryError, Next1
<1>3. Genesis \in L2Block  BY ChainsAssumption
<1>4. /\ SequencerOK(OnEngineTemporaryError(seq[s]), s)
      /\ Tame(seq[s], OnEngineTemporaryError(seq[s]))
  BY <1>1, <1>3, HandlersTame
<1>5. << >> \in Seq(PlainMsg)  OBVIOUS
<1> QED  BY <1>1, <1>2, <1>4, <1>5, TameStep

LEMMA HandleForkchoiceUpdateStep ==
  ASSUME IInv, NEW s \in Server, HandleForkchoiceUpdate(s)
  PROVE  IInv'
<1> DEFINE old == node[s].queue
           ev == Head(old)
           n == node[s]
           r == OnForkchoiceUpdate(seq[s], ev.unsafe)
           next(kept) == {p \in Lowest(kept) : /\ Parent[p] = ev.unsafe
                                               /\ Number[p] = Number[ev.unsafe] + 1
                                               /\ p # n.eng.unsafe}
           done(x, kept) == node' = [node EXCEPT ![s] =
                              [ eng |-> x.eng, el |-> x.el, payloads |-> kept,
                                queue |-> Tail(@.queue) \o x.evs ]]
           none == [eng |-> n.eng, el |-> n.el, evs |-> <<>>]
<1>1. /\ SequencerOK(seq[s], s) /\ n.eng \in KnownController /\ n.el \in Engine
      /\ n.payloads \subseteq L2Block /\ budget \in Scenario
      /\ published \subseteq L2Block /\ QueueOK(old, s)
      /\ JobOK(old, seq[s]) /\ ConductorOK(con[s]) /\ raft \in RaftState
      /\ (con[s].pc = "stopWait" => seq[s].active)
  BY Parts
<1>2. /\ old # <<>> /\ ev.t = "ForkchoiceUpdate" /\ seq' = [seq EXCEPT ![s] = r]
      /\ con' = IF con[s].pc = "stopWait" THEN [con EXCEPT ![s].pc = "stop"] ELSE con
      /\ raft' = raft /\ published' = published
  BY DEF HandleForkchoiceUpdate, Next1
<1>3. PICK kept \in DropInapplicable(n.payloads, ev.unsafe, ev.safe) :
        \/ next(kept) = {} /\ done(none, kept) /\ UNCHANGED budget
        \/ \E p \in next(kept), up \in BOOLEAN :
             Call(up) /\ done(InsertUnsafePayload(n.eng, n.el, p, up), kept)
  BY DEF HandleForkchoiceUpdate
<1>4. ev.unsafe \in L2Block /\ ev.safe \in L2Block
  BY <1>1, <1>2, HeadCarries
<1>5. kept \subseteq L2Block
  BY <1>1, <1>3 DEF DropInapplicable
<1>6. \E x : /\ x.eng \in KnownController /\ x.el \in Engine /\ x.evs \in Seq(PlainMsg)
             /\ done(x, kept) /\ budget' \in Scenario
  <2>1. CASE next(kept) = {} /\ done(none, kept) /\ UNCHANGED budget
    <3>1. none.eng = n.eng /\ none.el = n.el /\ none.evs = <<>>  OBVIOUS
    <3>2. << >> \in Seq(PlainMsg)  OBVIOUS
    <3> HIDE DEF none, n, done
    <3> WITNESS none
    <3> QED  BY <3>1, <3>2, <2>1, <1>1
  <2>2. CASE \E p \in next(kept), up \in BOOLEAN :
               Call(up) /\ done(InsertUnsafePayload(n.eng, n.el, p, up), kept)
    <3>1. PICK p \in next(kept), up \in BOOLEAN :
            Call(up) /\ done(InsertUnsafePayload(n.eng, n.el, p, up), kept)
      BY <2>2
    <3>2. p \in L2Block  BY <1>5 DEF Lowest
    <3>3. budget' \in Scenario  BY <3>1, <1>1, Budgets
    <3> DEFINE x == InsertUnsafePayload(n.eng, n.el, p, up)
    <3>4. x.eng \in KnownController /\ x.el \in Engine /\ x.evs \in Seq(PlainMsg)
      BY <3>2, <1>1, InsertPayloadType
    <3>5. done(x, kept)  BY <3>1
    <3> HIDE DEF x, done
    <3> WITNESS x
    <3> QED  BY <3>3, <3>4, <3>5
  <2> QED  BY <1>3, <2>1, <2>2
<1>7. PICK x : /\ x.eng \in KnownController /\ x.el \in Engine /\ x.evs \in Seq(PlainMsg)
               /\ done(x, kept) /\ budget' \in Scenario
  BY <1>6
<1> DEFINE q == Tail(old) \o x.evs
           n1 == [eng |-> x.eng, el |-> x.el, payloads |-> kept, queue |-> q]
<1>8. /\ QueueOK(Tail(old), s) /\ (HasJob(Tail(old)) => HasJob(old))
      /\ \A i \in DOMAIN Tail(old) : Tail(old)[i].t # "Committed"
  BY <1>1, <1>2, Taken
<1>9. /\ QueueOK(q, s) /\ (HasJob(q) => HasJob(old))
      /\ q # <<>> /\ Head(q).t = "Committed" =>
           Tail(old) # <<>> /\ Head(q) = Head(Tail(old))
  BY <1>7, <1>8, AddedPlain
<1>10. ~(q # <<>> /\ Head(q).t = "Committed")
  <2> DEFINE t == Tail(old)
  <2>1. t \in Seq(Msg(s)) /\ (t # <<>> => 1 \in DOMAIN t /\ Head(t) = t[1])
    BY <1>8 DEF QueueOK
  <2> QED  BY <2>1, <1>8, <1>9
<1>11. DOMAIN node = Server /\ DOMAIN seq = Server /\ DOMAIN con = Server  BY DEF IInv
<1>12. node' = [node EXCEPT ![s] = n1]
  BY <1>7
<1>13. SequencerOK(r, s) /\ Tame(seq[s], r)
  BY <1>1, <1>4, HandlersTame
<1> HIDE DEF q, r, old, n, done, next
<1>14. NodeOK(n1, s) /\ n1.queue = q
  BY <1>5, <1>7, <1>9 DEF NodeOK, QueueOK
<1> HIDE DEF n1
<1>15. node'[s] = n1 /\ seq'[s] = r /\ OthersKept(s)
  BY <1>2, <1>11, <1>12 DEF OthersKept
<1>16. JobOK(q, r)
  BY <1>1, <1>9, <1>10, <1>13, TameKeepsJob
<1>17. ConductorOK(con'[s]) /\ con'[s].pc # "stopWait"
  BY <1>1, <1>2, <1>11 DEF ConductorOK, ConductorState, Place
<1> QED  BY <1>1, <1>2, <1>7, <1>13, <1>14, <1>15, <1>16, <1>17, Frame

LEMMA HandleStep ==
  ASSUME IInv, NEW s \in Server, Handle(s)
  PROVE  IInv'
BY HandleSequencerActionStep, HandleBuildStartStep, HandleBuildStartedStep,
   HandleBuildSealStep, HandlePayloadSealFailedStep, HandleBuildSealedStep,
   HandleCommittedStep, HandlePayloadProcessStep, HandlePayloadSuccessStep,
   HandleUnsafeUpdateStep, HandleEngineTemporaryErrorStep, HandleForkchoiceUpdateStep
   DEF Handle

\* A payload is queued, and the engine's heads are asked for.
LEMMA PayloadQueued ==
  ASSUME IInv, NEW s \in Server, NEW b \in L2Block, AddUnsafePayload(s, b)
  PROVE  /\ DOMAIN node' = Server /\ \A t \in Server \ {s} : node'[t] = node[t]
         /\ NodeOK(node'[s], s) /\ JobOK(node'[s].queue, seq[s])
<1> DEFINE m == RequestForkchoiceUpdate(node[s].eng)
           old == node[s].queue
           q == old \o <<m>>
           n1 == [node[s] EXCEPT !.payloads = @ \cup {b}, !.queue = q]
<1>1. /\ NodeOK(node[s], s) /\ JobOK(old, seq[s]) /\ QueueOK(old, s)
      /\ node[s].eng \in KnownController
  BY Parts
<1>2. DOMAIN node = Server  BY DEF IInv
<1>3. CASE b \in node[s].payloads
  BY <1>1, <1>2, <1>3 DEF AddUnsafePayload
<1>4. CASE b \notin node[s].payloads
  <2>1. node' = [node EXCEPT ![s].payloads = @ \cup {b}, ![s].queue = q]
    BY <1>4 DEF AddUnsafePayload
  <2>2. m \in PlainMsg  BY <1>1, PlainMessages
  <2>3. <<m>> \in Seq(PlainMsg)  BY <2>2
  <2>4. /\ QueueOK(q, s) /\ (HasJob(q) => HasJob(old))
        /\ q # <<>> /\ Head(q).t = "Committed" => old # <<>> /\ Head(q) = Head(old)
    BY <2>3, <1>1, AddedPlain
  <2> HIDE DEF q
  <2>5. DOMAIN node' = Server /\ node'[s] = n1 /\ \A t \in Server \ {s} : node'[t] = node[t]
    BY <2>1, <1>2
  <2>6. NodeOK(n1, s) /\ n1.queue = q
    BY <2>4, <1>1 DEF NodeOK, QueueOK
  <2> HIDE DEF n1, old
  <2>7. Tame(seq[s], seq[s])  BY DEF Tame
  <2>8. JobOK(q, seq[s])
    BY <2>4, <2>7, <1>1, TameKeepsJob
  <2> QED  BY <2>5, <2>6, <2>8
<1> QED  BY <1>3, <1>4

LEMMA ReceivePayloadStep ==
  ASSUME IInv, NEW s \in Server, ReceivePayload(s)
  PROVE  IInv'
<1>1. /\ SequencerOK(seq[s], s) /\ ConductorOK(con[s])
      /\ (con[s].pc = "stopWait" => seq[s].active)
      /\ raft \in RaftState /\ published \subseteq L2Block /\ budget \in Scenario
  BY Parts
<1>2. /\ seq' = seq /\ con' = con /\ raft' = raft /\ published' = published /\ budget' = budget
  BY DEF ReceivePayload
<1>3. PICK b \in published : AddUnsafePayload(s, b)
  BY DEF ReceivePayload
<1>4. /\ DOMAIN node' = Server /\ \A t \in Server \ {s} : node'[t] = node[t]
      /\ NodeOK(node'[s], s) /\ JobOK(node'[s].queue, seq[s])
  BY <1>1, <1>3, PayloadQueued
<1>5. OthersKept(s)
  BY <1>2, <1>4 DEF OthersKept, IInv
<1> QED  BY <1>1, <1>2, <1>4, <1>5, Frame

LEMMA SyncStepStep ==
  ASSUME IInv, NEW s \in Server, SyncStep(s)
  PROVE  IInv'
<1> DEFINE r == TryUpdateEngine(node[s].eng, node[s].el, TRUE)
           old == node[s].queue
<1>1. /\ SequencerOK(seq[s], s) /\ ConductorOK(con[s])
      /\ (con[s].pc = "stopWait" => seq[s].active) /\ QueueOK(old, s)
      /\ node[s].eng \in KnownController /\ node[s].el \in Engine
      /\ raft \in RaftState /\ published \subseteq L2Block /\ budget \in Scenario
  BY Parts
<1>2. /\ old = <<>>
      /\ node' = [node EXCEPT ![s].eng = r.eng, ![s].el = r.el, ![s].queue = r.evs]
      /\ seq' = seq /\ con' = con /\ raft' = raft /\ published' = published /\ budget' = budget
  BY DEF SyncStep
<1>3. r.eng \in KnownController /\ r.el \in Engine /\ r.evs \in Seq(PlainMsg)
  BY <1>1, UpdateEngineType
<1> HIDE DEF r
<1>4. /\ QueueOK(old \o r.evs, s) /\ (HasJob(old \o r.evs) => HasJob(old))
      /\ old \o r.evs # <<>> /\ Head(old \o r.evs).t = "Committed" =>
           old # <<>> /\ Head(old \o r.evs) = Head(old)
  BY <1>1, <1>3, AddedPlain
<1>5. old \o r.evs = r.evs
  BY <1>2, <1>3
<1>6. /\ DOMAIN node' = Server /\ \A t \in Server \ {s} : node'[t] = node[t]
      /\ node'[s].queue = r.evs /\ NodeOK(node'[s], s)
  <2>1. QueueOK(r.evs, s)  BY <1>4, <1>5
  <2> QED  BY <2>1, <1>2, <1>3, QueuesAt
<1>7. JobOK(r.evs, seq[s])
  <2>1. ~HasJob(old)  BY <1>2 DEF HasJob
  <2> QED  BY <2>1, <1>2, <1>4, <1>5 DEF JobOK
<1>8. OthersKept(s)
  BY <1>2, <1>6 DEF OthersKept, IInv
<1> QED  BY <1>1, <1>2, <1>6, <1>7, <1>8, Frame

-----------------------------------------------------------------------------
(* The conductor and raft *)

\* A step of the conductor that leaves its node and its sequencer alone.
LEMMA ConductorStep ==
  ASSUME IInv, NEW s \in Server, NEW c, ConductorOK(c),
         c.pc = "stopWait" => seq[s].active, Moves(s, c),
         node' = node, seq' = seq, published' = published,
         raft' \in RaftState, budget' \in Scenario
  PROVE  IInv'
<1>1. /\ NodeOK(node[s], s) /\ SequencerOK(seq[s], s) /\ JobOK(node[s].queue, seq[s])
      /\ published \subseteq L2Block
  BY Parts
<1>2. DOMAIN node = Server /\ DOMAIN seq = Server /\ DOMAIN con = Server  BY DEF IInv
<1>3. con'[s] = c /\ OthersKept(s)
  BY <1>2 DEF OthersKept, Moves
<1> QED  BY <1>1, <1>3, Frame

LEMMA TakeLeaderUpdateStep ==
  ASSUME IInv, NEW s \in Server, TakeLeaderUpdate(s)
  PROVE  IInv'
<1>1. /\ ConductorOK(con[s]) /\ (con[s].pc = "stopWait" => seq[s].active)
      /\ raft \in RaftState /\ budget \in Scenario
  BY Parts
<1> DEFINE l == raft.news[s] = "leader"
<1>2. /\ Moves(s, HandleLeaderUpdate(con[s], l)) /\ raft' = [raft EXCEPT !.news[s] = "none"]
      /\ node' = node /\ seq' = seq /\ published' = published /\ budget' = budget
      /\ con[s].pc = "loop"
  BY DEF TakeLeaderUpdate
<1>3. raft' \in RaftState
  BY <1>1, <1>2 DEF RaftState
<1>4. l \in BOOLEAN /\ "ok" \in Health  BY DEF Health
<1>5. /\ ConductorOK(HandleLeaderUpdate(con[s], l))
      /\ HandleLeaderUpdate(con[s], l).pc = con[s].pc
  BY <1>1, <1>4, ConductorMoves
<1> QED  BY <1>1, <1>2, <1>3, <1>5, ConductorStep

LEMMA TakeHealthUpdateStep ==
  ASSUME IInv, NEW s \in Server, TakeHealthUpdate(s)
  PROVE  IInv'
<1>1. /\ ConductorOK(con[s]) /\ raft \in RaftState /\ budget \in Scenario
  BY Parts
<1>2. /\ con[s].pc = "loop"
      /\ node' = node /\ seq' = seq /\ published' = published /\ raft' = raft
  BY DEF TakeHealthUpdate
<1>3. PICK h \in Health :
        /\ UNCHANGED budget \/ (budget.ill > 0 /\ budget' = [budget EXCEPT !.ill = @ - 1])
        /\ Moves(s, HandleHealthUpdate(con[s], h))
  BY DEF TakeHealthUpdate
<1>4. budget' \in Scenario
  BY <1>1, <1>3 DEF Scenario
<1>5. /\ ConductorOK(HandleHealthUpdate(con[s], h))
      /\ HandleHealthUpdate(con[s], h).pc = con[s].pc
  BY <1>1, ConductorMoves
<1> QED  BY <1>1, <1>2, <1>3, <1>4, <1>5, ConductorStep

LEMMA TakeActionStep ==
  ASSUME IInv, NEW s \in Server, TakeAction(s)
  PROVE  IInv'
<1>1. /\ ConductorOK(con[s]) /\ raft \in RaftState /\ budget \in Scenario
  BY Parts
<1>2. /\ con[s].pc = "loop" /\ Moves(s, Action(con[s], NoBlock))
      /\ node' = node /\ seq' = seq /\ published' = published /\ raft' = raft
      /\ budget' = budget
  BY DEF TakeAction
<1>3. ConductorOK(Action(con[s], NoBlock)) /\ Action(con[s], NoBlock).pc # "stopWait"
  BY <1>1, <1>2, ActionType
<1> QED  BY <1>1, <1>2, <1>3, ConductorStep

LEMMA ReadConsensusStep ==
  ASSUME IInv, NEW s \in Server, ReadConsensus(s)
  PROVE  IInv'
<1> DEFINE d == [con[s] EXCEPT !.pc = "compare", !.cons = raft.head]
           f == StartFailed(con[s], NoBlock)
           c == IF raft.leader = s THEN d ELSE f
<1>1. /\ ConductorOK(con[s]) /\ raft \in RaftState /\ budget \in Scenario
  BY Parts
<1>2. /\ Moves(s, c)
      /\ node' = node /\ seq' = seq /\ published' = published /\ raft' = raft
      /\ budget' = budget
  BY DEF ReadConsensus
<1>3. raft.head \in L2Block /\ raft.head # NoBlock
  BY <1>1, ChainsAssumption DEF RaftState
<1>4. ConductorOK(d) /\ d.pc # "stopWait"
  BY <1>1, <1>3 DEF ConductorOK, ConductorState, Place, L2Ref
<1>5. ConductorOK(f) /\ f.pc # "stopWait"
  <2>1. "ok" \in Health  BY DEF Health
  <2> QED  BY <1>1, <2>1, ConductorMoves
<1> HIDE DEF d, f
<1>6. ConductorOK(c) /\ c.pc # "stopWait"
  BY <1>4, <1>5
<1> HIDE DEF c
<1> QED  BY <1>1, <1>2, <1>6, ConductorStep

\* The places of startSequencer: the head in hand stays.
LEMMA StartGoesOn ==
  ASSUME NEW c, ConductorOK(c), c.pc \in {"compare", "post", "leading", "start"},
         NEW pc \in {"compare", "post", "leading", "start"}
  PROVE  ConductorOK([c EXCEPT !.pc = pc]) /\ [c EXCEPT !.pc = pc].pc # "stopWait"
BY DEF ConductorOK, ConductorState, Place

LEMMA CompareUnsafeHeadStep ==
  ASSUME IInv, NEW s \in Server, CompareUnsafeHead(s)
  PROVE  IInv'
<1> DEFINE d(pc) == [con[s] EXCEPT !.pc = pc]
           f == StartFailed(con[s], NoBlock)
<1>1. /\ ConductorOK(con[s]) /\ raft \in RaftState /\ budget \in Scenario
  BY Parts
<1>2. /\ con[s].pc = "compare"
      /\ node' = node /\ seq' = seq /\ published' = published /\ raft' = raft
  BY DEF CompareUnsafeHead
<1>3. ConductorOK(f) /\ f.pc # "stopWait"
  <2>1. "ok" \in Health  BY DEF Health
  <2> QED  BY <1>1, <2>1, ConductorMoves
<1>4. /\ ConductorOK(d("leading")) /\ d("leading").pc # "stopWait"
      /\ ConductorOK(d("post")) /\ d("post").pc # "stopWait"
  BY <1>1, <1>2, StartGoesOn
<1>5. \E up \in BOOLEAN :
        /\ Call(up)
        /\ Moves(s, CASE up /\ con[s].cons = node[s].el.head -> d("leading")
                      [] up /\ Number[con[s].cons] = Number[node[s].el.head] + 1 -> d("post")
                      [] OTHER -> f)
  BY DEF CompareUnsafeHead
<1> HIDE DEF d, f
<1>6. /\ \E up \in BOOLEAN : Call(up)
      /\ \E c \in {d("leading"), d("post"), f} : Moves(s, c)
  BY <1>5
<1>7. budget' \in Scenario  BY <1>1, <1>6, Budgets
<1>8. PICK c \in {d("leading"), d("post"), f} : Moves(s, c)
  BY <1>6
<1>9. ConductorOK(c) /\ c.pc # "stopWait"
  BY <1>3, <1>4
<1> QED  BY <1>1, <1>2, <1>7, <1>8, <1>9, ConductorStep

LEMMA PostUnsafePayloadStep ==
  ASSUME IInv, NEW s \in Server, PostUnsafePayload(s)
  PROVE  IInv'
<1> DEFINE d == [con[s] EXCEPT !.pc = "leading"]
           f == StartFailed(con[s], NoBlock)
<1>1. /\ ConductorOK(con[s]) /\ raft \in RaftState /\ budget \in Scenario
      /\ SequencerOK(seq[s], s) /\ published \subseteq L2Block
  BY Parts
<1>2. /\ con[s].pc = "post" /\ seq' = seq /\ published' = published /\ raft' = raft
  BY DEF PostUnsafePayload
<1>3. ConductorOK(f) /\ f.pc # "stopWait"
  <2>1. "ok" \in Health  BY DEF Health
  <2> QED  BY <1>1, <2>1, ConductorMoves
<1>4. ConductorOK(d) /\ d.pc # "stopWait"
  BY <1>1, <1>2, StartGoesOn
<1>5. CASE AddUnsafePayload(s, con[s].cons) /\ Moves(s, d) /\ UNCHANGED budget
  <2>1. con[s].cons \in L2Block
    BY <1>1, <1>2 DEF ConductorOK, ConductorState, L2Ref
  <2>2. /\ DOMAIN node' = Server /\ \A t \in Server \ {s} : node'[t] = node[t]
        /\ NodeOK(node'[s], s) /\ JobOK(node'[s].queue, seq[s])
    BY <2>1, <1>5, PayloadQueued
  <2> HIDE DEF d
  <2>3. DOMAIN seq = Server /\ DOMAIN con = Server  BY DEF IInv
  <2>4. con'[s] = d /\ OthersKept(s)
    BY <2>2, <2>3, <1>2, <1>5 DEF OthersKept, Moves
  <2> QED  BY <2>2, <2>4, <1>1, <1>2, <1>4, <1>5, Frame
<1>6. CASE Call(FALSE) /\ Moves(s, f) /\ UNCHANGED node
  <2>1. budget' \in Scenario  BY <1>1, <1>6, Budgets
  <2> HIDE DEF f
  <2> QED  BY <2>1, <1>1, <1>2, <1>3, <1>6, ConductorStep
<1> QED  BY <1>5, <1>6 DEF PostUnsafePayload

LEMMA CheckLeadingStep ==
  ASSUME IInv, NEW s \in Server, CheckLeading(s)
  PROVE  IInv'
<1> DEFINE d == [con[s] EXCEPT !.pc = "start"]
           f == StartFailed(con[s], NoBlock)
           c == IF s \in raft.belief THEN d ELSE f
<1>1. /\ ConductorOK(con[s]) /\ raft \in RaftState /\ budget \in Scenario
  BY Parts
<1>2. /\ con[s].pc = "leading" /\ Moves(s, c)
      /\ node' = node /\ seq' = seq /\ published' = published /\ raft' = raft
      /\ budget' = budget
  BY DEF CheckLeading
<1>3. ConductorOK(d) /\ d.pc # "stopWait"
  BY <1>1, <1>2, StartGoesOn
<1>4. ConductorOK(f) /\ f.pc # "stopWait"
  <2>1. "ok" \in Health  BY DEF Health
  <2> QED  BY <1>1, <2>1, ConductorMoves
<1> HIDE DEF d, f
<1>5. ConductorOK(c) /\ c.pc # "stopWait"
  BY <1>3, <1>4
<1> HIDE DEF c
<1> QED  BY <1>1, <1>2, <1>5, ConductorStep

LEMMA StartSequencerStep ==
  ASSUME IInv, NEW s \in Server, StartSequencer(s)
  PROVE  IInv'
<1> DEFINE refused == StartRefused(seq[s], con[s].cons)
           f == StartFailed(con[s], NoBlock)
           g == StartSucceeded(con[s], NoBlock)
<1>1. /\ ConductorOK(con[s]) /\ raft \in RaftState /\ budget \in Scenario
      /\ NodeOK(node[s], s) /\ SequencerOK(seq[s], s) /\ JobOK(node[s].queue, seq[s])
      /\ published \subseteq L2Block
  BY Parts
<1>2. /\ node' = node /\ published' = published /\ raft' = raft
      /\ seq' = seq \/ seq' = [seq EXCEPT ![s] = ForceStart(seq[s])]
  BY DEF StartSequencer
<1>3. /\ ConductorOK(f) /\ f.pc # "stopWait" /\ ConductorOK(g) /\ g.pc # "stopWait"
  <2>1. "ok" \in Health  BY DEF Health
  <2> QED  BY <1>1, <2>1, ConductorMoves
<1>4. /\ Moves(s, f) \/ Moves(s, g)
      /\ UNCHANGED budget \/ Call(FALSE)
  BY DEF StartSequencer
<1>5. budget' \in Scenario  BY <1>1, <1>4, Budgets
<1>6. SequencerOK(ForceStart(seq[s]), s) /\ ForceStart(seq[s]).active
  BY <1>1, StartStopType
<1> HIDE DEF f, g
<1>7. DOMAIN node = Server /\ DOMAIN seq = Server /\ DOMAIN con = Server  BY DEF IInv
<1>8. con'[s] \in {f, g} /\ OthersKept(s)
  BY <1>2, <1>4, <1>7 DEF OthersKept, Moves
<1>9. seq'[s] \in {seq[s], ForceStart(seq[s])}
  BY <1>2, <1>7
<1>10. SequencerOK(seq'[s], s) /\ JobOK(node'[s].queue, seq'[s])
  BY <1>1, <1>2, <1>6, <1>9 DEF JobOK
<1> QED  BY <1>1, <1>2, <1>3, <1>5, <1>8, <1>10, Frame

\* A stop finds no commit under way, and leaves no job in hand.
LEMMA StopSequencerStep ==
  ASSUME IInv, NEW s \in Server, StopSequencer(s)
  PROVE  IInv'
<1> DEFINE behind == seq[s].active /\ ~HeadIsSealed(seq[s])
           d == [con[s] EXCEPT !.pc = "stopWait"]
           f == StopReturned(con[s], TRUE, NoBlock)
<1>1. /\ ConductorOK(con[s]) /\ raft \in RaftState /\ budget \in Scenario
      /\ NodeOK(node[s], s) /\ SequencerOK(seq[s], s) /\ JobOK(node[s].queue, seq[s])
      /\ published \subseteq L2Block
  BY Parts
<1>2. /\ con[s].pc = "stop" /\ ~Next1(s, "Committed")
      /\ node' = node /\ published' = published /\ raft' = raft
  BY DEF StopSequencer, Unlocked
<1>u. PICK up \in {TRUE} \cup {~behind} :
        /\ Call(up)
        /\ Moves(s, IF behind /\ up /\ s \in raft.belief THEN d ELSE f)
        /\ seq' = IF (behind /\ up /\ s \in raft.belief) \/ ~seq[s].active THEN seq
                  ELSE [seq EXCEPT ![s] = Stop(seq[s])]
  BY DEF StopSequencer
<1> DEFINE wait == behind /\ up /\ s \in raft.belief
<1>v. budget' \in Scenario  BY <1>1, <1>u, Budgets
<1>3. ConductorOK(d) /\ d.pc = "stopWait"
  BY <1>1, <1>2 DEF ConductorOK, ConductorState, Place
<1>4. ConductorOK(f) /\ f.pc # "stopWait"
  BY <1>1, <1>2, StopReturnedType
<1>5. SequencerOK(Stop(seq[s]), s) /\ Stop(seq[s]).latest.info = NoBlock
  BY <1>1, StartStopType
<1> HIDE DEF d, f
<1>6. DOMAIN node = Server /\ DOMAIN seq = Server /\ DOMAIN con = Server  BY DEF IInv
<1>7. OthersKept(s)
  BY <1>2, <1>u, <1>6 DEF OthersKept, Moves
<1>8. CASE wait
  <2>1. con'[s] = d /\ seq'[s] = seq[s] /\ seq[s].active
    BY <1>u, <1>6, <1>8 DEF Moves
  <2> QED  BY <2>1, <1>1, <1>2, <1>3, <1>7, <1>v, Frame
<1>9. CASE ~wait
  <2>1. con'[s] = f /\ seq'[s] \in {seq[s], Stop(seq[s])}
    BY <1>u, <1>6, <1>9 DEF Moves
  <2>2. JobOK(node[s].queue, Stop(seq[s]))
    BY <1>2, <1>5 DEF JobOK, Next1
  <2> QED  BY <2>1, <2>2, <1>1, <1>2, <1>4, <1>5, <1>7, <1>v, Frame
<1> QED  BY <1>8, <1>9

LEMMA StopTimeoutStep ==
  ASSUME IInv, NEW s \in Server, StopTimeout(s)
  PROVE  IInv'
<1>1. /\ ConductorOK(con[s]) /\ raft \in RaftState /\ budget \in Scenario
  BY Parts
<1>2. /\ con[s].pc \in {"stop", "stopWait"} /\ Moves(s, StopReturned(con[s], FALSE, NoBlock))
      /\ node' = node /\ seq' = seq /\ published' = published /\ raft' = raft
      /\ budget' = budget
  BY DEF StopTimeout
<1>3. /\ ConductorOK(StopReturned(con[s], FALSE, NoBlock))
      /\ StopReturned(con[s], FALSE, NoBlock).pc # "stopWait"
  BY <1>1, <1>2, StopReturnedType
<1> QED  BY <1>1, <1>2, <1>3, ConductorStep

LEMMA TransferLeaderStep ==
  ASSUME IInv, NEW s \in Server, TransferLeader(s)
  PROVE  IInv'
<1>1. /\ ConductorOK(con[s]) /\ raft \in RaftState /\ budget \in Scenario
  BY Parts
<1>2. node' = node /\ seq' = seq /\ published' = published
  BY DEF TransferLeader
<1> DEFINE moved(t) ==
             [raft EXCEPT !.leader = t, !.belief = (@ \ {s}) \cup {t},
                          !.news[s] = "follower", !.news[t] = "leader"]
<1>3. \A t \in Server : moved(t) \in RaftState
  BY <1>1 DEF RaftState
<1>4. \A ok \in BOOLEAN : /\ ConductorOK(TransferReturned(con[s], ok, NoBlock))
                          /\ TransferReturned(con[s], ok, NoBlock).pc # "stopWait"
  <2>1. "ok" \in Health  BY DEF Health
  <2> QED  BY <1>1, <2>1, ConductorMoves
<1>5. \E ok \in BOOLEAN :
        /\ Moves(s, TransferReturned(con[s], ok, NoBlock))
        /\ UNCHANGED raft \/ \E t \in Server : raft' = moved(t)
        /\ UNCHANGED budget \/ Answered(ok)
  BY <1>1 DEF TransferLeader, RaftState
<1>6. PICK ok \in BOOLEAN :
        /\ Moves(s, TransferReturned(con[s], ok, NoBlock))
        /\ UNCHANGED raft \/ \E t \in Server : raft' = moved(t)
        /\ UNCHANGED budget \/ Answered(ok)
  BY <1>5
<1> HIDE DEF moved
<1>7. raft' \in RaftState  BY <1>1, <1>3, <1>6
<1>8. budget' \in Scenario  BY <1>1, <1>6, Budgets
<1> QED  BY <1>2, <1>4, <1>6, <1>7, <1>8, ConductorStep

LEMMA CallsStep ==
  ASSUME IInv, NEW s \in Server, Calls(s)
  PROVE  IInv'
BY ReadConsensusStep, CompareUnsafeHeadStep, PostUnsafePayloadStep, CheckLeadingStep,
   StartSequencerStep, StopSequencerStep, StopTimeoutStep, TransferLeaderStep DEF Calls

LEMMA RaftStep ==
  ASSUME IInv, NEW s \in Server, Elect(s) \/ StepDown(s)
  PROVE  IInv'
<1>1. /\ ConductorOK(con[s]) /\ raft \in RaftState /\ budget \in Scenario
      /\ NodeOK(node[s], s) /\ SequencerOK(seq[s], s) /\ JobOK(node[s].queue, seq[s])
      /\ published \subseteq L2Block /\ (con[s].pc = "stopWait" => seq[s].active)
  BY Parts
<1>2. node' = node /\ seq' = seq /\ con' = con /\ published' = published
  BY DEF Elect, StepDown
<1>3. raft' \in RaftState
  <2>1. CASE Elect(s)
    <3>1. raft' = [raft EXCEPT !.leader = s, !.belief = @ \cup {s}, !.news[s] = "leader"]
      BY <2>1 DEF Elect
    <3> QED  BY <3>1, <1>1 DEF RaftState
  <2>2. CASE StepDown(s)
    <3>1. raft' = [raft EXCEPT !.belief = @ \ {s}, !.news[s] = "follower"]
      BY <2>2 DEF StepDown
    <3> QED  BY <3>1, <1>1 DEF RaftState
  <2> QED  BY <2>1, <2>2
<1>4. budget' \in Scenario
  BY <1>1 DEF Elect, StepDown, Scenario
<1>5. OthersKept(s)
  BY <1>2 DEF OthersKept, IInv
<1> QED  BY <1>1, <1>2, <1>3, <1>4, <1>5, Frame

LEMMA Controller0Type ==
  ASSUME NEW b \in L2Block
  PROVE  Controller0(b) \in KnownController
BY ChainsAssumption DEF Controller0, NewController, KnownController

LEMMA RestartNodeStep ==
  ASSUME IInv, NEW s \in Server, RestartNode(s)
  PROVE  IInv'
<1> DEFINE e == Controller0(node[s].el.head)
           m == RequestForkchoiceUpdate(e)
           n1 == [node[s] EXCEPT !.eng = e, !.payloads = {}, !.queue = <<m>>]
           f == StopReturned(con[s], FALSE, NoBlock)
<1>1. /\ ConductorOK(con[s]) /\ raft \in RaftState /\ budget \in Scenario
      /\ NodeOK(node[s], s) /\ SequencerOK(seq[s], s) /\ node[s].el \in Engine
      /\ published \subseteq L2Block
  BY Parts
<1>2. /\ budget.restarts > 0 /\ budget' = [budget EXCEPT !.restarts = @ - 1]
      /\ node' = [node EXCEPT ![s].eng = e, ![s].payloads = {}, ![s].queue = <<m>>]
      /\ seq' = [seq EXCEPT ![s] = NewSequencer]
      /\ con' = IF con[s].pc = "stopWait" THEN [con EXCEPT ![s] = f] ELSE con
      /\ raft' = raft /\ published' = published
  BY DEF RestartNode
<1>3. budget' \in Scenario
  BY <1>1, <1>2 DEF Scenario
<1>4. e \in KnownController
  <2>1. node[s].el.head \in L2Block  BY <1>1 DEF Engine
  <2> QED  BY <2>1, Controller0Type
<1> HIDE DEF e
<1>5. m \in PlainMsg
  BY <1>4 DEF RequestForkchoiceUpdate, ForkchoiceUpdate, PlainMsg, KnownController
<1>6. m \in Msg(s) /\ ~IsJob(m) /\ m.t # "Committed"
  BY <1>5, MessageKinds DEF Msg
<1> HIDE DEF m
<1>7. <<m>> \in Seq(Msg(s)) /\ DOMAIN <<m>> = {1} /\ <<m>>[1] = m /\ Head(<<m>>) = m
  BY <1>6
<1>8. QueueOK(<<m>>, s) /\ ~HasJob(<<m>>)
  BY <1>6, <1>7 DEF QueueOK, OneJob, CommitFirst, HasJob
<1>9. NodeOK(n1, s) /\ n1.queue = <<m>>
  BY <1>1, <1>4, <1>7, <1>8 DEF NodeOK
<1>10. SequencerOK(NewSequencer, s)
  BY <1>1, StartStopType
<1>11. JobOK(<<m>>, NewSequencer)
  BY <1>6, <1>7, <1>8 DEF JobOK
<1>12. DOMAIN node = Server /\ DOMAIN seq = Server /\ DOMAIN con = Server  BY DEF IInv
<1>13. node'[s] = n1 /\ seq'[s] = NewSequencer /\ OthersKept(s)
  BY <1>2, <1>12 DEF OthersKept
<1>14. ConductorOK(con'[s]) /\ con'[s].pc # "stopWait"
  <2>1. CASE con[s].pc = "stopWait"
    <3>1. ConductorOK(f) /\ f.pc # "stopWait"  BY <2>1, <1>1, StopReturnedType
    <3> QED  BY <3>1, <2>1, <1>2, <1>12
  <2>2. CASE con[s].pc # "stopWait"
    BY <2>2, <1>1, <1>2
  <2> QED  BY <2>1, <2>2
<1> HIDE DEF n1
<1> QED  BY <1>1, <1>2, <1>3, <1>9, <1>10, <1>11, <1>13, <1>14, Frame

-----------------------------------------------------------------------------
(* The theorems *)

LEMMA InitIInv == Init => IInv
<1> SUFFICES ASSUME Init PROVE IInv  OBVIOUS
<1>1. /\ Genesis \in L2Block /\ NoBlock \in L2Ref /\ Genesis \in L2Ref /\ Leader0 \in Server
      /\ Scenarios \subseteq Scenario
  BY ChainsAssumption, ClusterAssumption DEF L2Ref
<1>2. /\ DOMAIN node = Server /\ DOMAIN seq = Server /\ DOMAIN con = Server
      /\ budget \in Scenario /\ published = {}
  BY <1>1 DEF Init
<1>3. raft \in RaftState
  BY <1>1 DEF Init, RaftState
<1>4. ASSUME NEW s \in Server PROVE ServerOK(node[s], seq[s], con[s], s)
  <2> DEFINE a == s = Leader0
             q == [NewSequencer EXCEPT !.head = Genesis, !.active = a, !.due = a]
  <2>1. node[s] = [ eng |-> Controller0(Genesis), payloads |-> {}, queue |-> <<>>,
                    el |-> [head |-> Genesis, safe |-> Genesis, finalized |-> Genesis] ]
    BY DEF Init
  <2>2. QueueOK(<<>>, s) /\ ~HasJob(<<>>)
    BY DEF QueueOK, OneJob, CommitFirst, HasJob
  <2>3. Controller0(Genesis) \in KnownController  BY <1>1, Controller0Type
  <2>4. NodeOK(node[s], s) /\ node[s].queue = <<>>
    BY <2>1, <2>2, <2>3, <1>1 DEF NodeOK, Engine
  <2>5. seq[s] = q  BY DEF Init
  <2>6. q \in SequencerState /\ q.due = q.active /\ q.latest = NoBuild
    BY <1>1, NoBuildType DEF NewSequencer, SequencerState
  <2>7. SequencerOK(seq[s], s) /\ JobOK(node[s].queue, seq[s])
    BY <2>2, <2>4, <2>5, <2>6, NoBuildType DEF SequencerOK, JobOK
  <2>8. con[s] = NewConductor(a, a, NoBlock)  BY DEF Init
  <2>9. ConductorOK(con[s]) /\ con[s].pc = "loop"
    BY <2>8, <1>1 DEF NewConductor, NewStatus, ConductorOK, ConductorState, Status, Health, Place
  <2> QED  BY <2>4, <2>7, <2>9 DEF ServerOK
<1> QED  BY <1>2, <1>3, <1>4 DEF IInv

LEMMA NextIInv == IInv /\ [Next]_vars => IInv'
<1> SUFFICES ASSUME IInv, [Next]_vars PROVE IInv'  OBVIOUS
<1>1. CASE UNCHANGED vars
  BY <1>1 DEF vars, IInv
<1>2. ASSUME NEW s \in Server,
             \/ FireSequencerAction(s) \/ Handle(s) \/ Publish(s) \/ ReceivePayload(s) \/ SyncStep(s)
             \/ TakeLeaderUpdate(s) \/ TakeHealthUpdate(s) \/ TakeAction(s) \/ Calls(s)
             \/ Elect(s) \/ StepDown(s) \/ RestartNode(s)
      PROVE  IInv'
  BY <1>2, FireSequencerActionStep, HandleStep, PublishStep, ReceivePayloadStep, SyncStepStep,
     TakeLeaderUpdateStep, TakeHealthUpdateStep, TakeActionStep, CallsStep, RaftStep,
     RestartNodeStep
<1> QED  BY <1>1, <1>2 DEF Next

\* The inductive invariant: a sequencer's queue holds at most one event of a building job,
\* and a sequencer that was stopped has no job in hand while it does.
THEOREM ClusterInvariant == Spec => []IInv
BY InitIInv, NextIInv, PTL DEF Spec

\* The state of a cluster of any size keeps the shape the code gives it: a conductor waits
\* for a stop only while its sequencer runs, and has a consensus head in hand exactly
\* while it starts one (OpConductor.action, Sequencer.Stop).
THEOREM ClusterTypeCorrect == Spec => []TypeOK
<1>1. ASSUME IInv PROVE TypeOK
  <2>1. KnownController \subseteq Controller
    BY DEF KnownController, Controller, L2Ref
  <2>2. \A s \in Server :
          /\ node[s].eng \in Controller /\ node[s].el \in Engine
          /\ node[s].payloads \subseteq L2Block
          /\ seq[s] \in SequencerState /\ con[s] \in ConductorState
          /\ (con[s].pc = "stopWait" => seq[s].active)
          /\ (con[s].cons # NoBlock <=> con[s].pc \in {"compare", "post", "leading", "start"})
    BY <1>1, <2>1, Parts DEF SequencerOK, ConductorOK
  <2>3. raft \in RaftState /\ published \subseteq L2Block
    BY <1>1 DEF IInv
  <2> QED  BY <2>2, <2>3 DEF TypeOK, ConductorState, RaftState
<1> QED  BY <1>1, ClusterInvariant, PTL

\* Only the sealing of a block commits one.
LEMMA OnlySealedCommits ==
  ASSUME [Next]_vars, raft'.log # raft.log, raft \in RaftState
  PROVE  \E s \in Server : HandleBuildSealed(s)
<1>1. CASE UNCHANGED vars
  BY <1>1 DEF vars
<1>2. CASE Next
  <2>1. PICK s \in Server :
          \/ FireSequencerAction(s) \/ Handle(s) \/ Publish(s) \/ ReceivePayload(s) \/ SyncStep(s)
          \/ TakeLeaderUpdate(s) \/ TakeHealthUpdate(s) \/ TakeAction(s) \/ Calls(s)
          \/ Elect(s) \/ StepDown(s) \/ RestartNode(s)
    BY <1>2, Zenon DEF Next
  <2>2. ~FireSequencerAction(s) /\ ~Publish(s) /\ ~ReceivePayload(s) /\ ~SyncStep(s)
    BY DEF FireSequencerAction, Publish, ReceivePayload, SyncStep
  <2>3. ~TakeLeaderUpdate(s) /\ ~TakeHealthUpdate(s) /\ ~TakeAction(s)
    BY DEF TakeLeaderUpdate, TakeHealthUpdate, TakeAction, RaftState
  <2>4. ~Elect(s) /\ ~StepDown(s) /\ ~RestartNode(s)
    BY DEF Elect, StepDown, RestartNode, RaftState
  <2>5. ~Calls(s)
    <3>1. ~ReadConsensus(s) /\ ~CompareUnsafeHead(s) /\ ~PostUnsafePayload(s) /\ ~CheckLeading(s)
      BY DEF ReadConsensus, CompareUnsafeHead, PostUnsafePayload, CheckLeading
    <3>2. ~StartSequencer(s) /\ ~StopSequencer(s) /\ ~StopTimeout(s) /\ ~TransferLeader(s)
      BY DEF StartSequencer, StopSequencer, StopTimeout, TransferLeader, RaftState
    <3> QED  BY <3>1, <3>2, Zenon DEF Calls
  <2>6. Handle(s) => HandleBuildSealed(s)
    <3>1. ~HandleSequencerAction(s) /\ ~HandleBuildStart(s) /\ ~HandleBuildStarted(s)
          /\ ~HandleBuildSeal(s)
      BY DEF HandleSequencerAction, HandleBuildStart, HandleBuildStarted, HandleBuildSeal
    <3>2. ~HandlePayloadSealFailed(s) /\ ~HandleCommitted(s) /\ ~HandlePayloadProcess(s)
          /\ ~HandlePayloadSuccess(s)
      BY DEF HandlePayloadSealFailed, HandleCommitted, HandlePayloadProcess,
         HandlePayloadSuccess
    <3>3. ~HandleUnsafeUpdate(s) /\ ~HandleEngineTemporaryError(s) /\ ~HandleForkchoiceUpdate(s)
      BY DEF HandleUnsafeUpdate, HandleEngineTemporaryError, HandleForkchoiceUpdate
    <3> QED  BY <3>1, <3>2, <3>3, Zenon DEF Handle
  <2> QED  BY <2>1, <2>2, <2>3, <2>4, <2>5, <2>6
<1> QED  BY <1>1, <1>2

\* The gossiper has nothing new to publish when r takes the place of q.
NothingNew(q, r) == r.gossiping \in {NoBlock, q.gossiping}

LEMMA HandlersHandNothingOver ==
  ASSUME NEW q \in SequencerState, NEW b \in L2Block, NEW e, NEW up \in BOOLEAN
  PROVE  /\ NothingNew(q, OnSequencerAction(q, e, up).seq)
         /\ NothingNew(q, OnBuildStarted(q, b)) /\ NothingNew(q, OnPayloadSealFailed(q, b))
         /\ NothingNew(q, OnPayloadSuccess(q, b)) /\ NothingNew(q, OnEngineTemporaryError(q))
         /\ NothingNew(q, OnForkchoiceUpdate(q, b)) /\ NothingNew(q, OnGossiped(q, up))
         /\ NothingNew(q, ForceStart(q)) /\ NothingNew(q, Stop(q))
         /\ NothingNew(q, NewSequencer)
<1>1. NothingNew(q, HandleInvalid(q))
  BY DEF NothingNew, HandleInvalid, SequencerState
<1>2. NothingNew(q, OnBuildStarted(q, b)) /\ NothingNew(q, OnPayloadSealFailed(q, b))
  BY <1>1 DEF NothingNew, OnBuildStarted, OnPayloadSealFailed, SequencerState
<1>3. NothingNew(q, StartBuildingBlock(q, e, up).seq)
  BY DEF NothingNew, StartBuildingBlock, SequencerState
<1>4. NothingNew(q, OnSequencerAction(q, e, up).seq)
  BY <1>3 DEF NothingNew, OnSequencerAction, SequencerState
<1>5. NothingNew(q, OnPayloadSuccess(q, b)) /\ NothingNew(q, OnEngineTemporaryError(q))
  BY DEF NothingNew, OnPayloadSuccess, OnEngineTemporaryError, SequencerState
<1>6. NothingNew(q, OnForkchoiceUpdate(q, b)) /\ NothingNew(q, OnGossiped(q, up))
  BY DEF NothingNew, OnForkchoiceUpdate, OnGossiped, SequencerState
<1>7. NothingNew(q, ForceStart(q)) /\ NothingNew(q, Stop(q)) /\ NothingNew(q, NewSequencer)
  BY DEF NothingNew, ForceStart, Stop, NewSequencer, SequencerState
<1> QED  BY <1>2, <1>4, <1>5, <1>6, <1>7

\* A step of s that leaves the sequencers alone, or changes that of s so.
LEMMA HandsNothingOver ==
  ASSUME IInv, NEW s \in Server, NEW r, NothingNew(seq[s], r),
         seq' = seq \/ seq' = [seq EXCEPT ![s] = r]
  PROVE  \A t \in Server : NothingNew(seq[t], seq'[t])
<1>1. DOMAIN seq = Server  BY DEF IInv
<1> QED  BY <1>1 DEF NothingNew

\* Only the end of a commit hands a block to the gossiper.
LEMMA OnlyCommittedHandsOver ==
  ASSUME IInv, [Next]_vars, NEW t \in Server, ~NothingNew(seq[t], seq'[t])
  PROVE  HandleCommitted(t)
<1>1. ASSUME seq' = seq PROVE FALSE
  BY <1>1 DEF NothingNew
<1>2. CASE UNCHANGED vars
  BY <1>1, <1>2 DEF vars
<1>3. CASE Next
  <2>1. PICK s \in Server :
          \/ FireSequencerAction(s) \/ Handle(s) \/ Publish(s) \/ ReceivePayload(s) \/ SyncStep(s)
          \/ TakeLeaderUpdate(s) \/ TakeHealthUpdate(s) \/ TakeAction(s) \/ Calls(s)
          \/ Elect(s) \/ StepDown(s) \/ RestartNode(s)
    BY <1>3, Zenon DEF Next
  <2>2. seq[s] \in SequencerState /\ QueueOK(node[s].queue, s)
    BY Parts DEF SequencerOK
  <2>3. ASSUME NEW r, NothingNew(seq[s], r), seq' = [seq EXCEPT ![s] = r]
        PROVE  FALSE
    BY <2>3, HandsNothingOver
  <2>4. \A b \in L2Block, up \in BOOLEAN :
          /\ NothingNew(seq[s], OnSequencerAction(seq[s], node[s].eng, up).seq)
          /\ NothingNew(seq[s], OnBuildStarted(seq[s], b))
          /\ NothingNew(seq[s], OnPayloadSealFailed(seq[s], b))
          /\ NothingNew(seq[s], OnPayloadSuccess(seq[s], b))
          /\ NothingNew(seq[s], OnEngineTemporaryError(seq[s]))
          /\ NothingNew(seq[s], OnForkchoiceUpdate(seq[s], b))
          /\ NothingNew(seq[s], OnGossiped(seq[s], up))
          /\ NothingNew(seq[s], ForceStart(seq[s])) /\ NothingNew(seq[s], Stop(seq[s]))
          /\ NothingNew(seq[s], NewSequencer)
    BY <2>2, HandlersHandNothingOver
  <2>5. Genesis \in L2Block  BY ChainsAssumption
  <2>6. CASE FireSequencerAction(s)
    <3>1. NothingNew(seq[s], [seq[s] EXCEPT !.due = FALSE])
      BY <2>2 DEF NothingNew, SequencerState
    <3> QED  BY <3>1, <2>3, <2>6 DEF FireSequencerAction
  <2>7. CASE Publish(s)
    BY <2>7, <2>3, <2>4, <2>5 DEF Publish
  <2>8. CASE RestartNode(s)
    BY <2>8, <2>3, <2>4, <2>5 DEF RestartNode
  <2>9. CASE \/ ReceivePayload(s) \/ SyncStep(s) \/ TakeLeaderUpdate(s) \/ TakeHealthUpdate(s)
             \/ TakeAction(s) \/ Elect(s) \/ StepDown(s)
    BY <2>9, <1>1 DEF ReceivePayload, SyncStep, TakeLeaderUpdate, TakeHealthUpdate, TakeAction,
       Elect, StepDown
  <2>10. CASE Calls(s)
    <3>1. CASE \/ ReadConsensus(s) \/ CompareUnsafeHead(s) \/ PostUnsafePayload(s)
               \/ CheckLeading(s) \/ StopTimeout(s) \/ TransferLeader(s)
      BY <3>1, <1>1 DEF ReadConsensus, CompareUnsafeHead, PostUnsafePayload, CheckLeading,
         StopTimeout, TransferLeader
    <3>2. CASE StartSequencer(s)
      BY <3>2, <1>1, <2>3, <2>4, <2>5 DEF StartSequencer
    <3>3. CASE StopSequencer(s)
      BY <3>3, <1>1, <2>3, <2>4, <2>5 DEF StopSequencer
    <3> QED  BY <2>10, <3>1, <3>2, <3>3, Zenon DEF Calls
  <2>11. CASE Handle(s)
    <3>1. CASE \/ HandleBuildStart(s) \/ HandleBuildSeal(s) \/ HandleBuildSealed(s)
               \/ HandlePayloadProcess(s) \/ HandleUnsafeUpdate(s)
      BY <3>1, <1>1 DEF HandleBuildStart, HandleBuildSeal, HandleBuildSealed,
         HandlePayloadProcess, HandleUnsafeUpdate
    <3>2. CASE HandleSequencerAction(s)
      BY <3>2, <2>3, <2>4, <2>5 DEF HandleSequencerAction
    <3>3. CASE HandleBuildStarted(s)
      <4>1. Ref(s) \in L2Block
        BY <3>3, <2>2, HeadCarries DEF HandleBuildStarted, Next1, Ref, OwnedTypes
      <4> QED  BY <4>1, <3>3, <2>3, <2>4 DEF HandleBuildStarted
    <3>4. CASE HandlePayloadSealFailed(s) \/ HandlePayloadSuccess(s)
      <4>1. Ref(s) \in L2Block
        BY <3>4, <2>2, HeadCarries DEF HandlePayloadSealFailed, HandlePayloadSuccess, Next1, Ref
      <4> QED  BY <4>1, <3>4, <2>3, <2>4 DEF HandlePayloadSealFailed, HandlePayloadSuccess
    <3>5. CASE HandleEngineTemporaryError(s)
      BY <3>5, <2>3, <2>4, <2>5 DEF HandleEngineTemporaryError
    <3>6. CASE HandleForkchoiceUpdate(s)
      <4>1. Head(node[s].queue).unsafe \in L2Block
        BY <3>6, <2>2, HeadCarries DEF HandleForkchoiceUpdate, Next1
      <4> QED  BY <4>1, <3>6, <2>3, <2>4 DEF HandleForkchoiceUpdate
    <3>7. CASE HandleCommitted(s)
      <4>1. s = t
        <5>1. DOMAIN seq = Server  BY DEF IInv
        <5> QED  BY <5>1, <3>7 DEF HandleCommitted, NothingNew
      <4> QED  BY <4>1, <3>7
    <3> QED  BY <2>11, <3>1, <3>2, <3>3, <3>4, <3>5, <3>6, <3>7, Zenon DEF Handle
  <2> QED  BY <2>1, <2>6, <2>7, <2>8, <2>9, <2>10, <2>11
<1> QED  BY <1>2, <1>3

\* However often leadership moves, calls fail and nodes restart, a block is committed, and
\* handed to the gossiper, only while the sequencer of the server that built it runs: a job
\* that was sealed before a stop, or started after it, leaves no block behind
\* (onBuildSealed, Sequencer.Stop).
THEOREM SequencedWhileRunning == Spec => SequencesOnlyWhileActive
<1> DEFINE Step ==
      /\ \A b \in raft'.log \ raft.log : seq[Builder[b]].active
      /\ \A s \in Server : seq'[s].gossiping \notin {NoBlock, seq[s].gossiping} =>
           seq[s].active
<1>1. ASSUME IInv, [Next]_vars, NEW b \in raft'.log \ raft.log
      PROVE  seq[Builder[b]].active
  <2>1. PICK s \in Server : HandleBuildSealed(s)
    BY <1>1, OnlySealedCommits DEF IInv
  <2>2. /\ node[s].queue # <<>> /\ Head(node[s].queue).t = "BuildSealed"
        /\ raft' = raft \/ (seq[s].latest.info = Ref(s) /\ Commit(Ref(s)))
    BY <2>1 DEF HandleBuildSealed, Next1
  <2>3. QueueOK(node[s].queue, s) /\ JobOK(node[s].queue, seq[s]) /\ raft \in RaftState
    BY <1>1, Parts
  <2>4. b = Ref(s) /\ seq[s].latest.info = b
    <3>1. raft' # raft  BY <1>1
    <3>2. raft'.log = raft.log \cup {Ref(s)}  BY <2>2, <2>3, <3>1 DEF Commit, RaftState
    <3>3. b \in raft'.log /\ b \notin raft.log  BY <1>1
    <3> QED  BY <2>2, <3>1, <3>2, <3>3
  <2>5. b \in L2Block /\ Builder[b] = s
    BY <2>2, <2>3, <2>4, HeadCarries DEF Ref, OwnedTypes
  <2>6. HasJob(node[s].queue)
    <3>1. IsJob(Head(node[s].queue))  BY <2>2 DEF IsJob, JobTypes, OwnedTypes
    <3> QED  BY <3>1, <2>2, <2>3, Taken
  <2>7. b # NoBlock  BY <2>5, ChainsAssumption
  <2> QED  BY <2>3, <2>4, <2>5, <2>6, <2>7 DEF JobOK
<1>2. ASSUME IInv, [Next]_vars, NEW s \in Server, ~NothingNew(seq[s], seq'[s])
      PROVE  seq[s].active
  <2>1. HandleCommitted(s)
    BY <1>2, OnlyCommittedHandsOver
  <2>2. JobOK(node[s].queue, seq[s])  BY <1>2, Parts
  <2> QED  BY <2>1, <2>2 DEF HandleCommitted, Next1, JobOK
<1>3. IInv /\ [Next]_vars => [Step]_vars
  BY <1>1, <1>2 DEF NothingNew
<1> QED  BY <1>3, ClusterInvariant, PTL DEF Spec, SequencesOnlyWhileActive
=============================================================================
