------------------------- MODULE TmuxDeliveryProofs -------------------------
(***************************************************************************)
(* For any messages, keys and bounds: an accepted message stays            *)
(* remembered; and if the terminal handles a paste before the Owner goes   *)
(* on without it, the delivery implements ReliableDelivery, whose own      *)
(* theorems come first.                                                    *)
(***************************************************************************)
EXTENDS TmuxDelivery, SequenceTheorems, FiniteSetTheorems, TLAPS

-----------------------------------------------------------------------------
(* What the promise means, for any messages and counters.                  *)

(* The counters and the sets of messages keep their types. *)
THEOREM PromiseIsTyped == Promise!Spec => []Promise!TypeOK
<1>1. Promise!Init => Promise!TypeOK
  BY DEF Promise!Init, Promise!TypeOK
<1>2. Promise!TypeOK /\ [Promise!Next]_(Promise!vars) => Promise!TypeOK'
  <2> SUFFICES ASSUME Promise!TypeOK, [Promise!Next]_(Promise!vars) PROVE Promise!TypeOK'
    OBVIOUS
  <2>1. CASE Promise!Take
    BY <2>1 DEF Promise!Take, Promise!TypeOK
  <2>2. CASE Promise!Excuse
    BY <2>2 DEF Promise!Excuse, Promise!TypeOK
  <2>3. ASSUME NEW m \in Messages, Promise!Tell(m) PROVE Promise!TypeOK'
    BY <2>3 DEF Promise!Tell, Promise!TypeOK
  <2>4. CASE UNCHANGED Promise!vars
    BY <2>4 DEF Promise!vars, Promise!TypeOK
  <2>5. QED BY <2>1, <2>2, <2>3, <2>4 DEF Promise!Next
<1>3. QED BY <1>1, <1>2, PTL DEF Promise!Spec

(* A message nobody excused is taken at most once. *)
THEOREM PromiseAtMostOnce == Promise!Spec => []Promise!TakenAtMostOnce
<1>1. Promise!Init => Promise!TakenAtMostOnce
  <2> SUFFICES ASSUME Promise!Init, NEW m \in Messages PROVE taken[m] <= 1
    BY DEF Promise!TakenAtMostOnce
  <2>1. taken[m] = 0
    BY DEF Promise!Init
  <2>2. QED BY <2>1
<1>2. Promise!TypeOK /\ Promise!TakenAtMostOnce /\ [Promise!Next]_(Promise!vars) => Promise!TakenAtMostOnce'
  <2> SUFFICES ASSUME Promise!TypeOK, Promise!TakenAtMostOnce, [Promise!Next]_(Promise!vars)
               PROVE  Promise!TakenAtMostOnce'
    OBVIOUS
  <2>1. CASE Promise!Take
    BY <2>1 DEF Promise!Take, Promise!TypeOK, Promise!TakenAtMostOnce
  <2>2. CASE Promise!Excuse
    BY <2>2 DEF Promise!Excuse, Promise!TypeOK, Promise!TakenAtMostOnce
  <2>3. ASSUME NEW m \in Messages, Promise!Tell(m) PROVE Promise!TakenAtMostOnce'
    BY <2>3 DEF Promise!Tell, Promise!TakenAtMostOnce
  <2>4. CASE UNCHANGED Promise!vars
    BY <2>4 DEF Promise!vars, Promise!TakenAtMostOnce
  <2>5. QED BY <2>1, <2>2, <2>3, <2>4 DEF Promise!Next
<1>3. QED BY <1>1, <1>2, PromiseIsTyped, PTL DEF Promise!Spec

(* A browser that reads "accepted" of a message that is neither excused    *)
(* nor accepted unseen reads the truth.                                    *)
THEOREM PromiseTellsTheTruth == Promise!Spec => []Promise!ToldWasTaken
<1>1. Promise!Init => Promise!ToldWasTaken
  BY DEF Promise!Init, Promise!ToldWasTaken
<1>2. Promise!TypeOK /\ Promise!ToldWasTaken /\ [Promise!Next]_(Promise!vars) => Promise!ToldWasTaken'
  <2> SUFFICES ASSUME Promise!TypeOK, Promise!ToldWasTaken, [Promise!Next]_(Promise!vars)
               PROVE  Promise!ToldWasTaken'
    OBVIOUS
  <2>1. CASE Promise!Take
    <3> SUFFICES ASSUME NEW m \in told \ ((excused \cup Alike) \cup unseen) PROVE taken'[m] > 0
      BY <2>1 DEF Promise!Take, Promise!ToldWasTaken
    <3>1. m \in Messages /\ taken[m] > 0
      BY DEF Promise!TypeOK, Promise!ToldWasTaken
    <3>2. taken[m] \in Nat /\ taken'[m] \in Nat /\ taken[m] <= taken'[m]
      BY <3>1, <2>1 DEF Promise!Take, Promise!TypeOK
    <3>3. QED BY <3>1, <3>2
  <2>2. CASE Promise!Excuse
    BY <2>2 DEF Promise!Excuse, Promise!ToldWasTaken
  <2>3. ASSUME NEW m \in Messages, Promise!Tell(m) PROVE Promise!ToldWasTaken'
    BY <2>3 DEF Promise!Tell, Promise!ToldWasTaken
  <2>4. CASE UNCHANGED Promise!vars
    BY <2>4 DEF Promise!vars, Promise!ToldWasTaken
  <2>5. QED BY <2>1, <2>2, <2>3, <2>4 DEF Promise!Next
<1>3. QED BY <1>1, <1>2, PromiseIsTyped, PTL DEF Promise!Spec

-----------------------------------------------------------------------------
(* Lemmas on the operators.                                                *)

(* A copy more in a composer. *)
LEMMA OccursAppend ==
    ASSUME NEW c \in Seq(Piece), NEW x \in Piece, NEW m
    PROVE  /\ Occurrences(Append(c, x), m) = Occurrences(c, m) + (IF x = m THEN 1 ELSE 0)
           /\ Occurrences(c, m) \in Nat
<1> DEFINE P == {i \in DOMAIN c : c[i] = m}
           Q == {i \in DOMAIN Append(c, x) : Append(c, x)[i] = m}
<1>1. Len(c) \in Nat /\ DOMAIN c = 1..Len(c) /\ DOMAIN Append(c, x) = 1..(Len(c) + 1)
  OBVIOUS
<1>2. IsFiniteSet(1..Len(c))
  BY <1>1, FS_Interval
<1>3. IsFiniteSet(P) /\ Cardinality(P) \in Nat
  BY <1>1, <1>2, FS_Subset, FS_CardinalityType
<1>4. Append(c, x)[Len(c) + 1] = x /\ \A i \in 1..Len(c) : Append(c, x)[i] = c[i]
  OBVIOUS
<1>5. Q = IF x = m THEN P \cup {Len(c) + 1} ELSE P
  BY <1>1, <1>4
<1>6. Len(c) + 1 \notin P
  BY <1>1
<1>7. Cardinality(Q) = Cardinality(P) + (IF x = m THEN 1 ELSE 0)
  <2> HIDE DEF P, Q
  <2>1. Cardinality(P \cup {Len(c) + 1}) = Cardinality(P) + 1
    BY <1>3, <1>6, FS_AddElement
  <2>2. QED BY <1>3, <1>5, <2>1
<1>8. QED BY <1>3, <1>7 DEF Occurrences

(* A copy that counts is there. *)
LEMMA OccursWhere ==
    ASSUME NEW c \in Seq(Piece), NEW m
    PROVE  /\ Occurrences(c, m) \in Nat
           /\ Occurrences(c, m) > 0 <=> \E i \in DOMAIN c : c[i] = m
           /\ Occurrences(<<>>, m) = 0
<1> DEFINE P == {i \in DOMAIN c : c[i] = m}
<1>1. DOMAIN c = 1..Len(c) /\ Len(c) \in Nat
  OBVIOUS
<1>2. IsFiniteSet(P)
  <2>1. IsFiniteSet(DOMAIN c)
    BY <1>1, FS_Interval
  <2>2. P \in SUBSET DOMAIN c
    OBVIOUS
  <2> HIDE DEF P
  <2>3. QED BY <2>1, <2>2, FS_Subset
<1>3. Cardinality(P) \in Nat /\ (Cardinality(P) = 0 <=> P = {})
  BY <1>2, FS_CardinalityType, FS_EmptySet
<1>4. {i \in DOMAIN <<>> : <<>>[i] = m} = {}
  OBVIOUS
<1>5. Occurrences(<<>>, m) = 0
  BY <1>4, FS_EmptySet DEF Occurrences
<1>6. QED BY <1>3, <1>5 DEF Occurrences

(* A queued follow-up that counts is there. *)
LEMMA QueuedWhere ==
    ASSUME queue \in Seq(Seq(Piece)), NEW text
    PROVE  /\ QueuedCount(text) \in Nat
           /\ QueuedCount(text) > 0 => \E i \in DOMAIN queue : Holds(queue[i], text)
<1> DEFINE P == {i \in DOMAIN queue : Holds(queue[i], text)}
<1>1. DOMAIN queue = 1..Len(queue) /\ Len(queue) \in Nat
  OBVIOUS
<1>2. IsFiniteSet(P)
  <2>1. IsFiniteSet(DOMAIN queue)
    BY <1>1, FS_Interval
  <2>2. P \in SUBSET DOMAIN queue
    OBVIOUS
  <2> HIDE DEF P
  <2>3. QED BY <2>1, <2>2, FS_Subset
<1>3. Cardinality(P) \in Nat /\ (Cardinality(P) = 0 <=> P = {})
  BY <1>2, FS_CardinalityType, FS_EmptySet
<1>4. QED BY <1>3 DEF QueuedCount

-----------------------------------------------------------------------------
(* Types.                                                                  *)

StoreTypes ==
    /\ memory \in [Ids -> Record \cup {None}]
    /\ disk \in [Ids -> Record \cup {None}]
    /\ told \subseteq Messages /\ unseen \subseteq Messages

KeysLeft == handler # None /\ handler.pc \notin {"wait", "record"} => handler.tries < MaxKeys

RequestTypes == handler \in Handler \cup {None} /\ KeysLeft

TerminalTypes ==
    /\ codex \in BOOLEAN /\ busy \in BOOLEAN
    /\ pty \in Seq(Input)
    /\ composer \in Seq(Piece)
    /\ queue \in Seq(Seq(Piece)) /\ starting \in Seq(Seq(Piece))
    /\ rollout \in Seq(Texts \cup {Human})
    /\ taken \in [Messages -> Nat]

Types == StoreTypes /\ RequestTypes /\ TerminalTypes /\ excused \subseteq Messages

(* The groups have all that is typed. *)
LEMMA TypesAreTyped == Types => TypeOK
BY DEF Types, StoreTypes, RequestTypes, TerminalTypes, TypeOK

(* A group of variables that does not change keeps its types. *)
LEMMA GroupsUnchanged ==
    /\ StoreTypes /\ UNCHANGED records => StoreTypes'
    /\ RequestTypes /\ UNCHANGED handler => RequestTypes'
    /\ TerminalTypes /\ UNCHANGED terminal => TerminalTypes'
<1>1. StoreTypes /\ UNCHANGED records => StoreTypes'
  BY DEF StoreTypes, records
<1>2. RequestTypes /\ UNCHANGED handler => RequestTypes'
  BY DEF RequestTypes, KeysLeft
<1>3. TerminalTypes /\ UNCHANGED terminal => TerminalTypes'
  BY DEF TerminalTypes, terminal
<1>4. QED BY <1>1, <1>2, <1>3

(* What is in the records and requests is what they are made of. *)
LEMMA Fields ==
    /\ \A r \in Record : r.text \in Texts /\ r.offset \in Nat /\ r.queued \in Nat /\ r # None
    /\ \A h \in Handler : /\ h.msg \in Messages /\ h.codex \in BOOLEAN /\ h.offset \in Nat /\ h.queued \in Nat
                          /\ h.tries \in 0..MaxKeys /\ h.seen \in Seq(Piece) /\ h # None
    /\ \A m \in Messages : m.id \in Ids /\ m.text \in Texts
<1>1. \A r \in Record : r.text \in Texts /\ r.offset \in Nat /\ r.queued \in Nat /\ r # None
  BY NamesAreApart DEF Record
<1>2. \A h \in Handler : h # None
  BY NamesAreApart
<1>3. \A h \in Handler : /\ h.msg \in Messages /\ h.codex \in BOOLEAN /\ h.offset \in Nat /\ h.queued \in Nat
                         /\ h.tries \in 0..MaxKeys /\ h.seen \in Seq(Piece)
  BY DEF Handler
<1>4. \A m \in Messages : m.id \in Ids /\ m.text \in Texts
  BY DEF Ids, Texts
<1>5. QED BY <1>1, <1>2, <1>3, <1>4

(* A record of a paste, and a receipt. *)
LEMMA RecordsAreRecords ==
    ASSUME NEW text \in Texts, NEW offset \in Nat, NEW queued \in Nat
    PROVE  Pasted(text, offset, queued) \in Record /\ Accepted(text) \in Record
BY DEF Pasted, Accepted, Record

(* What is written is what is found. *)
LEMMA RememberTypes ==
    ASSUME StoreTypes, NEW id \in Ids, NEW r \in Record, Remember(id, r)
    PROVE  /\ memory' \in [Ids -> Record \cup {None}] /\ disk' \in [Ids -> Record \cup {None}]
           /\ \A i \in Ids : disk'[i] = IF i = id THEN r ELSE disk[i]
           /\ \A i \in Ids : memory'[i] = IF i = id THEN r ELSE memory[i]
BY DEF StoreTypes, Remember

(* What is known of an id is a record of it. *)
LEMMA ExistingTypes ==
    ASSUME StoreTypes, NEW id \in Ids
    PROVE  Existing(id) \in Record \cup {None}
BY DEF StoreTypes, Existing

(* An accepted message leaves everything typed. *)
LEMMA AcceptTypes ==
    ASSUME StoreTypes, NEW m \in Messages, Accept(m), unseen' \in {unseen, unseen \cup {m}}
    PROVE  StoreTypes' /\ RequestTypes'
<1>1. Accepted(m.text) \in Record /\ m.id \in Ids
  BY RecordsAreRecords, Fields
<1>2. memory' \in [Ids -> Record \cup {None}] /\ disk' \in [Ids -> Record \cup {None}]
  BY <1>1, RememberTypes DEF Accept
<1>3. RequestTypes'
  BY DEF Accept, RequestTypes, KeysLeft
<1>4. QED BY <1>2, <1>3 DEF Accept, StoreTypes

(* A request that is over leaves the store as it was. *)
LEMMA FailTypes == StoreTypes /\ Fail => StoreTypes' /\ RequestTypes'
BY DEF Fail, StoreTypes, records, RequestTypes, KeysLeft

(* A new request is a request. *)
LEMMA NewHandlerTypes ==
    ASSUME codex \in BOOLEAN, NEW m \in Messages, NEW pc \in {"type", "paste", "recover", "key"},
           NEW offset \in Nat, NEW queued \in Nat, handler' = NewHandler(m, pc, offset, queued)
    PROVE  /\ RequestTypes' /\ handler' # None /\ handler' \in Handler
           /\ handler'.msg = m /\ handler'.pc = pc /\ handler'.codex = codex /\ handler'.seen = <<>>
<1>1. 0 \in 0..MaxKeys /\ 0 < MaxKeys
  BY BoundsAreNatural
<1>2. <<>> \in Seq(Piece)
  OBVIOUS
<1>3. handler' \in Handler
  BY <1>1, <1>2 DEF NewHandler, Handler
<1>4. handler'.tries = 0 /\ handler'.msg = m /\ handler'.pc = pc /\ handler'.codex = codex /\ handler'.seen = <<>>
  BY DEF NewHandler
<1>5. QED BY <1>1, <1>3, <1>4, Fields DEF RequestTypes, KeysLeft

(* A request that goes on, with keys left, is a request. *)
LEMMA GotoTypes ==
    ASSUME RequestTypes, handler # None,
           NEW pc \in {"type", "enter", "record", "paste", "confirm", "key", "wait", "recover", "search"},
           Goto(pc), pc \in {"wait", "record"} \/ handler.tries < MaxKeys
    PROVE  RequestTypes' /\ handler' # None /\ handler' \in Handler /\ handler' = [handler EXCEPT !.pc = pc]
<1>1. handler \in Handler
  BY DEF RequestTypes
<1>2. handler' = [handler EXCEPT !.pc = pc]
  BY DEF Goto
<1>3. handler' \in Handler /\ handler'.pc = pc /\ handler'.tries = handler.tries
  BY <1>1, <1>2 DEF Handler
<1>4. QED BY <1>2, <1>3, Fields DEF RequestTypes, KeysLeft

(* Input is added to what the terminal has to handle. *)
LEMMA InputTypes ==
    ASSUME TerminalTypes, NEW input \in Input, Type(input), UNCHANGED <<codex, busy, composer, queue, starting, rollout, taken>>
    PROVE  TerminalTypes'
BY DEF TerminalTypes, Type

(* What is typed. *)
LEMMA InputsAreInput ==
    /\ \A m \in Messages : Text(m) \in Input /\ Text(m).kind = "text"
    /\ Key("Enter") \in Input /\ Key("Tab") \in Input
    /\ Key("Enter").kind = "Enter" /\ Key("Tab").kind = "Tab"
BY DEF Text, Key, Input, Piece

(* A request that arrives. *)
LEMMA RequestsTyped ==
    ASSUME Types, NEW m \in Messages, Request(m)
    PROVE  Types'
<1> USE DEF Types
<1>1. TerminalTypes' /\ excused' = excused
  BY GroupsUnchanged DEF Request, RefusesReusedId, AnswersDuplicate, StartsShell, RefusesDraft, StartsPaste, Continues, Arrives
<1>2. codex \in BOOLEAN /\ Len(rollout) \in Nat
  BY DEF TerminalTypes
<1>3. m.id \in Ids /\ Existing(m.id) \in Record \cup {None}
  BY Fields, ExistingTypes
<1>4. CASE RefusesReusedId(m)
  BY <1>1, <1>3, <1>4, GroupsUnchanged DEF RefusesReusedId, StoreTypes
<1>5. CASE AnswersDuplicate(m)
  BY <1>1, <1>5, AcceptTypes DEF AnswersDuplicate, AcceptSeen
<1>6. CASE StartsShell(m)
  <2>1. RequestTypes'
    BY <1>2, <1>6, NewHandlerTypes DEF StartsShell
  <2>2. QED BY <1>1, <1>6, <2>1, GroupsUnchanged DEF StartsShell
<1>7. CASE RefusesDraft(m)
  BY <1>1, <1>7, GroupsUnchanged DEF RefusesDraft
<1>8. CASE StartsPaste(m)
  <2>1. RequestTypes'
    BY <1>2, <1>8, NewHandlerTypes DEF StartsPaste
  <2>2. QED BY <1>1, <1>8, <2>1, GroupsUnchanged DEF StartsPaste
<1>9. CASE Continues(m)
  <2>1. Existing(m.id) \in Record
    BY <1>3, <1>9 DEF Continues, Unconfirmed, Known
  <2>2. RequestTypes'
    <3>1. Existing(m.id).offset \in Nat /\ Existing(m.id).queued \in Nat
      BY <2>1, Fields
    <3>2. CASE codex
      <4>1. handler' = NewHandler(m, "recover", Existing(m.id).offset, Existing(m.id).queued)
        BY <1>9, <3>2 DEF Continues
      <4>2. QED BY <1>2, <3>1, <4>1, NewHandlerTypes
    <3>3. CASE ~codex
      <4>1. handler' = NewHandler(m, "key", Existing(m.id).offset, Existing(m.id).queued)
        BY <1>9, <3>3 DEF Continues
      <4>2. QED BY <1>2, <3>1, <4>1, NewHandlerTypes
    <3>4. QED BY <3>2, <3>3
  <2>3. StoreTypes'
    BY <1>3, <1>9, <2>1 DEF Continues, StoreTypes
  <2>4. QED BY <1>1, <2>2, <2>3
<1>10. QED BY <1>4, <1>5, <1>6, <1>7, <1>8, <1>9 DEF Request

(* The request that pastes remembers what the composer showed. *)
LEMMA PasteTypes ==
    ASSUME RequestTypes, TerminalTypes, Pastes
    PROVE  /\ handler # None /\ handler \in Handler /\ handler.pc = "paste" /\ handler.msg \in Messages
           /\ handler' # None /\ handler' \in Handler /\ handler'.pc = "confirm" /\ handler'.msg = handler.msg
           /\ handler'.codex = handler.codex /\ handler'.seen = composer /\ handler'.offset = handler.offset
           /\ handler'.tries = handler.tries /\ handler'.queued \in Nat
<1>1. handler # None /\ handler \in Handler /\ handler.pc = "paste"
  BY DEF Pastes, At, RequestTypes
<1>2. QueuedCount(handler.msg.text) \in Nat /\ composer \in Seq(Piece)
  BY QueuedWhere DEF TerminalTypes
<1>3. PICK n \in Nat : handler' = [handler EXCEPT !.pc = "confirm", !.seen = composer, !.queued = n]
  BY <1>2 DEF Pastes
<1>4. /\ handler' \in Handler /\ handler'.pc = "confirm" /\ handler'.msg = handler.msg /\ handler'.codex = handler.codex
      /\ handler'.seen = composer /\ handler'.offset = handler.offset /\ handler'.tries = handler.tries /\ handler'.queued = n
  BY <1>1, <1>2, <1>3 DEF Handler
<1>5. QED BY <1>1, <1>4, Fields

(* The request that presses a key has one less left. *)
LEMMA KeyTypes ==
    ASSUME RequestTypes, PressesKey
    PROVE  /\ handler # None /\ handler \in Handler /\ handler.pc = "key" /\ handler.msg \in Messages
           /\ handler' # None /\ handler' \in Handler /\ handler'.pc = (IF handler.codex THEN "wait" ELSE "record")
           /\ handler'.msg = handler.msg /\ handler'.codex = handler.codex
           /\ \E key \in {"Enter", "Tab"} : Type(Key(key))
<1>1. handler # None /\ handler \in Handler /\ handler.pc = "key" /\ handler.tries < MaxKeys
  BY DEF PressesKey, At, RequestTypes, KeysLeft
<1>2. PICK key \in {"Enter", "Tab"} :
          /\ Type(Key(key))
          /\ handler' = [handler EXCEPT !.pc = IF handler.codex THEN "wait" ELSE "record", !.key = key, !.tries = @ + 1]
  BY DEF PressesKey
<1>3. handler.tries + 1 \in 0..MaxKeys
  BY <1>1, Fields, BoundsAreNatural
<1>4. /\ handler' \in Handler /\ handler'.pc = (IF handler.codex THEN "wait" ELSE "record")
      /\ handler'.msg = handler.msg /\ handler'.codex = handler.codex
  BY <1>1, <1>2, <1>3 DEF Handler
<1>5. QED BY <1>1, <1>2, <1>4, Fields

(* A step of the request that has the lock. *)
LEMMA OwnerTyped ==
    ASSUME Types, Owner
    PROVE  Types'
<1> USE DEF Types
<1>h. ASSUME handler # None
      PROVE  handler \in Handler /\ handler.msg \in Messages /\ handler.msg.id \in Ids /\ handler.msg.text \in Texts
  BY <1>h, Fields DEF RequestTypes
<1>1. CASE ShellTypes
  <2>1. handler # None /\ handler.tries < MaxKeys
    BY <1>1 DEF ShellTypes, At, RequestTypes, KeysLeft
  <2>2. RequestTypes'
    BY <1>1, <2>1, GotoTypes DEF ShellTypes
  <2>3. TerminalTypes'
    BY <1>1, <1>h, <2>1, InputTypes, InputsAreInput DEF ShellTypes
  <2>4. QED BY <1>1, <2>2, <2>3, GroupsUnchanged DEF ShellTypes
<1>2. CASE ShellEnters
  <2>1. handler # None
    BY <1>2 DEF ShellEnters, At
  <2>2. RequestTypes'
    BY <1>2, <2>1, GotoTypes DEF ShellEnters
  <2>3. TerminalTypes'
    BY <1>2, InputTypes, InputsAreInput DEF ShellEnters
  <2>4. QED BY <1>2, <2>2, <2>3, GroupsUnchanged DEF ShellEnters
<1>3. CASE ShellAccepts
  <2>1. handler.msg \in Messages
    BY <1>3, <1>h DEF ShellAccepts, At
  <2>2. QED BY <1>3, <2>1, AcceptTypes, GroupsUnchanged DEF ShellAccepts, AcceptUnseen
<1>4. CASE Pastes
  <2>1. RequestTypes' /\ handler.msg \in Messages
    BY <1>4, PasteTypes DEF RequestTypes, KeysLeft
  <2>2. TerminalTypes'
    BY <1>4, <2>1, InputTypes, InputsAreInput DEF Pastes
  <2>3. QED BY <1>4, <2>1, <2>2, GroupsUnchanged DEF Pastes
<1>5. CASE Confirms
  <2>1. handler \in Handler /\ handler.msg.id \in Ids /\ handler.msg.text \in Texts /\ handler.tries < MaxKeys /\ handler # None
    BY <1>5, <1>h DEF Confirms, At, RequestTypes, KeysLeft
  <2>2. Pasted(handler.msg.text, handler.offset, handler.queued) \in Record
    BY <2>1, Fields, RecordsAreRecords
  <2>3. StoreTypes'
    BY <1>5, <2>1, <2>2, RememberTypes DEF Confirms, StoreTypes
  <2>4. RequestTypes'
    BY <1>5, <2>1, GotoTypes DEF Confirms
  <2>5. QED BY <1>5, <2>3, <2>4, GroupsUnchanged DEF Confirms
<1>6. CASE ConfirmTimesOut
  <2>1. handler.msg \in Messages
    BY <1>6, <1>h DEF ConfirmTimesOut, At
  <2>2. QED BY <1>6, <2>1, FailTypes, GroupsUnchanged DEF ConfirmTimesOut
<1>7. CASE RecoverLooks
  <2>1. handler # None /\ handler.tries < MaxKeys
    BY <1>7 DEF RecoverLooks, At, RequestTypes, KeysLeft
  <2>2. RequestTypes'
    BY <1>7, <2>1, GotoTypes DEF RecoverLooks
  <2>3. QED BY <1>7, <2>2, GroupsUnchanged DEF RecoverLooks
<1>8. CASE RecoverFinds \/ FindsEvidence
  <2>1. handler.msg \in Messages
    BY <1>8, <1>h DEF RecoverFinds, FindsEvidence, At
  <2>2. QED BY <1>8, <2>1, AcceptTypes, GroupsUnchanged DEF RecoverFinds, FindsEvidence, AcceptSeen
<1>9. CASE RecoverGivesUp
  BY <1>9, FailTypes, GroupsUnchanged DEF RecoverGivesUp
<1>10. CASE PressesKey
  <2>1. RequestTypes' /\ \E key \in {"Enter", "Tab"} : Type(Key(key))
    BY <1>10, KeyTypes DEF RequestTypes, KeysLeft
  <2>2. TerminalTypes'
    BY <1>10, <2>1, InputTypes, InputsAreInput DEF PressesKey
  <2>3. QED BY <1>10, <2>1, <2>2, GroupsUnchanged DEF PressesKey
<1>11. CASE FindsNoEvidence
  <2>1. CASE handler.tries < MaxKeys
    <3>1. RequestTypes'
      BY <1>11, <2>1, GotoTypes DEF FindsNoEvidence, At
    <3>2. QED BY <1>11, <2>1, <3>1, GroupsUnchanged DEF FindsNoEvidence
  <2>2. CASE ~(handler.tries < MaxKeys)
    BY <1>11, <2>2, FailTypes, GroupsUnchanged DEF FindsNoEvidence
  <2>3. QED BY <2>1, <2>2
<1>12. CASE TmuxFails \/ OwnerRestarts
  <2>1. Interrupted \subseteq Messages
    BY <1>h DEF Interrupted
  <2>2. CASE TmuxFails
    BY <2>1, <2>2, FailTypes, GroupsUnchanged DEF TmuxFails
  <2>3. CASE OwnerRestarts
    BY <2>1, <2>3, GroupsUnchanged DEF OwnerRestarts, StoreTypes, RequestTypes, KeysLeft
  <2>4. QED BY <1>12, <2>2, <2>3
<1>13. QED BY <1>1, <1>2, <1>3, <1>4, <1>5, <1>6, <1>7, <1>8, <1>9, <1>10, <1>11, <1>12 DEF Owner

(* Taken at the head of the terminal's input. *)
LEMMA PtyTail ==
    ASSUME pty \in Seq(Input), pty # <<>>
    PROVE  /\ Head(pty) \in Input /\ Head(pty) = pty[1] /\ Head(pty).piece \in Piece
           /\ Tail(pty) \in Seq(Input) /\ Len(Tail(pty)) = Len(pty) - 1
           /\ \A i \in 1..(Len(pty) - 1) : Tail(pty)[i] = pty[i + 1]
<1>1. Head(pty) \in Input /\ Head(pty) = pty[1]
  OBVIOUS
<1>2. QED BY <1>1, HeadTailProperties DEF Input

(* Counters of what was taken. *)
LEMMA TakenTypes ==
    ASSUME TerminalTypes, Takes
    PROVE  /\ pty' \in Seq(Input) /\ pty' = Tail(pty) /\ pty # <<>> /\ composer' = <<>> /\ composer # <<>>
           /\ taken' \in [Messages -> Nat]
           /\ \A m \in Messages : taken'[m] = taken[m] + Occurrences(composer, m)
<1>1. \A m \in Messages : taken[m] + Occurrences(composer, m) \in Nat
  BY OccursWhere DEF TerminalTypes
<1>2. taken' = [m \in Messages |-> taken[m] + Occurrences(composer, m)]
  BY DEF Takes
<1>3. pty' \in Seq(Input) /\ pty' = Tail(pty) /\ pty # <<>>
  BY PtyTail DEF Takes, TuiKey, TerminalTypes
<1>4. QED BY <1>1, <1>2, <1>3 DEF Takes

(* A step of the terminal, its user or Codex. *)
LEMMA TerminalTyped ==
    ASSUME Types, Terminal
    PROVE  Types'
<1> USE DEF Types
<1>1. CASE TuiText
  <2>1. Head(pty).piece \in Piece /\ Tail(pty) \in Seq(Input)
    BY <1>1, PtyTail DEF TuiText, TerminalTypes
  <2>2. TerminalTypes'
    BY <1>1, <2>1 DEF TuiText, TerminalTypes
  <2>3. QED BY <1>1, <2>2, GroupsUnchanged DEF TuiText
<1>2. CASE TuiIgnoresKey
  <2>1. Tail(pty) \in Seq(Input)
    BY <1>2, PtyTail DEF TuiIgnoresKey, TuiKey, TerminalTypes
  <2>2. TerminalTypes'
    BY <1>2, <2>1 DEF TuiIgnoresKey, TuiKey, TerminalTypes
  <2>3. QED BY <1>2, <2>2, GroupsUnchanged DEF TuiIgnoresKey
<1>3. CASE CodexTakes
  <2>1. pty' \in Seq(Input) /\ composer' \in Seq(Piece) /\ taken' \in [Messages -> Nat]
    BY <1>3, TakenTypes DEF CodexTakes
  <2>2. queue' \in Seq(Seq(Piece)) /\ starting' \in Seq(Seq(Piece)) /\ busy' \in BOOLEAN
    <3>1. Append(queue, composer) \in Seq(Seq(Piece)) /\ Append(starting, composer) \in Seq(Seq(Piece))
      BY DEF TerminalTypes
    <3>2. CASE Head(pty).kind = "Tab" /\ busy
      BY <1>3, <3>1, <3>2 DEF CodexTakes, TerminalTypes
    <3>3. CASE ~(Head(pty).kind = "Tab" /\ busy)
      BY <1>3, <3>1, <3>3 DEF CodexTakes, TerminalTypes
    <3>4. QED BY <3>2, <3>3
  <2>3. codex' \in BOOLEAN /\ rollout' \in Seq(Texts \cup {Human})
    BY <1>3 DEF CodexTakes, Takes, TerminalTypes
  <2>4. TerminalTypes'
    BY <2>1, <2>2, <2>3 DEF TerminalTypes
  <2>5. QED BY <1>3, <2>4, GroupsUnchanged DEF CodexTakes, Takes
<1>4. CASE ShellTakes
  <2>1. pty' \in Seq(Input) /\ composer' \in Seq(Piece) /\ taken' \in [Messages -> Nat]
    BY <1>4, TakenTypes DEF ShellTakes
  <2>2. TerminalTypes'
    BY <1>4, <2>1 DEF ShellTakes, Takes, TerminalTypes
  <2>3. QED BY <1>4, <2>2, GroupsUnchanged DEF ShellTakes, Takes
<1>5. CASE CodexRecords
  <2>1. Head(starting) \in Seq(Piece) /\ Tail(starting) \in Seq(Seq(Piece))
    BY <1>5 DEF CodexRecords, TerminalTypes
  <2>2. Head(starting)[1] # Human /\ Len(Head(starting)) = 1 => Head(starting)[1].text \in Texts
    BY <2>1, Fields DEF Piece
  <2>3. PICK x \in Texts \cup {Human} : rollout' = Append(rollout, x)
    BY <1>5, <2>2 DEF CodexRecords
  <2>4. TerminalTypes'
    BY <1>5, <2>1, <2>3 DEF CodexRecords, TerminalTypes
  <2>5. QED BY <1>5, <2>4, GroupsUnchanged DEF CodexRecords
<1>6. CASE CodexTurnEnds
  <2>1. CASE queue = <<>>
    BY <1>6, <2>1, GroupsUnchanged DEF CodexTurnEnds, TerminalTypes
  <2>2. CASE queue # <<>>
    <3>1. Head(queue) \in Seq(Piece) /\ Tail(queue) \in Seq(Seq(Piece))
      BY <2>2 DEF TerminalTypes
    <3>2. queue' \in Seq(Seq(Piece))
      BY <1>6, <2>2, <3>1 DEF CodexTurnEnds
    <3>3. Append(starting, Head(queue)) \in Seq(Seq(Piece))
      BY <3>1 DEF TerminalTypes
    <3>4. starting' \in Seq(Seq(Piece))
      BY <1>6, <2>2, <3>3 DEF CodexTurnEnds
    <3>5. TerminalTypes'
      BY <1>6, <2>2, <3>2, <3>4 DEF CodexTurnEnds, TerminalTypes
    <3>6. QED BY <1>6, <3>5, GroupsUnchanged DEF CodexTurnEnds
  <2>3. QED BY <2>1, <2>2
<1>7. CASE PersonTypes \/ PersonClears \/ PersonEnters
  <2>1. excused' \subseteq Messages
    BY <1>7 DEF PersonTypes, PersonClears, PersonEnters, PersonActs, Touched
  <2>2. TerminalTypes'
    <3>1. Human \in Piece
      BY DEF Piece
    <3>2. CASE PersonTypes
      BY <3>1, <3>2 DEF PersonTypes, PersonActs, TerminalTypes
    <3>3. CASE PersonClears
      BY <3>3 DEF PersonClears, PersonActs, TerminalTypes
    <3>4. CASE PersonEnters
      BY <3>4, InputsAreInput DEF PersonEnters, PersonActs, TerminalTypes, Type
    <3>5. QED BY <1>7, <3>2, <3>3, <3>4
  <2>3. QED BY <1>7, <2>1, <2>2, GroupsUnchanged DEF PersonTypes, PersonClears, PersonEnters, PersonActs
<1>8. QED BY <1>1, <1>2, <1>3, <1>4, <1>5, <1>6, <1>7 DEF Terminal

(* Every step keeps the types. *)
LEMMA TypeStep == Types /\ [Next]_vars => Types'
<1> SUFFICES ASSUME Types, [Next]_vars PROVE Types'
  OBVIOUS
<1>1. CASE UNCHANGED vars
  BY <1>1, GroupsUnchanged DEF vars, Types, records, terminal
<1>2. QED BY <1>1, RequestsTyped, OwnerTyped, TerminalTyped DEF Next

(* They hold from the start on. *)
LEMMA AlwaysTyped == Spec => []Types
<1>1. Init => Types
  <2> SUFFICES ASSUME Init PROVE Types
    OBVIOUS
  <2>1. StoreTypes /\ RequestTypes /\ excused \subseteq Messages
    BY DEF Init, StoreTypes, RequestTypes, KeysLeft
  <2>2. <<>> \in Seq(Input) /\ <<>> \in Seq(Piece) /\ <<>> \in Seq(Seq(Piece)) /\ <<>> \in Seq(Texts \cup {Human})
    OBVIOUS
  <2>3. codex \in BOOLEAN /\ busy \in BOOLEAN /\ taken \in [Messages -> Nat]
    BY DEF Init
  <2>4. pty = <<>> /\ composer = <<>> /\ queue = <<>> /\ starting = <<>> /\ rollout = <<>>
    BY DEF Init
  <2>5. TerminalTypes
    BY <2>2, <2>3, <2>4 DEF TerminalTypes
  <2>6. QED BY <2>1, <2>5 DEF Types
<1>2. QED BY <1>1, TypeStep, PTL DEF Spec

(* Every variable keeps its type. *)
THEOREM TypeCorrect == Spec => []TypeOK
BY AlwaysTyped, TypesAreTyped, PTL
-----------------------------------------------------------------------------
(* What is on disk, and what the request that has the lock knows of it.    *)

HasRecord(m) == disk[m.id] # None /\ disk[m.id].text = m.text
IsPasted(m) == HasRecord(m) /\ disk[m.id].status = "pasted"
IsAccepted(m) == HasRecord(m) /\ disk[m.id].status = "accepted"

MemoryIsOnDisk == \A id \in Ids : memory[id] \in {None, disk[id]}

RequestIsSound ==
    handler # None =>
        /\ handler.codex => codex
        /\ handler.pc \in {"type", "enter", "record"} => ~handler.codex
        /\ handler.pc \in {"wait", "recover", "search"} => handler.codex
        /\ handler.pc \in {"type", "paste", "enter", "confirm"} => disk[handler.msg.id] = None
        /\ handler.pc = "record" => disk[handler.msg.id] = None \/ IsPasted(handler.msg)
        /\ handler.pc \in {"key", "wait", "recover", "search"} => IsPasted(handler.msg)
        /\ handler.pc \in {"paste", "confirm"} /\ handler.msg.text \in ShellTexts => codex

ShellLinesAreNotPasted ==
    \A id \in Ids : disk[id] # None /\ disk[id].status = "pasted" /\ disk[id].text \in ShellTexts => codex

RecordInv == MemoryIsOnDisk /\ AcceptedIsRemembered /\ RequestIsSound /\ ShellLinesAreNotPasted

(* A record is accepted if it is not pasted. *)
LEMMA RecordStatus ==
    ASSUME Types, NEW m \in Messages, HasRecord(m)
    PROVE  /\ m.id \in Ids /\ disk[m.id] \in Record
           /\ IsPasted(m) \/ IsAccepted(m)
           /\ ~(IsPasted(m) /\ IsAccepted(m))
<1>1. m.id \in Ids /\ disk[m.id] \in Record
  BY Fields DEF Types, StoreTypes, HasRecord
<1>2. disk[m.id].status \in {"pasted", "accepted"}
  BY <1>1 DEF Record
<1>3. QED BY <1>1, <1>2 DEF IsPasted, IsAccepted, HasRecord

(* A restart loses nothing: what is known of an id is on disk. *)
LEMMA ExistingIsOnDisk ==
    ASSUME MemoryIsOnDisk, NEW id \in Ids
    PROVE  Existing(id) = disk[id]
BY DEF MemoryIsOnDisk, Existing

(* A request without records of its own, in a pane that stays. *)
LEMMA RecordsStay ==
    ASSUME RecordInv, UNCHANGED <<memory, disk, told>>, codex => codex', handler' \in {handler, None}
    PROVE  RecordInv'
<1>1. MemoryIsOnDisk' /\ AcceptedIsRemembered'
  BY DEF RecordInv, MemoryIsOnDisk, AcceptedIsRemembered
<1>2. ShellLinesAreNotPasted'
  BY DEF RecordInv, ShellLinesAreNotPasted
<1>3. CASE handler' = None
  BY <1>1, <1>2, <1>3 DEF RecordInv, RequestIsSound
<1>4. CASE handler' = handler
  <2>1. RequestIsSound'
    BY <1>4 DEF RecordInv, RequestIsSound, IsPasted, HasRecord
  <2>2. QED BY <1>1, <1>2, <2>1 DEF RecordInv
<1>5. QED BY <1>3, <1>4

(* The receipt replaces a record of the same message at most. *)
LEMMA AcceptRecords ==
    ASSUME Types, RecordInv, NEW m \in Messages, disk[m.id] = None \/ HasRecord(m),
           Accept(m), UNCHANGED codex
    PROVE  RecordInv' /\ IsAccepted(m)'
<1>1. m.id \in Ids /\ Accepted(m.text) \in Record /\ Remember(m.id, Accepted(m.text)) /\ Accepted(m.text) # None
  BY Fields, RecordsAreRecords DEF Accept
<1>2. /\ \A i \in Ids : disk'[i] = IF i = m.id THEN Accepted(m.text) ELSE disk[i]
      /\ \A i \in Ids : memory'[i] = IF i = m.id THEN Accepted(m.text) ELSE memory[i]
  BY <1>1, RememberTypes DEF Types
<1>3. Accepted(m.text).status = "accepted" /\ Accepted(m.text).text = m.text
  BY DEF Accepted
<1>4. MemoryIsOnDisk'
  BY <1>2 DEF RecordInv, MemoryIsOnDisk
<1>5. IsAccepted(m)'
  BY <1>1, <1>2, <1>3 DEF IsAccepted, HasRecord
<1>6. AcceptedIsRemembered'
  <2> SUFFICES ASSUME NEW n \in told' PROVE (disk[n.id] # None /\ disk[n.id].status = "accepted" /\ disk[n.id].text = n.text)'
    BY DEF AcceptedIsRemembered
  <2>1. CASE n = m
    BY <1>5, <2>1 DEF IsAccepted, HasRecord
  <2>2. CASE n # m
    <3>1. n \in told /\ n \in Messages /\ n.id \in Ids
      BY <2>2, Fields DEF Accept, Types, StoreTypes
    <3>2. disk[n.id] # None /\ disk[n.id].status = "accepted" /\ disk[n.id].text = n.text
      BY <3>1 DEF RecordInv, AcceptedIsRemembered
    <3>3. n.id = m.id => n.text = m.text
      BY <3>2 DEF HasRecord
    <3>4. QED BY <1>1, <1>2, <1>3, <3>1, <3>2, <3>3
  <2>3. QED BY <2>1, <2>2
<1>7. ShellLinesAreNotPasted'
  BY <1>2, <1>3 DEF RecordInv, ShellLinesAreNotPasted
<1>8. RequestIsSound'
  BY DEF Accept, RequestIsSound
<1>9. QED BY <1>4, <1>5, <1>6, <1>7, <1>8 DEF RecordInv

(* A request that arrives finds what it needs in the records. *)
LEMMA RequestRecords ==
    ASSUME Types, RecordInv, NEW m \in Messages, Request(m)
    PROVE  RecordInv'
<1>1. m.id \in Ids /\ m.text \in Texts /\ Existing(m.id) = disk[m.id] /\ codex \in BOOLEAN
  BY Fields, ExistingIsOnDisk DEF RecordInv, Types, TerminalTypes
<1>2. codex' = codex /\ handler = None
  BY DEF Request, RefusesReusedId, AnswersDuplicate, StartsShell, RefusesDraft, StartsPaste, Continues, Arrives, terminal
<1>3. CASE RefusesReusedId(m)
  <2>1. /\ disk' = disk /\ told' = told /\ handler' = handler
        /\ memory' = [memory EXCEPT ![m.id] = Existing(m.id)]
    BY <1>3 DEF RefusesReusedId
  <2>2. MemoryIsOnDisk'
    BY <1>1, <2>1 DEF RecordInv, MemoryIsOnDisk, Types, StoreTypes
  <2>3. QED BY <1>2, <2>1, <2>2 DEF RecordInv, AcceptedIsRemembered, RequestIsSound, ShellLinesAreNotPasted
<1>4. CASE AnswersDuplicate(m)
  <2>1. HasRecord(m)
    BY <1>1, <1>4 DEF AnswersDuplicate, Known, HasRecord
  <2>2. QED BY <1>2, <1>4, <2>1, AcceptRecords DEF AnswersDuplicate, AcceptSeen
<1>5. ASSUME NEW pc \in {"type", "paste"}, handler' = NewHandler(m, pc, handler'.offset, handler'.queued),
             UNCHANGED <<memory, disk, told>>, disk[m.id] = None, pc = "type" => ~codex,
             pc = "paste" /\ m.text \in ShellTexts => codex
      PROVE  RecordInv'
  <2>1. handler'.msg = m /\ handler'.pc = pc /\ handler'.codex = codex
    BY <1>5 DEF NewHandler
  <2>2. RequestIsSound'
    BY <1>2, <1>5, <2>1 DEF RequestIsSound
  <2>3. QED BY <1>2, <1>5, <2>2 DEF RecordInv, MemoryIsOnDisk, AcceptedIsRemembered, ShellLinesAreNotPasted
<1>6. CASE StartsShell(m)
  <2>1. disk[m.id] = None
    BY <1>1, <1>6 DEF StartsShell, Fresh, Unconfirmed, Known, ShellPrep, RecordInv, ShellLinesAreNotPasted
  <2>2. handler' = NewHandler(m, "type", handler'.offset, handler'.queued)
    BY <1>6 DEF StartsShell, NewHandler
  <2>3. QED BY <1>5, <1>6, <2>1, <2>2 DEF StartsShell, ShellPrep, records
<1>7. CASE RefusesDraft(m)
  BY <1>2, <1>7, RecordsStay DEF RefusesDraft, records
<1>8. CASE StartsPaste(m)
  <2>1. disk[m.id] = None
    BY <1>1, <1>8 DEF StartsPaste, Fresh
  <2>2. handler' = NewHandler(m, "paste", handler'.offset, handler'.queued)
    BY <1>8 DEF StartsPaste, NewHandler
  <2>3. QED BY <1>5, <1>8, <2>1, <2>2 DEF StartsPaste, ShellPrep, records
<1>9. CASE Continues(m)
  <2>1. IsPasted(m)
    BY <1>1, <1>9 DEF Continues, Unconfirmed, Known, IsPasted, HasRecord
  <2>2. disk' = disk /\ told' = told /\ memory' = [memory EXCEPT ![m.id] = Existing(m.id)]
    BY <1>9 DEF Continues
  <2>3. MemoryIsOnDisk'
    BY <1>1, <2>2 DEF RecordInv, MemoryIsOnDisk, Types, StoreTypes
  <2>4. handler'.msg = m /\ handler'.pc = (IF codex THEN "recover" ELSE "key") /\ handler'.codex = codex
    BY <1>9 DEF Continues, NewHandler
  <2>5. RequestIsSound'
    BY <1>1, <1>2, <2>1, <2>2, <2>4 DEF RequestIsSound, IsPasted, HasRecord
  <2>6. QED BY <1>2, <2>2, <2>3, <2>5 DEF RecordInv, AcceptedIsRemembered, ShellLinesAreNotPasted
<1>10. QED BY <1>3, <1>4, <1>6, <1>7, <1>8, <1>9 DEF Request

(* The request that has the lock writes no record over another's. *)
LEMMA OwnerRecords ==
    ASSUME Types, RecordInv, Owner
    PROVE  RecordInv'
<1>0. ASSUME handler # None
      PROVE  /\ handler \in Handler /\ handler.msg \in Messages /\ handler.msg.id \in Ids /\ handler.msg.text \in Texts
             /\ handler.codex \in BOOLEAN
  BY <1>0, Fields DEF Types, RequestTypes
<1>1. ASSUME NEW pc \in {"enter", "record", "confirm", "wait", "key", "search"}, handler # None,
             handler'.pc = pc, handler'.msg = handler.msg, handler'.codex = handler.codex, handler' # None,
             UNCHANGED <<memory, disk, told, codex>>,
             \/ handler.pc = "type" /\ pc = "enter"
             \/ handler.pc = "enter" /\ pc = "record"
             \/ handler.pc = "paste" /\ pc = "confirm"
             \/ handler.pc \in {"recover", "wait"} /\ pc \in {"key", "search"}
             \/ handler.pc = "key" /\ pc = (IF handler.codex THEN "wait" ELSE "record")
      PROVE  RecordInv'
  <2>1. RequestIsSound'
    BY <1>1, <1>0 DEF RecordInv, RequestIsSound, IsPasted, HasRecord
  <2>2. QED BY <1>1, <2>1 DEF RecordInv, MemoryIsOnDisk, AcceptedIsRemembered, ShellLinesAreNotPasted
<1>2. ASSUME NEW pc \in {"enter", "record", "key", "search"}, handler # None, Goto(pc)
      PROVE  handler' # None /\ handler'.pc = pc /\ handler'.msg = handler.msg /\ handler'.codex = handler.codex
  <2>1. handler' = [handler EXCEPT !.pc = pc] /\ handler \in Handler
    BY <1>0, <1>2 DEF Goto
  <2>2. handler' \in Handler /\ handler'.pc = pc /\ handler'.msg = handler.msg /\ handler'.codex = handler.codex
    BY <2>1 DEF Handler
  <2>3. QED BY <2>2, Fields
<1>3. CASE ShellTypes
  BY <1>1, <1>2, <1>3 DEF ShellTypes, At, records
<1>4. CASE ShellEnters
  BY <1>1, <1>2, <1>4 DEF ShellEnters, At, records
<1>5. CASE ShellAccepts
  <2>1. handler.msg \in Messages /\ (disk[handler.msg.id] = None \/ HasRecord(handler.msg))
    BY <1>0, <1>5 DEF ShellAccepts, At, RecordInv, RequestIsSound, IsPasted
  <2>2. QED BY <1>5, <2>1, AcceptRecords DEF ShellAccepts, AcceptUnseen, terminal
<1>6. CASE Pastes
  BY <1>1, <1>6, PasteTypes DEF Pastes, records, Types
<1>7. CASE Confirms
  <2>1. /\ handler # None /\ handler.pc = "confirm" /\ handler.msg \in Messages /\ disk[handler.msg.id] = None
        /\ handler.msg.text \in ShellTexts => codex
        /\ handler.codex => codex
    BY <1>0, <1>7 DEF Confirms, At, RecordInv, RequestIsSound
  <2> DEFINE r == Pasted(handler.msg.text, handler.offset, handler.queued)
  <2>2. r \in Record /\ r # None /\ r.status = "pasted" /\ r.text = handler.msg.text
    BY <1>0, <2>1, RecordsAreRecords, Fields DEF Pasted
  <2>3. /\ \A i \in Ids : disk'[i] = IF i = handler.msg.id THEN r ELSE disk[i]
        /\ \A i \in Ids : memory'[i] = IF i = handler.msg.id THEN r ELSE memory[i]
    BY <1>0, <1>7, <2>1, <2>2, RememberTypes DEF Confirms, Types
  <2> HIDE DEF r
  <2>4. handler' # None /\ handler'.pc = "key" /\ handler'.msg = handler.msg /\ handler'.codex = handler.codex
    BY <1>2, <1>7, <2>1 DEF Confirms
  <2>5. codex' = codex /\ told' = told
    BY <1>7 DEF Confirms, terminal
  <2>6. MemoryIsOnDisk' /\ ShellLinesAreNotPasted'
    BY <2>1, <2>2, <2>3, <2>5 DEF RecordInv, MemoryIsOnDisk, ShellLinesAreNotPasted
  <2>7. AcceptedIsRemembered'
    <3> SUFFICES ASSUME NEW n \in told PROVE disk'[n.id] # None /\ disk'[n.id].status = "accepted" /\ disk'[n.id].text = n.text
      BY <2>5 DEF AcceptedIsRemembered
    <3>1. n.id \in Ids
      BY Fields DEF Types, StoreTypes
    <3>2. QED BY <2>1, <2>3, <3>1 DEF RecordInv, AcceptedIsRemembered
  <2>8. IsPasted(handler.msg)'
    BY <1>0, <2>1, <2>2, <2>3, <2>4 DEF IsPasted, HasRecord
  <2>9. RequestIsSound'
    BY <2>1, <2>4, <2>5, <2>8 DEF RequestIsSound, IsPasted, HasRecord
  <2>10. QED BY <2>6, <2>7, <2>9 DEF RecordInv
<1>8. CASE ConfirmTimesOut \/ RecoverGivesUp \/ TmuxFails
  BY <1>8, RecordsStay DEF ConfirmTimesOut, RecoverGivesUp, TmuxFails, Fail, records, terminal
<1>9. CASE RecoverLooks
  BY <1>1, <1>2, <1>9 DEF RecoverLooks, At, records, terminal
<1>10. CASE RecoverFinds \/ FindsEvidence
  <2>1. handler.msg \in Messages /\ HasRecord(handler.msg)
    BY <1>0, <1>10 DEF RecoverFinds, FindsEvidence, At, RecordInv, RequestIsSound, IsPasted
  <2>2. QED BY <1>10, <2>1, AcceptRecords DEF RecoverFinds, FindsEvidence, AcceptSeen, terminal
<1>11. CASE PressesKey
  BY <1>1, <1>11, KeyTypes DEF PressesKey, records, Types
<1>12. CASE FindsNoEvidence
  <2>1. CASE handler.tries < MaxKeys
    BY <1>1, <1>2, <1>12, <2>1 DEF FindsNoEvidence, At, records, terminal
  <2>2. CASE ~(handler.tries < MaxKeys)
    BY <1>12, <2>2, RecordsStay DEF FindsNoEvidence, Fail, records, terminal
  <2>3. QED BY <2>1, <2>2
<1>13. CASE OwnerRestarts
  <2>1. disk' = disk /\ told' = told /\ handler' = None /\ memory' = [i \in Ids |-> None] /\ codex' = codex
    BY <1>13 DEF OwnerRestarts, terminal
  <2>2. QED BY <2>1 DEF RecordInv, MemoryIsOnDisk, AcceptedIsRemembered, RequestIsSound, ShellLinesAreNotPasted
<1>14. QED BY <1>3, <1>4, <1>5, <1>6, <1>7, <1>8, <1>9, <1>10, <1>11, <1>12, <1>13 DEF Owner

(* The terminal writes no record. *)
LEMMA TerminalRecords ==
    ASSUME RecordInv, Terminal
    PROVE  RecordInv'
<1>1. UNCHANGED <<records, handler>>
  BY DEF Terminal, TuiText, TuiIgnoresKey, CodexTakes, ShellTakes, Takes, CodexRecords, CodexTurnEnds,
         PersonTypes, PersonClears, PersonEnters, PersonActs
<1>2. codex => codex'
  BY DEF Terminal, TuiText, TuiIgnoresKey, CodexTakes, ShellTakes, Takes, CodexRecords, CodexTurnEnds,
         PersonTypes, PersonClears, PersonEnters, PersonActs
<1>3. QED BY <1>1, <1>2, RecordsStay DEF records

(* Every step keeps the records. *)
LEMMA RecordStep == Types /\ RecordInv /\ [Next]_vars => RecordInv'
<1> SUFFICES ASSUME Types, RecordInv, [Next]_vars PROVE RecordInv'
  OBVIOUS
<1>1. CASE UNCHANGED vars
  BY <1>1, RecordsStay DEF vars
<1>2. QED BY <1>1, RequestRecords, OwnerRecords, TerminalRecords DEF Next

(* They hold from the start on. *)
LEMMA AlwaysRecorded == Spec => []RecordInv
<1>1. Init => RecordInv
  BY DEF Init, RecordInv, MemoryIsOnDisk, AcceptedIsRemembered, RequestIsSound, ShellLinesAreNotPasted
<1>2. QED BY <1>1, RecordStep, AlwaysTyped, PTL DEF Spec

(* A message a browser was told is accepted keeps its receipt on disk,     *)
(* whatever other requests, failed tmux calls and restarts do later: no    *)
(* write to the store replaces it (DeliveryStore, DeliveryService.send).   *)
THEOREM AcceptedStays == Spec => []AcceptedIsRemembered
BY AlwaysRecorded, PTL DEF RecordInv
-----------------------------------------------------------------------------
(* The copies of a message in the terminal.                                *)

InComposer(m) == \E i \in DOMAIN composer : composer[i] = m
InPty(m) == \E i \in DOMAIN pty : pty[i] = Text(m)
Arrived(m) == taken[m] > 0 \/ InComposer(m)
NoCopy(m) == taken[m] = 0 /\ ~InComposer(m) /\ ~InPty(m)

OneInPty(m) == \A i, j \in DOMAIN pty : pty[i] = Text(m) /\ pty[j] = Text(m) => i = j
OneCopy(m) ==
    /\ taken[m] + Occurrences(composer, m) <= 1
    /\ InPty(m) => ~Arrived(m)
    /\ OneInPty(m)

(* No key is behind the message.                                           *)
IsLastInput(m) ==
    /\ pty # <<>> /\ pty[Len(pty)] = Text(m)
    /\ \A i \in DOMAIN pty : pty[i].kind = "text" => i = Len(pty)
Unsent(m) == IsLastInput(m) \/ (pty = <<>> /\ InComposer(m))

Alone(m) == composer \in {<<>>, <<m>>}

(* A message that was pasted, but nobody saw it arrive, keeps others away. *)
Loose(m) == codex /\ Unsent(m) /\ Alone(m) /\ (handler # None => handler.pc \in {"recover", "search"})

Handles(m) == handler # None /\ handler.msg = m

PasteIsSound(m) ==
    Handles(m) =>
        /\ handler.pc \in {"type", "paste"} => NoCopy(m)
        /\ handler.pc = "paste" /\ handler.codex => composer = <<>>
        /\ handler.pc = "confirm" => /\ Unsent(m)
                                     /\ InPty(m) => composer \in {handler.seen, <<>>}
                                     /\ handler.codex => Alone(m)

CopiesAreKnown(m) ==
    /\ OneCopy(m)
    /\ PasteIsSound(m)
    /\ IsPasted(m) => Arrived(m)
    /\ ~HasRecord(m) /\ ~Handles(m) => NoCopy(m) \/ Loose(m)

CopiesInv == \A m \in Messages \ (excused \cup Alike) : CopiesAreKnown(m)

(* A request that is about to send text finds the input handled.           *)
InputIsFree == handler # None /\ handler.pc \in {"type", "paste"} => ~PastePending

AcceptedIsTold == \A m \in Messages \ Alike : IsAccepted(m) => m \in told

(* Evidence is of what was taken.                                          *)
ShownWasTaken(contents) ==
    \A i \in DOMAIN contents : \A j \in DOMAIN contents[i] :
        contents[i][j] # Human => taken[contents[i][j]] > 0
EvidenceInv ==
    /\ ShownWasTaken(queue) /\ ShownWasTaken(starting)
    /\ \A i \in DOMAIN rollout : \A m \in Messages \ Alike : rollout[i] = m.text => taken[m] > 0

DeliveryInv == AcceptedIsTold /\ InputIsFree /\ EvidenceInv /\ CopiesInv

(* A text that no other message has. *)
LEMMA TextIsOwn == \A m \in Messages \ Alike, n \in Messages : m.text = n.text => m = n
BY DEF Alike

(* No promise is made for them from the start on. *)
LEMMA AlikeAreMessages == Alike \subseteq Messages
BY DEF Alike

(* A text on its way is of one message. *)
LEMMA TextOf ==
    /\ \A m, n : Text(m) = Text(n) => m = n
    /\ \A m : Text(m).kind = "text" /\ Text(m).piece = m
    /\ \A input \in Input : input.kind = "text" => input = Text(input.piece)
    /\ \A m \in Messages : m # Human
<1>1. \A m : Text(m).kind = "text" /\ Text(m).piece = m
  BY DEF Text
<1>2. \A m, n : Text(m) = Text(n) => m = n
  BY <1>1
<1>3. \A input \in Input : input.kind = "text" => input = Text(input.piece)
  BY DEF Text, Input
<1>4. QED BY <1>1, <1>2, <1>3, NamesAreApart

(* Nothing moves. *)
LEMMA CopiesFrame ==
    ASSUME NEW m \in Messages, UNCHANGED <<taken, composer, pty>>
    PROVE  /\ OneCopy(m)' <=> OneCopy(m)
           /\ NoCopy(m)' <=> NoCopy(m)
           /\ Arrived(m)' <=> Arrived(m)
           /\ InPty(m)' <=> InPty(m)
           /\ Unsent(m)' <=> Unsent(m)
           /\ Alone(m)' <=> Alone(m)
<1>1. (InPty(m)' <=> InPty(m)) /\ (InComposer(m)' <=> InComposer(m)) /\ (OneInPty(m)' <=> OneInPty(m))
  BY DEF InPty, InComposer, OneInPty
<1>2. IsLastInput(m)' <=> IsLastInput(m)
  BY DEF IsLastInput
<1>3. (Arrived(m)' <=> Arrived(m)) /\ (NoCopy(m)' <=> NoCopy(m))
  BY <1>1 DEF Arrived, NoCopy
<1>4. OneCopy(m)' <=> OneCopy(m)
  BY <1>1, <1>3 DEF OneCopy
<1>5. QED BY <1>1, <1>2, <1>3, <1>4 DEF Unsent, Alone

(* A key is added behind the rest. *)
LEMMA KeyIsTyped ==
    ASSUME pty \in Seq(Input), NEW m \in Messages, UNCHANGED <<taken, composer>>,
           NEW key \in {"Enter", "Tab"}, Type(Key(key))
    PROVE  /\ OneCopy(m)' <=> OneCopy(m)
           /\ NoCopy(m)' <=> NoCopy(m)
           /\ Arrived(m)' <=> Arrived(m)
           /\ InPty(m)' <=> InPty(m)
           /\ PastePending' <=> PastePending
<1>1. pty' = Append(pty, Key(key)) /\ Key(key).kind # "text" /\ Key(key) # Text(m)
  BY TextOf DEF Type, Key
<1>2. /\ DOMAIN pty = 1..Len(pty) /\ Len(pty) \in Nat /\ DOMAIN pty' = 1..(Len(pty) + 1)
      /\ \A i \in DOMAIN pty : pty'[i] = pty[i]
      /\ pty'[Len(pty) + 1] = Key(key)
  BY <1>1
<1>3. \A i \in DOMAIN pty' : pty'[i] = Text(m) => i \in DOMAIN pty /\ pty[i] = Text(m)
  BY <1>1, <1>2
<1>4. \A i \in DOMAIN pty' : pty'[i].kind = "text" => i \in DOMAIN pty /\ pty[i].kind = "text"
  BY <1>1, <1>2
<1>5. \A i \in DOMAIN pty : i \in DOMAIN pty'
  BY <1>2
<1>6. (InPty(m)' <=> InPty(m)) /\ (OneInPty(m)' <=> OneInPty(m))
  BY <1>2, <1>3, <1>5 DEF InPty, OneInPty, Text
<1>7. PastePending' <=> PastePending
  BY <1>2, <1>4, <1>5 DEF PastePending
<1>8. InComposer(m)' <=> InComposer(m)
  BY DEF InComposer
<1>9. QED BY <1>6, <1>7, <1>8 DEF OneCopy, NoCopy, Arrived

(* A text is added behind the rest. *)
LEMMA TextIsTyped ==
    ASSUME pty \in Seq(Input), NEW m \in Messages, NEW n \in Messages, UNCHANGED <<taken, composer>>, Type(Text(n))
    PROVE  /\ Arrived(m)' <=> Arrived(m)
           /\ n # m => /\ OneCopy(m)' <=> OneCopy(m)
                       /\ NoCopy(m)' <=> NoCopy(m)
           /\ n = m /\ ~PastePending => IsLastInput(m)' /\ OneInPty(m)'
<1>1. pty' = Append(pty, Text(n)) /\ (n # m => Text(n) # Text(m)) /\ Text(m).kind = "text"
  BY TextOf DEF Type
<1>2. /\ DOMAIN pty = 1..Len(pty) /\ Len(pty) \in Nat /\ DOMAIN pty' = 1..(Len(pty) + 1) /\ Len(pty') = Len(pty) + 1
      /\ \A i \in DOMAIN pty : i \in DOMAIN pty' /\ pty'[i] = pty[i]
      /\ pty'[Len(pty) + 1] = Text(n)
  BY <1>1
<1>3. InComposer(m)' <=> InComposer(m)
  BY DEF InComposer
<1>4. Arrived(m)' <=> Arrived(m)
  BY <1>3 DEF Arrived
<1>5. CASE n # m
  <2>1. \A i \in DOMAIN pty' : pty'[i] = Text(m) => i \in DOMAIN pty /\ pty[i] = Text(m)
    BY <1>1, <1>2, <1>5
  <2>2. (InPty(m)' <=> InPty(m)) /\ (OneInPty(m)' <=> OneInPty(m))
    BY <1>2, <2>1 DEF InPty, OneInPty, Text
  <2>3. QED BY <1>3, <1>4, <1>5, <2>2 DEF OneCopy, NoCopy
<1>6. CASE n = m /\ ~PastePending
  <2>1. \A i \in DOMAIN pty' : pty'[i].kind = "text" => i = Len(pty')
    BY <1>1, <1>2, <1>6 DEF PastePending
  <2>2. IsLastInput(m)'
    BY <1>1, <1>2, <1>6, <2>1 DEF IsLastInput, Text
  <2>3. OneInPty(m)'
    BY <1>1, <1>6, <2>1 DEF OneInPty, Text
  <2>4. QED BY <1>4, <1>6, <2>2, <2>3
<1>7. QED BY <1>4, <1>5, <1>6

(* A key is handled. *)
LEMMA KeyIsHandled ==
    ASSUME pty \in Seq(Input), NEW m \in Messages, TuiKey
    PROVE  /\ InPty(m)' <=> InPty(m)
           /\ OneInPty(m) => OneInPty(m)'
           /\ IsLastInput(m) => IsLastInput(m)'
           /\ PastePending' => PastePending
<1>1. pty # <<>> /\ Head(pty) = pty[1] /\ pty[1].kind # "text" /\ pty' = Tail(pty)
  BY PtyTail DEF TuiKey
<1>2. /\ Len(pty) \in Nat /\ Len(pty) > 0 /\ Len(pty') = Len(pty) - 1 /\ DOMAIN pty = 1..Len(pty) /\ DOMAIN pty' = 1..(Len(pty) - 1)
      /\ \A i \in DOMAIN pty' : i + 1 \in DOMAIN pty /\ pty'[i] = pty[i + 1]
  BY <1>1, PtyTail
<1>3. \A i \in DOMAIN pty : i # 1 => i - 1 \in DOMAIN pty' /\ pty'[i - 1] = pty[i]
  BY <1>2
<1>4. pty[1] # Text(m)
  BY <1>1, TextOf
<1>5. InPty(m)' <=> InPty(m)
  BY <1>2, <1>3, <1>4 DEF InPty, Text
<1>6. ASSUME OneInPty(m) PROVE OneInPty(m)'
  <2> SUFFICES ASSUME NEW i \in DOMAIN pty', NEW j \in DOMAIN pty', pty'[i] = Text(m), pty'[j] = Text(m) PROVE i = j
    BY DEF OneInPty, Text
  <2>1. i + 1 = j + 1
    BY <1>2, <1>6 DEF OneInPty
  <2>2. QED BY <1>2, <2>1
<1>7. ASSUME IsLastInput(m) PROVE IsLastInput(m)'
  <2>1. Len(pty) # 1
    BY <1>4, <1>7 DEF IsLastInput
  <2>2. pty' # <<>> /\ pty'[Len(pty')] = Text(m)
    BY <1>2, <1>7, <2>1 DEF IsLastInput
  <2>3. ASSUME NEW i \in DOMAIN pty', pty'[i].kind = "text" PROVE i = Len(pty')
    <3>1. i + 1 = Len(pty)
      BY <1>2, <1>7, <2>3 DEF IsLastInput
    <3>2. QED BY <1>2, <3>1
  <2>4. QED BY <2>2, <2>3 DEF IsLastInput, Text
<1>8. PastePending' => PastePending
  BY <1>2 DEF PastePending
<1>9. QED BY <1>5, <1>6, <1>7, <1>8
(* A text is handled: it was the last input if it may be loose. *)
LEMMA TextIsHandled ==
    ASSUME Types, NEW m \in Messages, TuiText, UNCHANGED taken
    PROVE  /\ PastePending
           /\ Head(pty).piece # m =>
                 /\ OneCopy(m) => OneCopy(m)'
                 /\ NoCopy(m)' <=> NoCopy(m)
                 /\ Arrived(m)' <=> Arrived(m)
                 /\ ~Unsent(m)
           /\ Head(pty).piece = m /\ OneCopy(m) =>
                 /\ InPty(m) /\ ~InPty(m)' /\ OneCopy(m)' /\ Arrived(m)'
                 /\ Unsent(m) => Unsent(m)'
                 /\ Alone(m) => Alone(m)'
<1>1. /\ pty \in Seq(Input) /\ composer \in Seq(Piece)
      /\ pty # <<>> /\ pty[1] \in Input /\ Head(pty) = pty[1] /\ pty[1].kind = "text" /\ pty' = Tail(pty)
      /\ composer' = Append(composer, pty[1].piece) /\ pty[1].piece \in Piece
  BY PtyTail DEF TuiText, Types, TerminalTypes
<1>2. pty[1] = Text(pty[1].piece)
  BY <1>1, TextOf
<1>3. /\ Len(pty) \in Nat /\ Len(pty) > 0 /\ Len(pty') = Len(pty) - 1 /\ DOMAIN pty = 1..Len(pty) /\ DOMAIN pty' = 1..(Len(pty) - 1)
      /\ \A i \in DOMAIN pty' : i + 1 \in DOMAIN pty /\ pty'[i] = pty[i + 1]
  BY <1>1, PtyTail
<1>4. \A i \in DOMAIN pty : i # 1 => i - 1 \in DOMAIN pty' /\ pty'[i - 1] = pty[i]
  BY <1>3
<1>5. PastePending
  BY <1>1, <1>3 DEF PastePending
<1>6. ASSUME Unsent(m) PROVE pty[1] = Text(m) /\ Len(pty) = 1
  BY <1>1, <1>3, <1>6 DEF Unsent, IsLastInput
<1>7. /\ Occurrences(composer, m) \in Nat
      /\ Occurrences(composer', m) = Occurrences(composer, m) + (IF pty[1].piece = m THEN 1 ELSE 0)
  BY <1>1, OccursAppend
<1>8. (Occurrences(composer, m) > 0 <=> InComposer(m)) /\ taken[m] \in Nat
  BY <1>1, OccursWhere DEF InComposer, Types, TerminalTypes
<1>9. /\ InComposer(m)' <=> InComposer(m) \/ pty[1].piece = m
  <2>1. /\ DOMAIN composer = 1..Len(composer) /\ Len(composer) \in Nat /\ DOMAIN composer' = 1..(Len(composer) + 1)
        /\ \A i \in DOMAIN composer : composer'[i] = composer[i]
        /\ composer'[Len(composer) + 1] = pty[1].piece
    BY <1>1
  <2>2. QED BY <2>1 DEF InComposer
<1>10. ASSUME OneInPty(m) PROVE OneInPty(m)'
  <2> SUFFICES ASSUME NEW i \in DOMAIN pty', NEW j \in DOMAIN pty', pty'[i] = Text(m), pty'[j] = Text(m) PROVE i = j
    BY DEF OneInPty, Text
  <2>1. i + 1 = j + 1
    BY <1>3, <1>10 DEF OneInPty
  <2>2. QED BY <1>3, <2>1
<1>11. CASE pty[1].piece # m
  <2>1. pty[1] # Text(m)
    BY <1>2, <1>11, TextOf
  <2>2. InPty(m)' <=> InPty(m)
    BY <1>3, <1>4, <2>1 DEF InPty, Text
  <2>3. /\ NoCopy(m)' <=> NoCopy(m)
        /\ Arrived(m)' <=> Arrived(m)
    BY <1>9, <1>11, <2>2 DEF NoCopy, Arrived
  <2>4. OneCopy(m) => OneCopy(m)'
    BY <1>7, <1>10, <1>11, <2>2, <2>3 DEF OneCopy
  <2>5. QED BY <1>1, <1>5, <1>6, <1>11, <2>1, <2>3, <2>4
<1>12. CASE pty[1].piece = m
  <2>1. pty[1] = Text(m) /\ InPty(m)
    BY <1>2, <1>3, <1>12 DEF InPty
  <2>2. ASSUME OneCopy(m)
        PROVE  /\ ~InPty(m)' /\ OneCopy(m)' /\ Arrived(m)'
               /\ Unsent(m) => Unsent(m)'
               /\ Alone(m) => Alone(m)'
    <3>1. taken[m] = 0 /\ ~InComposer(m) /\ Occurrences(composer, m) = 0
      BY <1>7, <1>8, <2>1, <2>2 DEF OneCopy, Arrived
    <3>2. ~InPty(m)'
      <4> SUFFICES ASSUME NEW i \in DOMAIN pty', pty'[i] = Text(m) PROVE FALSE
        BY DEF InPty, Text
      <4>1. i + 1 = 1
        BY <1>3, <2>1, <2>2 DEF OneCopy, OneInPty
      <4>2. QED BY <1>3, <4>1
    <3>3. InComposer(m)' /\ Arrived(m)'
      BY <1>9, <1>12 DEF Arrived
    <3>4. OneCopy(m)'
      BY <1>7, <1>10, <1>12, <2>2, <3>1, <3>2 DEF OneCopy
    <3>5. Unsent(m) => Unsent(m)'
      <4>1. Unsent(m) => Len(pty) = 1
        BY <1>6
      <4>2. Len(pty) = 1 => pty' = <<>>
        BY <1>1
      <4>3. QED BY <3>3, <4>1, <4>2 DEF Unsent
    <3>6. Alone(m) => Alone(m)'
      <4>1. composer # <<m>>
        BY <3>1 DEF InComposer
      <4>2. composer = <<>> => composer' = <<m>>
        BY <1>1, <1>12
      <4>3. QED BY <4>1, <4>2 DEF Alone
    <3>7. QED BY <3>2, <3>3, <3>4, <3>5, <3>6
  <2>3. QED BY <1>1, <1>5, <1>12, <2>1, <2>2
<1>13. QED BY <1>11, <1>12

(* The composer is taken: the copies in it are counted. *)
LEMMA CopiesAreTaken ==
    ASSUME Types, NEW m \in Messages, Takes, OneCopy(m)
    PROVE  /\ OneCopy(m)'
           /\ NoCopy(m)' <=> NoCopy(m)
           /\ Arrived(m)' <=> Arrived(m)
           /\ InPty(m)' <=> InPty(m)
           /\ Unsent(m) => Unsent(m)'
           /\ Alone(m)' /\ composer' = <<>>
           /\ taken'[m] = taken[m] \/ (taken[m] = 0 /\ taken'[m] = 1)
           /\ PastePending' => PastePending
<1>1. /\ pty \in Seq(Input) /\ composer \in Seq(Piece) /\ TuiKey /\ composer' = <<>> /\ composer # <<>>
      /\ taken[m] \in Nat /\ taken'[m] = taken[m] + Occurrences(composer, m)
  BY TakenTypes DEF Types, TerminalTypes, Takes
<1>2. Occurrences(composer, m) \in Nat /\ (Occurrences(composer, m) > 0 <=> InComposer(m)) /\ Occurrences(composer', m) = 0
  BY <1>1, OccursWhere DEF InComposer
<1>3. ~InComposer(m)'
  BY <1>1 DEF InComposer
<1>4. /\ InPty(m)' <=> InPty(m)
      /\ OneInPty(m) => OneInPty(m)'
      /\ IsLastInput(m) => IsLastInput(m)'
      /\ PastePending' => PastePending
  BY <1>1, KeyIsHandled
<1>5. (Arrived(m)' <=> Arrived(m)) /\ (NoCopy(m)' <=> NoCopy(m))
  BY <1>1, <1>2, <1>3, <1>4 DEF Arrived, NoCopy
<1>6. OneCopy(m)'
  BY <1>1, <1>2, <1>4, <1>5 DEF OneCopy
<1>7. Unsent(m) => Unsent(m)'
  BY <1>1, <1>4 DEF Unsent, TuiKey
<1>8. taken'[m] = taken[m] \/ (taken[m] = 0 /\ taken'[m] = 1)
  BY <1>1, <1>2 DEF OneCopy
<1>9. QED BY <1>1, <1>4, <1>5, <1>6, <1>7, <1>8 DEF Alone
(* A receipt hides no copy, and is of a told message. *)
LEMMA AcceptCopies ==
    ASSUME Types, NEW x \in Messages, handler = None \/ Handles(x), disk[x.id] = None \/ HasRecord(x),
           Accept(x), UNCHANGED <<taken, composer, pty, codex>>
    PROVE  /\ AcceptedIsTold => AcceptedIsTold'
           /\ \A m \in Messages \ Alike : CopiesAreKnown(m) => CopiesAreKnown(m)'
<1>1. /\ x.id \in Ids /\ Accepted(x.text) \in Record /\ Accepted(x.text) # None
      /\ Accepted(x.text).status = "accepted" /\ Accepted(x.text).text = x.text
  BY Fields, RecordsAreRecords DEF Accepted
<1>2. \A i \in Ids : disk'[i] = IF i = x.id THEN Accepted(x.text) ELSE disk[i]
  BY <1>1, RememberTypes DEF Accept, Types
<1>3. ASSUME NEW m \in Messages \ Alike, m # x
      PROVE  (HasRecord(m)' <=> HasRecord(m)) /\ (IsPasted(m)' <=> IsPasted(m)) /\ (IsAccepted(m)' <=> IsAccepted(m))
  <2>1. m.id \in Ids /\ m.text # x.text
    BY <1>3, Fields, TextIsOwn
  <2>2. QED BY <1>1, <1>2, <2>1 DEF HasRecord, IsPasted, IsAccepted
<1>4. HasRecord(x)' /\ ~IsPasted(x)'
  BY <1>1, <1>2 DEF HasRecord, IsPasted
<1>5. told' = told \cup {x} /\ handler' = None
  BY DEF Accept
<1>6. AcceptedIsTold => AcceptedIsTold'
  BY <1>3, <1>5 DEF AcceptedIsTold
<1>7. ASSUME NEW m \in Messages \ Alike, CopiesAreKnown(m) PROVE CopiesAreKnown(m)'
  <2>1. OneCopy(m)' /\ PasteIsSound(m)'
    BY <1>5, <1>7, CopiesFrame DEF CopiesAreKnown, PasteIsSound, Handles
  <2>2. IsPasted(m)' => Arrived(m)'
    BY <1>3, <1>4, <1>7, CopiesFrame DEF CopiesAreKnown
  <2>3. ASSUME m # x, ~HasRecord(m)' PROVE NoCopy(m)' \/ Loose(m)'
    <3>1. NoCopy(m) \/ Loose(m)
      BY <1>3, <1>7, <2>3 DEF CopiesAreKnown, Handles
    <3>2. Loose(m) => Loose(m)'
      BY <1>5, CopiesFrame DEF Loose
    <3>3. QED BY <3>1, <3>2, CopiesFrame
  <2>4. QED BY <1>4, <2>1, <2>2, <2>3 DEF CopiesAreKnown
<1>8. QED BY <1>6, <1>7

(* Requests and terminals that leave a message alone. *)
LEMMA CopiesStay ==
    ASSUME NEW m \in Messages, CopiesAreKnown(m), UNCHANGED disk,
           OneCopy(m)', Arrived(m) => Arrived(m)',
           PasteIsSound(m)',
           ~HasRecord(m) /\ ~Handles(m)' => NoCopy(m)' \/ Loose(m)'
    PROVE  CopiesAreKnown(m)'
<1>1. (HasRecord(m)' <=> HasRecord(m)) /\ (IsPasted(m)' <=> IsPasted(m))
  BY DEF HasRecord, IsPasted
<1>2. QED BY <1>1 DEF CopiesAreKnown

(* A request that arrives. *)
LEMMA RequestCopies ==
    ASSUME TuiMayLag = FALSE, Types, RecordInv, CopiesInv, NEW x \in Messages, Request(x)
    PROVE  CopiesInv'
<1>1. x.id \in Ids /\ Existing(x.id) = disk[x.id] /\ codex \in BOOLEAN
  BY Fields, ExistingIsOnDisk DEF RecordInv, Types, TerminalTypes
<1>2. UNCHANGED <<terminal, excused>> /\ handler = None /\ ~PastePending
  BY DEF Request, RefusesReusedId, AnswersDuplicate, StartsShell, RefusesDraft, StartsPaste, Continues, Arrives, Settled
<1>3. SUFFICES ASSUME NEW m \in Messages \ Alike, m \notin excused, CopiesAreKnown(m) PROVE CopiesAreKnown(m)'
  BY <1>2 DEF CopiesInv
<1>4. UNCHANGED <<taken, composer, pty, codex>>
  BY <1>2 DEF terminal
<1>5. OneCopy(m) /\ (~HasRecord(m) => NoCopy(m) \/ Loose(m))
  BY <1>2, <1>3 DEF CopiesAreKnown, Handles
<1>6. CASE AnswersDuplicate(x)
  <2>1. HasRecord(x)
    BY <1>1, <1>6 DEF AnswersDuplicate, Known, HasRecord
  <2>2. QED BY <1>2, <1>3, <1>4, <1>6, <2>1, AcceptCopies DEF AnswersDuplicate, AcceptSeen
<1>7. ASSUME handler' = handler, UNCHANGED disk PROVE CopiesAreKnown(m)'
  <2>1. PasteIsSound(m)' /\ (Loose(m) => Loose(m)')
    BY <1>2, <1>4, <1>7, CopiesFrame DEF PasteIsSound, Handles, Loose
  <2>2. QED BY <1>3, <1>4, <1>5, <1>7, <2>1, CopiesFrame, CopiesStay
<1>8. CASE RefusesReusedId(x) \/ RefusesDraft(x)
  BY <1>7, <1>8 DEF RefusesReusedId, RefusesDraft, records
<1>9. ASSUME NEW pc \in {"type", "paste"}, handler' = NewHandler(x, pc, handler'.offset, handler'.queued), UNCHANGED disk,
             disk[x.id] = None, codex => pc = "paste" /\ composer = <<>>
      PROVE  CopiesAreKnown(m)'
  <2>1. handler'.msg = x /\ handler'.pc = pc /\ handler'.codex = codex
    BY <1>9 DEF NewHandler
  <2>2. ~Loose(m)
    <3>1. IsLastInput(m) => PastePending
      <4>1. pty \in Seq(Input) /\ Text(m).kind = "text"
        BY TextOf DEF Types, TerminalTypes
      <4>2. pty # <<>> => Len(pty) \in DOMAIN pty
        BY <4>1
      <4>3. QED BY <4>1, <4>2 DEF IsLastInput, PastePending
    <3>2. codex => ~InComposer(m)
      BY <1>9 DEF InComposer
    <3>3. QED BY <1>2, <3>1, <3>2 DEF Loose, Unsent
  <2>3. ~HasRecord(x)
    BY <1>9 DEF HasRecord
  <2>4. PasteIsSound(m)'
    <3>1. m = x => NoCopy(m)'
      BY <1>4, <1>5, <2>2, <2>3, CopiesFrame
    <3>2. pc # "confirm" /\ (pc = "paste" /\ codex => composer' = <<>>)
      BY <1>4, <1>9
    <3>3. QED BY <2>1, <3>1, <3>2 DEF PasteIsSound, Handles
  <2>5. QED BY <1>3, <1>4, <1>5, <1>9, <2>2, <2>4, CopiesFrame, CopiesStay
<1>10. CASE StartsShell(x)
  <2>1. disk[x.id] = None /\ ~codex
    BY <1>1, <1>10 DEF StartsShell, Fresh, Unconfirmed, Known, ShellPrep, RecordInv, ShellLinesAreNotPasted
  <2>2. handler' = NewHandler(x, "type", handler'.offset, handler'.queued)
    BY <1>10 DEF StartsShell, NewHandler
  <2>3. QED BY <1>9, <1>10, <2>1, <2>2 DEF StartsShell, records
<1>11. CASE StartsPaste(x)
  <2>1. disk[x.id] = None
    BY <1>1, <1>11 DEF StartsPaste, Fresh
  <2>2. handler' = NewHandler(x, "paste", handler'.offset, handler'.queued)
    BY <1>11 DEF StartsPaste, NewHandler
  <2>3. QED BY <1>9, <1>11, <2>1, <2>2 DEF StartsPaste, records
<1>12. CASE Continues(x)
  <2>1. handler'.msg = x /\ handler'.pc = (IF codex THEN "recover" ELSE "key")
    BY <1>12 DEF Continues, NewHandler
  <2>2. PasteIsSound(m)'
    BY <2>1 DEF PasteIsSound
  <2>3. Loose(m) => Loose(m)'
    BY <1>4, <2>1, CopiesFrame DEF Loose
  <2>4. disk' = disk
    BY <1>12 DEF Continues
  <2>5. QED BY <1>3, <1>4, <1>5, <2>2, <2>3, <2>4, CopiesFrame, CopiesStay
<1>13. QED BY <1>6, <1>8, <1>10, <1>11, <1>12 DEF Request
(* The request that has the lock. *)
LEMMA OwnerCopies ==
    ASSUME Types, RecordInv, InputIsFree, CopiesInv, Owner
    PROVE  CopiesInv'
<1> DEFINE x == handler.msg
<1>0. ASSUME handler # None
      PROVE  /\ handler \in Handler /\ x \in Messages /\ x.id \in Ids /\ x.text \in Texts /\ handler.codex \in BOOLEAN
             /\ RequestIsSound /\ Handles(x)
  BY <1>0, Fields DEF Types, RequestTypes, RecordInv, Handles
<1>1. excused \subseteq excused' /\ UNCHANGED <<taken, composer, codex>>
  BY DEF Owner, ShellTypes, ShellEnters, ShellAccepts, Pastes, Confirms, ConfirmTimesOut, RecoverLooks, RecoverFinds,
         RecoverGivesUp, PressesKey, FindsEvidence, FindsNoEvidence, TmuxFails, OwnerRestarts, terminal
<1>2. SUFFICES ASSUME NEW m \in Messages \ Alike, m \notin excused', CopiesAreKnown(m) PROVE CopiesAreKnown(m)'
  BY <1>1 DEF CopiesInv
<1>3. OneCopy(m) /\ PasteIsSound(m) /\ (IsPasted(m) => Arrived(m)) /\ (~HasRecord(m) /\ ~Handles(m) => NoCopy(m) \/ Loose(m))
  BY <1>2 DEF CopiesAreKnown
<1>4. ASSUME NEW pc \in {"enter", "record", "key", "search"}, handler # None, Goto(pc)
      PROVE  /\ handler' # None /\ handler'.pc = pc /\ handler'.msg = x /\ (Handles(m)' <=> Handles(m)) /\ PasteIsSound(m)'
  <2>1. handler' = [handler EXCEPT !.pc = pc] /\ handler \in Handler
    BY <1>0, <1>4 DEF Goto
  <2>2. handler' \in Handler /\ handler'.pc = pc /\ handler'.msg = x
    BY <2>1 DEF Handler
  <2>3. handler' # None
    BY <2>2, Fields
  <2>4. QED BY <1>4, <2>2, <2>3 DEF PasteIsSound, Handles
<1>5. ASSUME handler # None, handler.pc \notin {"recover", "search"} PROVE ~Loose(m)
  BY <1>5 DEF Loose
<1>6. ASSUME handler' = None, UNCHANGED <<disk, pty>>,
             handler # None /\ x = m => HasRecord(x) \/ NoCopy(x) \/ (codex /\ Unsent(x) /\ Alone(x))
      PROVE  CopiesAreKnown(m)'
  <2>1. PasteIsSound(m)'
    BY <1>6 DEF PasteIsSound, Handles
  <2>2. ~HasRecord(m) => NoCopy(m) \/ (codex /\ Unsent(m) /\ Alone(m))
    BY <1>3, <1>6 DEF Handles, Loose
  <2>3. ~HasRecord(m) => NoCopy(m)' \/ Loose(m)'
    BY <1>1, <1>6, <2>2, CopiesFrame DEF Loose
  <2>4. QED BY <1>1, <1>2, <1>3, <1>6, <2>1, <2>3, CopiesFrame, CopiesStay
<1>7. CASE ShellTypes
  <2>1. handler # None /\ handler.pc = "type" /\ Type(Text(x)) /\ Goto("enter") /\ UNCHANGED disk
    BY <1>7 DEF ShellTypes, At, records
  <2>2. x \in Messages /\ pty \in Seq(Input) /\ ~PastePending /\ ~Loose(m) /\ PasteIsSound(m)' /\ (Handles(m)' <=> Handles(m))
    BY <1>0, <1>4, <1>5, <2>1 DEF Types, TerminalTypes, InputIsFree
  <2>3. (Arrived(m)' <=> Arrived(m)) /\ (x # m => (OneCopy(m)' <=> OneCopy(m)) /\ (NoCopy(m)' <=> NoCopy(m)))
    BY <1>1, <2>1, <2>2, TextIsTyped
  <2>4. CASE x # m
    BY <1>2, <1>3, <2>1, <2>2, <2>3, <2>4, CopiesStay
  <2>5. CASE x = m
    <3>1. NoCopy(m) /\ Handles(m)
      BY <1>0, <1>3, <2>1, <2>5 DEF PasteIsSound
    <3>2. OneInPty(m)' /\ ~Arrived(m)
      BY <1>1, <2>1, <2>2, <2>5, <3>1, TextIsTyped DEF NoCopy, Arrived
    <3>3. OneCopy(m)'
      BY <1>1, <1>3, <2>3, <3>2 DEF OneCopy
    <3>4. QED BY <1>2, <2>1, <2>2, <2>3, <3>1, <3>3, CopiesStay
  <2>6. QED BY <2>4, <2>5
<1>8. CASE ShellEnters
  <2>1. handler # None /\ handler.pc = "enter" /\ Type(Key("Enter")) /\ Goto("record") /\ UNCHANGED disk
    BY <1>8 DEF ShellEnters, At, records
  <2>2. pty \in Seq(Input) /\ ~Loose(m) /\ PasteIsSound(m)' /\ (Handles(m)' <=> Handles(m))
    BY <1>4, <1>5, <2>1 DEF Types, TerminalTypes
  <2>3. (Arrived(m)' <=> Arrived(m)) /\ (OneCopy(m)' <=> OneCopy(m)) /\ (NoCopy(m)' <=> NoCopy(m))
    BY <1>1, <2>1, <2>2, KeyIsTyped
  <2>4. QED BY <1>2, <1>3, <2>1, <2>2, <2>3, CopiesStay
<1>9. CASE ShellAccepts \/ RecoverFinds \/ FindsEvidence
  <2>1. handler # None /\ handler.pc \in {"record", "search", "wait"} /\ Accept(x) /\ UNCHANGED pty
    BY <1>9 DEF ShellAccepts, RecoverFinds, FindsEvidence, At, AcceptUnseen, AcceptSeen, terminal
  <2>2. Handles(x) /\ x \in Messages /\ (disk[x.id] = None \/ HasRecord(x))
    BY <1>0, <2>1 DEF RequestIsSound, IsPasted
  <2> HIDE DEF x
  <2>3. QED BY <1>1, <1>2, <2>1, <2>2, AcceptCopies
<1>10. CASE Pastes
  <2>1. /\ handler # None /\ handler.pc = "paste" /\ Type(Text(x)) /\ UNCHANGED disk
        /\ handler' # None /\ handler'.pc = "confirm" /\ handler'.msg = x /\ handler'.seen = composer /\ handler'.codex = handler.codex
    BY <1>10, PasteTypes DEF Pastes, records, Types
  <2>2. x \in Messages /\ pty \in Seq(Input) /\ ~PastePending /\ ~Loose(m) /\ (Handles(m)' <=> Handles(m))
    BY <1>0, <1>5, <2>1 DEF Types, TerminalTypes, InputIsFree, Handles
  <2>3. (Arrived(m)' <=> Arrived(m)) /\ (x # m => (OneCopy(m)' <=> OneCopy(m)) /\ (NoCopy(m)' <=> NoCopy(m)))
    BY <1>1, <2>1, <2>2, TextIsTyped
  <2>4. CASE x # m
    <3>1. PasteIsSound(m)'
      BY <2>1, <2>4 DEF PasteIsSound, Handles
    <3>2. QED BY <1>2, <1>3, <2>1, <2>2, <2>3, <2>4, <3>1, CopiesStay
  <2>5. CASE x = m
    <3>1. NoCopy(m) /\ Handles(m) /\ (handler.codex => composer = <<>>)
      BY <1>0, <1>3, <2>1, <2>5 DEF PasteIsSound
    <3>2. OneInPty(m)' /\ IsLastInput(m)' /\ ~Arrived(m)
      BY <1>1, <2>1, <2>2, <2>5, <3>1, TextIsTyped DEF NoCopy, Arrived
    <3>3. OneCopy(m)'
      BY <1>1, <1>3, <2>3, <3>2 DEF OneCopy
    <3>4. PasteIsSound(m)'
      BY <1>1, <2>1, <3>1, <3>2 DEF PasteIsSound, Unsent, Alone
    <3>5. QED BY <1>2, <2>1, <2>2, <2>3, <3>1, <3>3, <3>4, CopiesStay
  <2>6. QED BY <2>4, <2>5
<1>11. CASE Confirms
  <2>1. /\ handler # None /\ handler.pc = "confirm" /\ composer # handler.seen /\ composer # <<>> /\ Goto("key") /\ UNCHANGED pty
        /\ Remember(x.id, Pasted(x.text, handler.offset, handler.queued))
    BY <1>11 DEF Confirms, At, terminal
  <2>2. /\ x \in Messages /\ x.id \in Ids /\ disk[x.id] = None /\ Handles(x) /\ ~Loose(m) /\ PasteIsSound(m)' /\ (Handles(m)' <=> Handles(m))
    BY <1>0, <1>4, <1>5, <2>1 DEF RequestIsSound
  <2> DEFINE r == Pasted(x.text, handler.offset, handler.queued)
  <2>3. r \in Record /\ r.text = x.text
    BY <1>0, <2>1, Fields, RecordsAreRecords DEF Pasted
  <2>4. \A i \in Ids : disk'[i] = IF i = x.id THEN r ELSE disk[i]
    BY <2>1, <2>2, <2>3, RememberTypes DEF Types
  <2> HIDE DEF r
  <2>5. (OneCopy(m)' <=> OneCopy(m)) /\ (Arrived(m)' <=> Arrived(m)) /\ (NoCopy(m)' <=> NoCopy(m))
    BY <1>1, <2>1, CopiesFrame
  <2>6. CASE x = m
    <3>1. Unsent(m) /\ ~InPty(m)
      BY <1>3, <2>1, <2>2, <2>6 DEF PasteIsSound
    <3>2. Arrived(m)
      <4>1. pty \in Seq(Input) /\ (pty # <<>> => Len(pty) \in DOMAIN pty)
        BY DEF Types, TerminalTypes
      <4>2. QED BY <3>1, <4>1 DEF Unsent, IsLastInput, InPty, Arrived
    <3>3. QED BY <1>3, <2>2, <2>5, <2>6, <3>2 DEF CopiesAreKnown
  <2>7. CASE x # m
    <3>1. m.id \in Ids /\ m.text # x.text
      BY <2>2, <2>7, Fields, TextIsOwn
    <3>2. (HasRecord(m)' <=> HasRecord(m)) /\ (IsPasted(m)' => IsPasted(m))
      BY <2>2, <2>3, <2>4, <3>1 DEF HasRecord, IsPasted
    <3>3. QED BY <1>3, <2>2, <2>5, <3>2 DEF CopiesAreKnown
  <2>8. QED BY <2>6, <2>7
<1>12. CASE ConfirmTimesOut
  <2>1. /\ handler # None /\ handler.pc = "confirm" /\ handler' = None /\ UNCHANGED <<disk, pty>>
        /\ excused' = IF handler.codex THEN excused ELSE excused \cup {x}
    BY <1>12 DEF ConfirmTimesOut, At, Fail, records, terminal
  <2>2. x = m => codex /\ Unsent(x) /\ Alone(x)
    BY <1>0, <1>2, <1>3, <2>1 DEF RequestIsSound, PasteIsSound
  <2>3. QED BY <1>6, <2>1, <2>2
<1>13. CASE RecoverLooks
  <2>1. /\ handler # None /\ handler.pc = "recover" /\ UNCHANGED <<disk, pty>>
        /\ Goto(IF Holds(composer, x.text) THEN "key" ELSE "search")
    BY <1>13 DEF RecoverLooks, At, records, terminal
  <2>2. x \in Messages /\ HasRecord(x) /\ PasteIsSound(m)' /\ (Handles(m)' <=> Handles(m))
        /\ handler'.pc = (IF Holds(composer, x.text) THEN "key" ELSE "search")
    BY <1>0, <1>4, <2>1 DEF RequestIsSound, IsPasted
  <2>3. ASSUME Loose(m), Holds(composer, x.text) PROVE m = x
    <3>1. composer = <<m>>
      BY <2>3 DEF Loose, Alone, Holds
    <3>2. m.text = x.text
      BY <2>3, <3>1 DEF Holds
    <3>3. QED BY <2>2, <3>2, TextIsOwn
  <2>4. ASSUME ~HasRecord(m) PROVE NoCopy(m)' \/ Loose(m)'
    <3>1. m # x /\ ~Handles(m)
      BY <2>2, <2>4 DEF Handles
    <3>2. CASE NoCopy(m)
      BY <1>1, <2>1, <3>2, CopiesFrame
    <3>3. CASE Loose(m)
      <4>1. handler'.pc = "search"
        BY <2>2, <2>3, <3>1, <3>3
      <4>2. QED BY <1>1, <2>1, <3>3, <4>1, CopiesFrame DEF Loose
    <3>4. QED BY <1>3, <2>4, <3>1, <3>2, <3>3
  <2>5. QED BY <1>1, <1>2, <1>3, <2>1, <2>2, <2>4, CopiesFrame, CopiesStay
<1>14. CASE RecoverGivesUp
  <2>1. handler # None /\ handler.pc = "search" /\ handler' = None /\ UNCHANGED <<disk, pty>>
    BY <1>14 DEF RecoverGivesUp, At, Fail, records, terminal
  <2>2. HasRecord(x)
    BY <1>0, <2>1 DEF RequestIsSound, IsPasted
  <2>3. QED BY <1>6, <2>1, <2>2
<1>15. CASE PressesKey
  <2>1. /\ handler # None /\ handler.pc = "key" /\ UNCHANGED disk
        /\ handler' # None /\ handler'.pc \in {"wait", "record"} /\ handler'.msg = x
        /\ \E key \in {"Enter", "Tab"} : Type(Key(key))
    BY <1>15, KeyTypes DEF PressesKey, records, Types
  <2>2. pty \in Seq(Input) /\ ~Loose(m) /\ PasteIsSound(m)' /\ (Handles(m)' <=> Handles(m))
    BY <1>5, <2>1 DEF Types, TerminalTypes, PasteIsSound, Handles
  <2>3. (Arrived(m)' <=> Arrived(m)) /\ (OneCopy(m)' <=> OneCopy(m)) /\ (NoCopy(m)' <=> NoCopy(m))
    BY <1>1, <2>1, <2>2, KeyIsTyped
  <2>4. QED BY <1>2, <1>3, <2>1, <2>2, <2>3, CopiesStay
<1>16. CASE FindsNoEvidence
  <2>1. handler # None /\ handler.pc = "wait" /\ UNCHANGED <<disk, pty>> /\ (Goto("key") \/ handler' = None)
    BY <1>16 DEF FindsNoEvidence, At, Fail, records, terminal
  <2>2. HasRecord(x)
    BY <1>0, <2>1 DEF RequestIsSound, IsPasted
  <2>3. CASE handler' = None
    BY <1>6, <2>1, <2>2, <2>3
  <2>4. CASE Goto("key")
    <3>1. PasteIsSound(m)' /\ (Handles(m)' <=> Handles(m)) /\ ~Loose(m)
      BY <1>4, <1>5, <2>1, <2>4
    <3>2. QED BY <1>1, <1>2, <1>3, <2>1, <3>1, CopiesFrame, CopiesStay
  <2>5. QED BY <2>1, <2>3, <2>4
<1>17. CASE TmuxFails \/ OwnerRestarts
  <2>1. /\ handler' = None /\ UNCHANGED <<disk, pty>> /\ excused' = excused \cup Interrupted
    BY <1>17 DEF TmuxFails, OwnerRestarts, Fail, records, terminal
  <2>2. ASSUME handler # None, x = m PROVE HasRecord(x) \/ NoCopy(x) \/ (codex /\ Unsent(x) /\ Alone(x))
    <3>1. handler.pc \in {"enter", "record", "confirm"} => handler.codex
      BY <1>2, <2>1, <2>2 DEF Interrupted
    <3>2. CASE handler.pc \in {"type", "paste"}
      BY <1>0, <1>3, <2>2, <3>2 DEF PasteIsSound
    <3>3. CASE handler.pc \in {"enter", "record"}
      BY <1>0, <2>2, <3>1, <3>3 DEF RequestIsSound
    <3>4. CASE handler.pc = "confirm"
      BY <1>0, <1>3, <2>2, <3>1, <3>4 DEF RequestIsSound, PasteIsSound
    <3>5. CASE handler.pc \in {"key", "wait", "recover", "search"}
      BY <1>0, <2>2, <3>5 DEF RequestIsSound, IsPasted
    <3>6. handler.pc \in {"type", "enter", "record", "paste", "confirm", "key", "wait", "recover", "search"}
      BY <1>0, <2>2 DEF Handler
    <3>7. QED BY <3>2, <3>3, <3>4, <3>5, <3>6
  <2>3. QED BY <1>6, <2>1, <2>2
<1>18. QED BY <1>7, <1>8, <1>9, <1>10, <1>11, <1>12, <1>13, <1>14, <1>15, <1>16, <1>17 DEF Owner
(* The terminal, its user and Codex. *)
LEMMA TerminalCopies ==
    ASSUME Types, InputIsFree, CopiesInv, Terminal
    PROVE  CopiesInv'
<1>1. excused \subseteq excused' /\ UNCHANGED <<handler, disk>>
  BY DEF Terminal, TuiText, TuiIgnoresKey, CodexTakes, ShellTakes, Takes, CodexRecords, CodexTurnEnds,
         PersonTypes, PersonClears, PersonEnters, PersonActs, records
<1>2. SUFFICES ASSUME NEW m \in Messages \ Alike, m \notin excused', CopiesAreKnown(m) PROVE CopiesAreKnown(m)'
  BY <1>1 DEF CopiesInv
<1>3. OneCopy(m) /\ PasteIsSound(m) /\ (IsPasted(m) => Arrived(m)) /\ (~HasRecord(m) /\ ~Handles(m) => NoCopy(m) \/ Loose(m))
  BY <1>2 DEF CopiesAreKnown
<1>4. Handles(m)' <=> Handles(m)
  BY <1>1 DEF Handles
<1>5. pty \in Seq(Input) /\ composer \in Seq(Piece)
  BY DEF Types, TerminalTypes
<1>6. ASSUME OneCopy(m)', Arrived(m) => Arrived(m)', NoCopy(m) => NoCopy(m)', Loose(m) => Loose(m)', PasteIsSound(m)'
      PROVE  CopiesAreKnown(m)'
  BY <1>1, <1>2, <1>3, <1>4, <1>6, CopiesStay
<1>7. CASE CodexRecords \/ CodexTurnEnds
  <2>1. UNCHANGED <<taken, composer, pty, codex>>
    BY <1>7 DEF CodexRecords, CodexTurnEnds
  <2>2. /\ OneCopy(m)' <=> OneCopy(m)
        /\ NoCopy(m)' <=> NoCopy(m)
        /\ Arrived(m)' <=> Arrived(m)
        /\ InPty(m)' <=> InPty(m)
        /\ Unsent(m)' <=> Unsent(m)
        /\ Alone(m)' <=> Alone(m)
    BY <2>1, CopiesFrame
  <2>3. PasteIsSound(m)' /\ (Loose(m) => Loose(m)')
    BY <1>1, <1>3, <1>4, <2>1, <2>2 DEF PasteIsSound, Loose
  <2>4. QED BY <1>3, <1>6, <2>2, <2>3
<1>8. CASE TuiText
  <2>1. UNCHANGED <<taken, codex>>
    BY <1>8 DEF TuiText
  <2>2. PastePending
    BY <1>8, <2>1, TextIsHandled
  <2>3. handler # None => handler.pc \notin {"type", "paste"}
    BY <2>2 DEF InputIsFree
  <2>4. CASE Head(pty).piece # m
    <3>1. OneCopy(m)' /\ (NoCopy(m)' <=> NoCopy(m)) /\ (Arrived(m)' <=> Arrived(m)) /\ ~Unsent(m)
      BY <1>3, <1>8, <2>1, <2>4, TextIsHandled
    <3>2. PasteIsSound(m)' /\ ~Loose(m)
      BY <1>1, <1>3, <1>4, <2>3, <3>1 DEF PasteIsSound, Loose, Handles
    <3>3. QED BY <1>6, <3>1, <3>2
  <2>5. CASE Head(pty).piece = m
    <3>1. /\ InPty(m) /\ ~InPty(m)' /\ OneCopy(m)' /\ Arrived(m)'
          /\ Unsent(m) => Unsent(m)'
          /\ Alone(m) => Alone(m)'
      BY <1>3, <1>8, <2>1, <2>5, TextIsHandled
    <3>2. ~NoCopy(m)
      BY <3>1 DEF NoCopy
    <3>3. PasteIsSound(m)' /\ (Loose(m) => Loose(m)')
      BY <1>1, <1>3, <1>4, <2>1, <2>3, <3>1 DEF PasteIsSound, Loose, Handles
    <3>4. QED BY <1>6, <3>1, <3>2, <3>3
  <2>6. QED BY <2>4, <2>5
<1>9. CASE TuiIgnoresKey
  <2>1. UNCHANGED <<taken, codex, composer>> /\ TuiKey /\ pty # <<>>
    BY <1>9 DEF TuiIgnoresKey, TuiKey
  <2>2. /\ InPty(m)' <=> InPty(m)
        /\ OneInPty(m) => OneInPty(m)'
        /\ IsLastInput(m) => IsLastInput(m)'
    BY <1>5, <2>1, KeyIsHandled
  <2>3. InComposer(m)' <=> InComposer(m)
    BY <2>1 DEF InComposer
  <2>4. (Arrived(m)' <=> Arrived(m)) /\ (NoCopy(m)' <=> NoCopy(m))
    BY <2>1, <2>2, <2>3 DEF Arrived, NoCopy
  <2>5. OneCopy(m)'
    BY <1>3, <2>1, <2>2, <2>4 DEF OneCopy
  <2>6. (Unsent(m) => Unsent(m)') /\ (Alone(m)' <=> Alone(m))
    BY <2>1, <2>2 DEF Unsent, Alone
  <2>7. PasteIsSound(m)' /\ (Loose(m) => Loose(m)')
    BY <1>1, <1>3, <1>4, <2>1, <2>2, <2>4, <2>6 DEF PasteIsSound, Loose
  <2>8. QED BY <1>6, <2>4, <2>5, <2>7
<1>10. CASE CodexTakes \/ ShellTakes
  <2>1. Takes /\ (codex => codex')
    BY <1>10 DEF CodexTakes, ShellTakes
  <2>2. /\ OneCopy(m)'
        /\ NoCopy(m)' <=> NoCopy(m)
        /\ Arrived(m)' <=> Arrived(m)
        /\ InPty(m)' <=> InPty(m)
        /\ Unsent(m) => Unsent(m)'
        /\ Alone(m)' /\ composer' = <<>>
    BY <1>3, <2>1, CopiesAreTaken
  <2>3. PasteIsSound(m)' /\ (Loose(m) => Loose(m)')
    BY <1>1, <1>3, <1>4, <2>1, <2>2 DEF PasteIsSound, Loose
  <2>4. QED BY <1>6, <2>2, <2>3
<1>11. CASE PersonTypes \/ PersonClears \/ PersonEnters
  <2>1. UNCHANGED <<taken, codex>> /\ m \notin Touched
    BY <1>2, <1>11 DEF PersonTypes, PersonClears, PersonEnters, PersonActs
  <2>2. ~InComposer(m) /\ ~InPty(m) /\ ~Handles(m)
    BY <2>1, TextOf DEF Touched, InComposer, InPty, Handles
  <2>3. ~Unsent(m) /\ ~Loose(m)
    <3>1. pty # <<>> => Len(pty) \in DOMAIN pty
      BY <1>5
    <3>2. QED BY <2>2, <3>1 DEF Unsent, IsLastInput, InPty, Loose
  <2>4. composer' \in Seq(Piece) /\ ~InComposer(m)'
    <3>1. CASE PersonTypes
      <4>1. composer' = Append(composer, Human) /\ m # Human /\ Human \in Piece
        BY <3>1, TextOf DEF PersonTypes, Piece
      <4>2. /\ DOMAIN composer' = 1..(Len(composer) + 1) /\ DOMAIN composer = 1..Len(composer) /\ Len(composer) \in Nat
            /\ composer'[Len(composer) + 1] = Human /\ \A i \in DOMAIN composer : composer'[i] = composer[i]
        BY <1>5, <4>1
      <4>3. composer' \in Seq(Piece)
        BY <1>5, <4>1
      <4>4. QED BY <2>2, <4>1, <4>2, <4>3 DEF InComposer
    <3>2. CASE PersonClears
      BY <3>2 DEF PersonClears, InComposer
    <3>3. CASE PersonEnters
      BY <1>5, <2>2, <3>3 DEF PersonEnters, InComposer
    <3>4. QED BY <1>11, <3>1, <3>2, <3>3
  <2>5. ~InPty(m)'
    <3>1. CASE PersonTypes \/ PersonClears
      BY <2>2, <3>1 DEF PersonTypes, PersonClears, InPty, Text
    <3>2. CASE PersonEnters
      <4>1. pty' = Append(pty, Key("Enter")) /\ Key("Enter") # Text(m)
        BY <3>2, TextOf, InputsAreInput DEF PersonEnters, Type
      <4>2. /\ DOMAIN pty' = 1..(Len(pty) + 1) /\ DOMAIN pty = 1..Len(pty) /\ Len(pty) \in Nat
            /\ pty'[Len(pty) + 1] = Key("Enter") /\ \A i \in DOMAIN pty : pty'[i] = pty[i]
        BY <1>5, <4>1
      <4>3. QED BY <2>2, <4>1, <4>2 DEF InPty, Text
    <3>3. QED BY <1>11, <3>1, <3>2
  <2>6. Occurrences(composer, m) = 0 /\ Occurrences(composer', m) = 0
    <3>1. /\ Occurrences(composer, m) \in Nat /\ ~(Occurrences(composer, m) > 0)
      BY <1>5, <2>2, OccursWhere DEF InComposer
    <3>2. /\ Occurrences(composer', m) \in Nat /\ ~(Occurrences(composer', m) > 0)
      BY <2>4, OccursWhere DEF InComposer
    <3>3. QED BY <3>1, <3>2
  <2>7. (Arrived(m)' <=> Arrived(m)) /\ (NoCopy(m)' <=> NoCopy(m))
    BY <2>1, <2>2, <2>4, <2>5 DEF Arrived, NoCopy
  <2>8. OneCopy(m)'
    BY <1>3, <2>1, <2>5, <2>6 DEF OneCopy, OneInPty, InPty, Text
  <2>9. PasteIsSound(m)'
    BY <1>4, <2>2 DEF PasteIsSound
  <2>10. QED BY <1>6, <2>3, <2>7, <2>8, <2>9
<1>12. QED BY <1>7, <1>8, <1>9, <1>10, <1>11 DEF Terminal

(* A request that waits to send finds no text before it. *)
LEMMA InputStep ==
    ASSUME TuiMayLag = FALSE, Types, RecordInv, InputIsFree, [Next]_vars
    PROVE  InputIsFree'
<1>0. pty \in Seq(Input)
  BY DEF Types, TerminalTypes
<1>1. ASSUME UNCHANGED pty, ~PastePending \/ handler' \in {None, handler} \/ handler'.pc \notin {"type", "paste"} PROVE InputIsFree'
  BY <1>1 DEF InputIsFree, PastePending
<1>2. ASSUME NEW m \in Messages, Request(m) PROVE InputIsFree'
  BY <1>1, <1>2 DEF Request, RefusesReusedId, AnswersDuplicate, StartsShell, RefusesDraft, StartsPaste, Continues,
                    Arrives, Settled, terminal
<1>3. ASSUME Owner PROVE InputIsFree'
  <2>1. ASSUME NEW pc \in {"enter", "record", "key", "search"}, handler # None, Goto(pc)
        PROVE  handler'.pc = pc
    <3>1. handler' = [handler EXCEPT !.pc = pc] /\ handler \in Handler
      BY <2>1 DEF Goto, Types, RequestTypes
    <3>2. QED BY <3>1 DEF Handler
  <2>2. CASE ShellTypes \/ ShellEnters
    BY <2>1, <2>2 DEF ShellTypes, ShellEnters, At, InputIsFree
  <2>3. CASE ShellAccepts \/ RecoverFinds \/ FindsEvidence
    BY <1>1, <2>3 DEF ShellAccepts, RecoverFinds, FindsEvidence, AcceptSeen, AcceptUnseen, Accept, terminal
  <2>4. CASE Pastes
    BY <2>4, PasteTypes DEF InputIsFree, Types
  <2>5. CASE PressesKey
    BY <2>5, KeyTypes DEF InputIsFree, Types
  <2>6. CASE Confirms \/ RecoverLooks
    BY <1>1, <2>1, <2>6 DEF Confirms, RecoverLooks, At, terminal
  <2>7. CASE ConfirmTimesOut \/ RecoverGivesUp \/ TmuxFails \/ OwnerRestarts
    BY <1>1, <2>7 DEF ConfirmTimesOut, RecoverGivesUp, TmuxFails, OwnerRestarts, Fail, terminal
  <2>8. CASE FindsNoEvidence
    BY <1>1, <2>1, <2>8 DEF FindsNoEvidence, At, Fail, terminal
  <2>9. QED BY <1>3, <2>2, <2>3, <2>4, <2>5, <2>6, <2>7, <2>8 DEF Owner
<1>4. ASSUME Terminal PROVE InputIsFree'
  <2>1. handler' = handler
    BY <1>4 DEF Terminal, TuiText, TuiIgnoresKey, CodexTakes, ShellTakes, Takes, CodexRecords, CodexTurnEnds,
                PersonTypes, PersonClears, PersonEnters, PersonActs
  <2>2. CASE UNCHANGED pty
    BY <1>1, <2>1, <2>2
  <2>3. CASE TuiText
    <3>1. pty # <<>> /\ Head(pty).kind = "text"
      BY <2>3 DEF TuiText
    <3>2. 1 \in DOMAIN pty /\ Head(pty) = pty[1]
      BY <1>0, <3>1
    <3>3. PastePending
      BY <3>1, <3>2 DEF PastePending
    <3>4. QED BY <2>1, <3>3 DEF InputIsFree
  <2>4. CASE TuiKey
    <3>1. PastePending' => PastePending
      <4>1. /\ pty' = Tail(pty) /\ Len(pty) \in Nat /\ DOMAIN pty = 1..Len(pty) /\ DOMAIN pty' = 1..(Len(pty) - 1)
            /\ \A i \in 1..(Len(pty) - 1) : pty'[i] = pty[i + 1]
        BY <1>0, <2>4, PtyTail DEF TuiKey
      <4>2. \A i \in DOMAIN pty' : i + 1 \in DOMAIN pty /\ pty'[i] = pty[i + 1]
        BY <4>1
      <4>3. QED BY <4>2 DEF PastePending
    <3>2. QED BY <2>1, <3>1 DEF InputIsFree
  <2>5. CASE PersonEnters
    <3>1. pty' = Append(pty, Key("Enter")) /\ Key("Enter").kind # "text"
      BY <2>5, InputsAreInput DEF PersonEnters, Type
    <3>2. \A i \in DOMAIN pty' : pty'[i].kind = "text" => i \in DOMAIN pty /\ pty'[i] = pty[i]
      BY <1>0, <3>1
    <3>3. PastePending' => PastePending
      BY <3>2 DEF PastePending
    <3>4. QED BY <2>1, <3>3 DEF InputIsFree
  <2>6. QED BY <1>4, <2>2, <2>3, <2>4, <2>5 DEF Terminal, TuiIgnoresKey, CodexTakes, ShellTakes, Takes, CodexRecords,
                                               CodexTurnEnds, PersonTypes, PersonClears
<1>5. CASE UNCHANGED vars
  BY <1>1, <1>5 DEF vars
<1>6. QED BY <1>2, <1>3, <1>4, <1>5 DEF Next
(* What is taken is not given back. *)
LEMMA TakenGrows ==
    ASSUME Types, [Next]_vars
    PROVE  \A m \in Messages : taken[m] \in Nat /\ taken'[m] \in Nat /\ taken[m] <= taken'[m]
<1>1. \A m \in Messages : taken[m] \in Nat
  BY DEF Types, TerminalTypes
<1>2. CASE Takes
  <2>1. \A m \in Messages : taken'[m] = taken[m] + Occurrences(composer, m) /\ Occurrences(composer, m) \in Nat
    BY <1>2, TakenTypes, OccursWhere DEF Types, TerminalTypes
  <2>2. QED BY <1>1, <2>1
<1>3. CASE UNCHANGED taken
  BY <1>1, <1>3
<1>4. UNCHANGED taken \/ Takes
  <2>1. (\E m \in Messages : Request(m)) => UNCHANGED taken
    BY DEF Request, RefusesReusedId, AnswersDuplicate, StartsShell, RefusesDraft, StartsPaste, Continues, Arrives, terminal
  <2>2. Owner => UNCHANGED taken
    BY DEF Owner, ShellTypes, ShellEnters, ShellAccepts, Pastes, Confirms, ConfirmTimesOut, RecoverLooks, RecoverFinds,
         RecoverGivesUp, PressesKey, FindsEvidence, FindsNoEvidence, TmuxFails, OwnerRestarts, terminal
  <2>3. Terminal => UNCHANGED taken \/ Takes
    BY DEF Terminal, TuiText, TuiIgnoresKey, CodexTakes, ShellTakes, CodexRecords, CodexTurnEnds,
         PersonTypes, PersonClears, PersonEnters, PersonActs
  <2>4. QED BY <2>1, <2>2, <2>3 DEF Next, vars
<1>5. QED BY <1>2, <1>3, <1>4

(* The rollout and the queue show what was taken. *)
LEMMA EvidenceStep ==
    ASSUME Types, EvidenceInv, [Next]_vars
    PROVE  EvidenceInv'
<1>0. /\ queue \in Seq(Seq(Piece)) /\ starting \in Seq(Seq(Piece)) /\ composer \in Seq(Piece)
      /\ rollout \in Seq(Texts \cup {Human})
  BY DEF Types, TerminalTypes
<1>1. \A m \in Messages : taken[m] \in Nat /\ taken'[m] \in Nat /\ taken[m] <= taken'[m]
  BY TakenGrows
<1>2. ASSUME NEW contents \in Seq(Seq(Piece)), ShownWasTaken(contents), NEW i \in DOMAIN contents, NEW j \in DOMAIN contents[i],
             contents[i][j] # Human
      PROVE  taken'[contents[i][j]] > 0
  <2>1. contents[i][j] \in Messages
    BY <1>2 DEF Piece
  <2>2. taken[contents[i][j]] > 0
    BY <1>2 DEF ShownWasTaken
  <2>3. QED BY <1>1, <2>1, <2>2
<1>3. ASSUME \A i \in DOMAIN rollout : \A m \in Messages \ Alike : rollout[i] = m.text => taken[m] > 0
      PROVE  \A i \in DOMAIN rollout : \A m \in Messages \ Alike : rollout[i] = m.text => taken'[m] > 0
  BY <1>1, <1>3
<1>4. CASE UNCHANGED <<queue, starting, rollout>>
  BY <1>0, <1>2, <1>3, <1>4 DEF EvidenceInv, ShownWasTaken
<1>5. ASSUME NEW contents \in Seq(Seq(Piece)), ShownWasTaken(contents), NEW c \in Seq(Piece),
             \A j \in DOMAIN c : c[j] # Human => taken'[c[j]] > 0
      PROVE  \A i \in DOMAIN Append(contents, c) : \A j \in DOMAIN Append(contents, c)[i] :
                 Append(contents, c)[i][j] # Human => taken'[Append(contents, c)[i][j]] > 0
  <2>1. /\ DOMAIN Append(contents, c) = 1..(Len(contents) + 1) /\ DOMAIN contents = 1..Len(contents) /\ Len(contents) \in Nat
        /\ \A i \in DOMAIN contents : Append(contents, c)[i] = contents[i]
        /\ Append(contents, c)[Len(contents) + 1] = c
    BY <1>5
  <2>2. ASSUME NEW i \in DOMAIN Append(contents, c)
        PROVE  \A j \in DOMAIN Append(contents, c)[i] :
                   Append(contents, c)[i][j] # Human => taken'[Append(contents, c)[i][j]] > 0
    <3>1. CASE i \in DOMAIN contents
      BY <1>2, <1>5, <2>1, <3>1
    <3>2. CASE i = Len(contents) + 1
      BY <1>5, <2>1, <3>2
    <3>3. QED BY <2>1, <2>2, <3>1, <3>2
  <2>3. QED BY <2>2
<1>6. ASSUME NEW contents \in Seq(Seq(Piece)), ShownWasTaken(contents), contents # <<>>
      PROVE  /\ \A i \in DOMAIN Tail(contents) : \A j \in DOMAIN Tail(contents)[i] :
                    Tail(contents)[i][j] # Human => taken'[Tail(contents)[i][j]] > 0
             /\ \A j \in DOMAIN Head(contents) : Head(contents)[j] # Human => taken'[Head(contents)[j]] > 0
  <2>1. /\ DOMAIN Tail(contents) = 1..(Len(contents) - 1) /\ DOMAIN contents = 1..Len(contents) /\ Len(contents) \in Nat
        /\ Len(contents) > 0 /\ Head(contents) = contents[1]
        /\ \A i \in 1..(Len(contents) - 1) : Tail(contents)[i] = contents[i + 1]
    BY <1>6
  <2>2. 1 \in DOMAIN contents /\ \A i \in DOMAIN Tail(contents) : i + 1 \in DOMAIN contents /\ Tail(contents)[i] = contents[i + 1]
    BY <2>1
  <2>3. QED BY <1>2, <1>6, <2>1, <2>2
<1>7. ShownWasTaken(queue) /\ ShownWasTaken(starting)
  BY DEF EvidenceInv
<1>8. CASE CodexTakes
  <2>1. \A j \in DOMAIN composer : composer[j] # Human => taken'[composer[j]] > 0
    <3> SUFFICES ASSUME NEW j \in DOMAIN composer, composer[j] # Human PROVE taken'[composer[j]] > 0
      OBVIOUS
    <3>1. composer[j] \in Messages
      BY <1>0 DEF Piece
    <3>2. Occurrences(composer, composer[j]) > 0 /\ Occurrences(composer, composer[j]) \in Nat
      BY <1>0, OccursWhere
    <3>3. taken'[composer[j]] = taken[composer[j]] + Occurrences(composer, composer[j])
      BY <1>8, <3>1, TakenTypes DEF CodexTakes, Types
    <3>4. QED BY <1>1, <3>1, <3>2, <3>3
  <2>2. /\ queue' \in {queue, Append(queue, composer)} /\ starting' \in {starting, Append(starting, composer)}
        /\ rollout' = rollout
    BY <1>8 DEF CodexTakes, Takes
  <2>3. ShownWasTaken(queue)'
    BY <1>0, <1>2, <1>5, <1>7, <2>1, <2>2 DEF ShownWasTaken
  <2>4. ShownWasTaken(starting)'
    BY <1>0, <1>2, <1>5, <1>7, <2>1, <2>2 DEF ShownWasTaken
  <2>5. QED BY <1>3, <2>2, <2>3, <2>4 DEF EvidenceInv
<1>9. CASE CodexRecords
  <2> DEFINE content == Head(starting)
             line == IF Len(content) = 1 /\ content[1] # Human THEN content[1].text ELSE Human
  <2>1. starting # <<>> /\ starting' = Tail(starting) /\ queue' = queue /\ rollout' = Append(rollout, line)
    BY <1>9 DEF CodexRecords
  <2>2. content \in Seq(Piece) /\ \A j \in DOMAIN content : content[j] # Human => taken'[content[j]] > 0
    BY <1>0, <1>6, <1>7, <2>1
  <2>3. ASSUME NEW m \in Messages \ Alike, line = m.text PROVE taken'[m] > 0
    <3>1. m.text # Human
      BY NamesAreApart DEF Texts
    <3>2. Len(content) = 1 /\ content[1] # Human /\ content[1].text = m.text
      BY <2>3, <3>1
    <3>3. content[1] = m
      <4>1. content[1] \in Messages
        BY <2>2, <3>2 DEF Piece
      <4>2. QED BY <3>2, <4>1, TextIsOwn
    <3>4. QED BY <2>2, <3>2, <3>3
  <2>4. ShownWasTaken(starting)' /\ ShownWasTaken(queue)'
    BY <1>0, <1>2, <1>6, <1>7, <2>1 DEF ShownWasTaken
  <2> HIDE DEF line
  <2>5. \A i \in DOMAIN rollout' : (i \in DOMAIN rollout /\ rollout'[i] = rollout[i]) \/ rollout'[i] = line
    BY <1>0, <2>1
  <2>6. \A i \in DOMAIN rollout' : \A m \in Messages \ Alike : rollout'[i] = m.text => taken'[m] > 0
    BY <1>3, <2>3, <2>5 DEF EvidenceInv
  <2>7. QED BY <2>4, <2>6 DEF EvidenceInv
<1>10. CASE CodexTurnEnds
  <2>1. CASE queue = <<>>
    BY <1>4, <1>10, <2>1 DEF CodexTurnEnds
  <2>2. CASE queue # <<>>
    <3>1. queue' = Tail(queue) /\ starting' = Append(starting, Head(queue)) /\ rollout' = rollout
      BY <1>10, <2>2 DEF CodexTurnEnds
    <3>2. Head(queue) \in Seq(Piece)
      BY <1>0, <2>2
    <3>3. ShownWasTaken(queue)'
      BY <1>0, <1>6, <1>7, <2>2, <3>1 DEF ShownWasTaken
    <3>4. \A j \in DOMAIN Head(queue) : Head(queue)[j] # Human => taken'[Head(queue)[j]] > 0
      BY <1>0, <1>6, <1>7, <2>2
    <3>5. ShownWasTaken(starting)'
      BY <1>0, <1>5, <1>7, <3>1, <3>2, <3>4 DEF ShownWasTaken
    <3>6. QED BY <1>3, <3>1, <3>3, <3>5 DEF EvidenceInv
  <2>3. QED BY <2>1, <2>2
<1>11. UNCHANGED <<queue, starting, rollout>> \/ CodexTakes \/ CodexRecords \/ CodexTurnEnds
  <2>1. (\E m \in Messages : Request(m)) => UNCHANGED <<queue, starting, rollout>>
    BY DEF Request, RefusesReusedId, AnswersDuplicate, StartsShell, RefusesDraft, StartsPaste, Continues, Arrives, terminal
  <2>2. Owner => UNCHANGED <<queue, starting, rollout>>
    BY DEF Owner, ShellTypes, ShellEnters, ShellAccepts, Pastes, Confirms, ConfirmTimesOut, RecoverLooks, RecoverFinds,
         RecoverGivesUp, PressesKey, FindsEvidence, FindsNoEvidence, TmuxFails, OwnerRestarts, terminal
  <2>3. Terminal => UNCHANGED <<queue, starting, rollout>> \/ CodexTakes \/ CodexRecords \/ CodexTurnEnds
    BY DEF Terminal, TuiText, TuiIgnoresKey, ShellTakes, Takes, PersonTypes, PersonClears, PersonEnters, PersonActs
  <2>4. QED BY <2>1, <2>2, <2>3 DEF Next, vars
<1>12. QED BY <1>4, <1>8, <1>9, <1>10, <1>11

(* A message with a receipt was answered. *)
LEMMA AcceptedStep ==
    ASSUME Types, RecordInv, AcceptedIsTold, [Next]_vars
    PROVE  AcceptedIsTold'
<1>1. CASE UNCHANGED <<disk, told>>
  BY <1>1 DEF AcceptedIsTold, IsAccepted, HasRecord
<1>2. ASSUME NEW m \in Messages, AnswersDuplicate(m) PROVE AcceptedIsTold'
  <2>1. m.id \in Ids /\ Existing(m.id) = disk[m.id]
    BY Fields, ExistingIsOnDisk DEF RecordInv
  <2>2. HasRecord(m) /\ handler = None /\ UNCHANGED <<taken, composer, pty, codex>>
    BY <1>2, <2>1 DEF AnswersDuplicate, Known, HasRecord, Arrives, terminal
  <2>3. QED BY <1>2, <2>2, AcceptCopies DEF AnswersDuplicate, AcceptSeen
<1>3. CASE ShellAccepts \/ RecoverFinds \/ FindsEvidence
  <2>1. handler # None /\ handler.pc \in {"record", "search", "wait"} /\ Accept(handler.msg) /\ UNCHANGED <<taken, composer, pty, codex>>
    BY <1>3 DEF ShellAccepts, RecoverFinds, FindsEvidence, At, AcceptUnseen, AcceptSeen, terminal
  <2>2. Handles(handler.msg) /\ handler.msg \in Messages /\ (disk[handler.msg.id] = None \/ HasRecord(handler.msg))
    BY <2>1, Fields DEF RecordInv, RequestIsSound, IsPasted, Handles, Types, RequestTypes
  <2>3. QED BY <2>1, <2>2, AcceptCopies
<1>4. CASE Confirms
  <2>1. handler # None /\ handler.msg \in Messages /\ handler.msg.id \in Ids /\ handler.offset \in Nat /\ handler.queued \in Nat
        /\ handler.msg.text \in Texts
    BY <1>4, Fields DEF Confirms, At, Types, RequestTypes
  <2>2. Pasted(handler.msg.text, handler.offset, handler.queued) \in Record
        /\ Pasted(handler.msg.text, handler.offset, handler.queued).status = "pasted"
    BY <2>1, RecordsAreRecords DEF Pasted
  <2>3. \A i \in Ids : disk'[i] = IF i = handler.msg.id THEN Pasted(handler.msg.text, handler.offset, handler.queued) ELSE disk[i]
    BY <1>4, <2>1, <2>2, RememberTypes DEF Confirms, Types
  <2>4. told' = told
    BY <1>4 DEF Confirms
  <2>5. ASSUME NEW m \in Messages \ Alike, IsAccepted(m)' PROVE m \in told'
    <3>1. m.id \in Ids /\ m.id # handler.msg.id
      BY <2>2, <2>3, <2>5, Fields DEF IsAccepted
    <3>2. IsAccepted(m)
      BY <2>3, <2>5, <3>1 DEF IsAccepted, HasRecord
    <3>3. QED BY <2>4, <3>2 DEF AcceptedIsTold
  <2>6. QED BY <2>5 DEF AcceptedIsTold
<1>5. ASSUME NEW m \in Messages, Request(m) PROVE UNCHANGED <<disk, told>> \/ AnswersDuplicate(m)
  BY <1>5 DEF Request, RefusesReusedId, StartsShell, RefusesDraft, StartsPaste, Continues, records
<1>6. Owner => UNCHANGED <<disk, told>> \/ ShellAccepts \/ RecoverFinds \/ FindsEvidence \/ Confirms
  BY DEF Owner, ShellTypes, ShellEnters, Pastes, ConfirmTimesOut, RecoverLooks,
         RecoverGivesUp, PressesKey, FindsNoEvidence, TmuxFails, OwnerRestarts, Fail, records
<1>7. Terminal => UNCHANGED <<disk, told>>
  BY DEF Terminal, TuiText, TuiIgnoresKey, CodexTakes, ShellTakes, Takes, CodexRecords, CodexTurnEnds,
         PersonTypes, PersonClears, PersonEnters, PersonActs, records
<1>8. QED BY <1>1, <1>2, <1>3, <1>4, <1>5, <1>6, <1>7 DEF Next, vars

(* Every step keeps the invariant. *)
LEMMA DeliveryStep ==
    ASSUME TuiMayLag = FALSE, Types, RecordInv, DeliveryInv, [Next]_vars
    PROVE  DeliveryInv'
<1>1. AcceptedIsTold' /\ InputIsFree' /\ EvidenceInv'
  BY AcceptedStep, InputStep, EvidenceStep DEF DeliveryInv
<1>2. CopiesInv'
  <2>1. CASE UNCHANGED vars
    <3>1. UNCHANGED <<taken, composer, pty, codex, disk, handler, excused>>
      BY <2>1 DEF vars
    <3>2. SUFFICES ASSUME NEW m \in Messages \ Alike, m \notin excused, CopiesAreKnown(m) PROVE CopiesAreKnown(m)'
      BY <3>1 DEF CopiesInv, DeliveryInv
    <3>3. /\ OneCopy(m)' <=> OneCopy(m)
          /\ NoCopy(m)' <=> NoCopy(m)
          /\ Arrived(m)' <=> Arrived(m)
          /\ InPty(m)' <=> InPty(m)
          /\ Unsent(m)' <=> Unsent(m)
          /\ Alone(m)' <=> Alone(m)
      BY <3>1, CopiesFrame
    <3>4. PasteIsSound(m)' /\ (Loose(m)' <=> Loose(m)) /\ (Handles(m)' <=> Handles(m))
      BY <3>1, <3>2, <3>3 DEF CopiesAreKnown, PasteIsSound, Loose, Handles
    <3>5. QED BY <3>1, <3>2, <3>3, <3>4, CopiesStay DEF CopiesAreKnown
  <2>2. QED BY <2>1, RequestCopies, OwnerCopies, TerminalCopies DEF Next, DeliveryInv
<1>3. QED BY <1>1, <1>2 DEF DeliveryInv

(* It holds from the start on. *)
LEMMA DeliveryStarts ==
    ASSUME Init PROVE DeliveryInv
<1>1. AcceptedIsTold /\ InputIsFree
  BY Fields DEF Init, AcceptedIsTold, IsAccepted, HasRecord, InputIsFree
<1>2. EvidenceInv
  BY DEF Init, EvidenceInv, ShownWasTaken
<1>3. ASSUME NEW m \in Messages PROVE CopiesAreKnown(m)
  <2>1. taken[m] = 0 /\ composer = <<>> /\ pty = <<>> /\ handler = None /\ disk[m.id] = None
    BY Fields DEF Init
  <2>2. Occurrences(composer, m) = 0
    <3>1. {i \in DOMAIN composer : composer[i] = m} = {}
      BY <2>1
    <3>2. QED BY <3>1, FS_EmptySet DEF Occurrences
  <2>3. NoCopy(m)
    BY <2>1 DEF NoCopy, InComposer, InPty
  <2>4. OneCopy(m)
    BY <2>1, <2>2 DEF OneCopy, OneInPty, InPty
  <2>5. QED BY <2>1, <2>3, <2>4 DEF CopiesAreKnown, PasteIsSound, Handles, IsPasted, HasRecord
<1>4. QED BY <1>1, <1>2, <1>3 DEF DeliveryInv, CopiesInv

-----------------------------------------------------------------------------
(* The step refinement.                                                    *)

(* A request answers at once only what was told before. *)
LEMMA RequestKeepsPromise ==
    ASSUME Types, RecordInv, DeliveryInv, NEW m \in Messages, Request(m)
    PROVE  [Promise!Next]_(Promise!vars)
<1>1. UNCHANGED <<taken, excused>>
  BY DEF Request, RefusesReusedId, AnswersDuplicate, StartsShell, RefusesDraft, StartsPaste, Continues, Arrives, terminal
<1>2. CASE AnswersDuplicate(m)
  <2>1. Existing(m.id) = disk[m.id]
    BY Fields, ExistingIsOnDisk DEF RecordInv
  <2>2. IsAccepted(m)
    BY <1>2, <2>1 DEF AnswersDuplicate, Known, IsAccepted, HasRecord
  <2>3. told' = told \cup {m} /\ unseen' = unseen
    BY <1>2 DEF AnswersDuplicate, AcceptSeen, Accept
  <2>4. CASE m \in Alike
    <3>1. Promise!Tell(m)
      BY <1>1, <2>3, <2>4 DEF Promise!Tell
    <3>2. QED BY <3>1 DEF Promise!Next
  <2>5. CASE m \notin Alike
    <3>1. m \in told
      BY <2>2, <2>5 DEF DeliveryInv, AcceptedIsTold
    <3>2. QED BY <1>1, <2>3, <3>1 DEF Promise!vars
  <2>6. QED BY <2>4, <2>5
<1>3. CASE ~AnswersDuplicate(m)
  <2>1. UNCHANGED <<told, unseen>>
    BY <1>3 DEF Request, RefusesReusedId, StartsShell, RefusesDraft, StartsPaste, Continues, records
  <2>2. QED BY <1>1, <2>1 DEF Promise!vars
<1>4. QED BY <1>2, <1>3

(* What is found was taken. *)
LEMMA EvidenceIsOfTheMessage ==
    ASSUME Types, RecordInv, DeliveryInv, handler # None, handler.pc \in {"search", "wait"},
           Recorded \/ Queued \/ Submitted, handler.msg \notin excused \cup Alike
    PROVE  taken[handler.msg] > 0
<1> DEFINE x == handler.msg
<1>1. handler \in Handler /\ x \in Messages \ Alike /\ IsPasted(x) /\ handler.offset \in Nat /\ handler.queued \in Nat
  BY Fields DEF Types, RequestTypes, RecordInv, RequestIsSound
<1>2. /\ queue \in Seq(Seq(Piece)) /\ composer \in Seq(Piece) /\ rollout \in Seq(Texts \cup {Human})
  BY DEF Types, TerminalTypes
<1>3. CopiesAreKnown(x)
  BY <1>1 DEF DeliveryInv, CopiesInv
<1>4. CASE Recorded
  <2>1. PICK i \in (handler.offset + 1)..Len(rollout) : rollout[i] = x.text
    BY <1>4 DEF Recorded
  <2>2. i \in DOMAIN rollout
    BY <1>1, <1>2
  <2>3. QED BY <1>1, <2>1, <2>2 DEF DeliveryInv, EvidenceInv
<1>5. CASE Queued
  <2>1. QueuedCount(x.text) \in Nat /\ QueuedCount(x.text) > 0
    BY <1>1, <1>2, <1>5, QueuedWhere DEF Queued
  <2>2. PICK i \in DOMAIN queue : Holds(queue[i], x.text)
    BY <1>2, <2>1, QueuedWhere
  <2>3. PICK j \in DOMAIN queue[i] : queue[i][j] # Human /\ queue[i][j].text = x.text
    BY <2>2 DEF Holds
  <2>4. queue[i][j] \in Messages
    BY <1>2, <2>3 DEF Piece
  <2>5. queue[i][j] = x
    BY <1>1, <2>3, <2>4, TextIsOwn
  <2>6. QED BY <2>3, <2>5 DEF DeliveryInv, EvidenceInv, ShownWasTaken
<1>6. CASE Submitted
  <2>1. ~InComposer(x)
    BY <1>1, <1>6, TextOf DEF Submitted, Holds, InComposer
  <2>2. QED BY <1>1, <1>3, <2>1 DEF CopiesAreKnown, Arrived
<1>7. QED BY <1>4, <1>5, <1>6

(* The owner tells what it has evidence of, and excuses what it cuts off. *)
LEMMA OwnerKeepsPromise ==
    ASSUME Types, RecordInv, DeliveryInv, Owner, Types'
    PROVE  [Promise!Next]_(Promise!vars)
<1>0. taken' = taken
  BY DEF Owner, ShellTypes, ShellEnters, ShellAccepts, Pastes, Confirms, ConfirmTimesOut, RecoverLooks, RecoverFinds,
         RecoverGivesUp, PressesKey, FindsEvidence, FindsNoEvidence, TmuxFails, OwnerRestarts, terminal
<1>1. CASE ShellAccepts
  <2>1. handler.msg \in Messages
    BY <1>1, Fields DEF ShellAccepts, At, Types, RequestTypes
  <2>2. Promise!Tell(handler.msg)
    BY <1>0, <1>1 DEF ShellAccepts, AcceptUnseen, Accept, Promise!Tell
  <2>3. QED BY <2>1, <2>2 DEF Promise!Next
<1>2. CASE RecoverFinds \/ FindsEvidence
  <2>1. handler # None /\ handler.msg \in Messages /\ handler.pc \in {"search", "wait"} /\ (Recorded \/ Queued \/ Submitted)
    BY <1>2, Fields DEF RecoverFinds, FindsEvidence, At, Types, RequestTypes
  <2>2. taken[handler.msg] > 0 \/ handler.msg \in excused \cup Alike
    BY <2>1, EvidenceIsOfTheMessage
  <2>3. Promise!Tell(handler.msg)
    BY <1>0, <1>2, <2>2 DEF RecoverFinds, FindsEvidence, AcceptSeen, Accept, Promise!Tell
  <2>4. QED BY <2>1, <2>3 DEF Promise!Next
<1>3. CASE ~(ShellAccepts \/ RecoverFinds \/ FindsEvidence)
  <2>1. UNCHANGED <<told, unseen>> /\ excused \subseteq excused'
    BY <1>3 DEF Owner, ShellTypes, ShellEnters, Pastes, Confirms, ConfirmTimesOut, RecoverLooks,
         RecoverGivesUp, PressesKey, FindsNoEvidence, TmuxFails, OwnerRestarts, Fail, records
  <2>2. Promise!Excuse
    BY <1>0, <2>1, AlikeAreMessages DEF Promise!Excuse, Types
  <2>3. QED BY <2>2 DEF Promise!Next
<1>4. QED BY <1>1, <1>2, <1>3

(* The terminal takes a message once. *)
LEMMA TerminalKeepsPromise ==
    ASSUME Types, DeliveryInv, Terminal, Types'
    PROVE  [Promise!Next]_(Promise!vars)
<1>0. UNCHANGED <<told, unseen>> /\ excused \subseteq excused'
  BY DEF Terminal, TuiText, TuiIgnoresKey, CodexTakes, ShellTakes, Takes, CodexRecords, CodexTurnEnds,
         PersonTypes, PersonClears, PersonEnters, PersonActs, records
<1>1. CASE CodexTakes \/ ShellTakes
  <2>1. Takes /\ excused' = excused
    BY <1>1 DEF CodexTakes, ShellTakes, Takes
  <2>2. taken' \in [Messages -> Nat]
    BY DEF Types, TerminalTypes
  <2>3. \A m \in Messages \ (excused \cup Alike) : taken'[m] = taken[m] \/ (taken[m] = 0 /\ taken'[m] = 1)
    BY <2>1, CopiesAreTaken DEF DeliveryInv, CopiesInv, CopiesAreKnown
  <2>4. \A m \in Messages : taken[m] <= taken'[m]
    BY TakenGrows DEF Next
  <2>5. Promise!Take
    BY <1>0, <2>1, <2>2, <2>3, <2>4 DEF Promise!Take
  <2>6. QED BY <2>5 DEF Promise!Next
<1>2. CASE ~(CodexTakes \/ ShellTakes)
  <2>1. taken' = taken
    BY <1>2 DEF Terminal, TuiText, TuiIgnoresKey, CodexRecords, CodexTurnEnds, PersonTypes, PersonClears, PersonEnters, PersonActs
  <2>2. Promise!Excuse
    BY <1>0, <2>1, AlikeAreMessages DEF Promise!Excuse, Types
  <2>3. QED BY <2>2 DEF Promise!Next
<1>3. QED BY <1>1, <1>2

(* Over retries, confirmations that do not come, lost keys and restarts, a *)
(* message that has a text of its own and that nobody excused is submitted *)
(* at most once, and "accepted" is said of it only after that              *)
(* (DeliveryService.send).                                                 *)
THEOREM DeliveryKeepsThePromise ==
    ASSUME TuiMayLag = FALSE
    PROVE  Spec => KeepsPromise
<1>1. Init => Promise!Init /\ DeliveryInv
  BY DeliveryStarts, AlikeAreMessages DEF Init, Promise!Init
<1>2. Types /\ RecordInv /\ DeliveryInv /\ [Next]_vars => DeliveryInv'
  BY DeliveryStep
<1>3. Types /\ Types' /\ RecordInv /\ DeliveryInv /\ [Next]_vars => [Promise!Next]_(Promise!vars)
  <2>1. ASSUME UNCHANGED vars PROVE UNCHANGED Promise!vars
    BY <2>1 DEF vars, Promise!vars
  <2>2. QED BY <2>1, RequestKeepsPromise, OwnerKeepsPromise, TerminalKeepsPromise DEF Next
<1>4. QED BY <1>1, <1>2, <1>3, AlwaysTyped, AlwaysRecorded, PTL DEF Spec, KeepsPromise, Promise!Spec

(* A retry, a lost key or a restart never makes Codex take such a message  *)
(* again, and its browser is not told "accepted" before it was taken.      *)
THEOREM DeliveredOnce ==
    ASSUME TuiMayLag = FALSE
    PROVE  Spec => []Promise!TakenAtMostOnce /\ []Promise!ToldWasTaken
BY DeliveryKeepsThePromise, PromiseAtMostOnce, PromiseTellsTheTruth, PTL DEF KeepsPromise
=============================================================================
