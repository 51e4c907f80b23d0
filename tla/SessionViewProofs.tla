-------------------------- MODULE SessionViewProofs -------------------------
(***************************************************************************)
(* What a browser is shown of a session: the sheets it answers and the     *)
(* commands it runs, and the transcript, the history and the tools of its  *)
(* rollout.                                                                *)
(*                                                                         *)
(* Of Interactions, for any sets of requests and commands: one request is  *)
(* open at a time and it holds the slot, the sheet that is shown is live,  *)
(* approvals come from the request's own sheet and are final, and a        *)
(* command runs at most once and is recorded truly.                        *)
(*                                                                         *)
(* Of RolloutReaders, for any file and any limits: what a reader keeps of  *)
(* a rollout is what a reading of the whole file would give, however it    *)
(* came to it.  A record is found by its rank among the records of its     *)
(* sort (InOrder), so every reader is first shown to follow its own truth  *)
(* by one record; then what it keeps fits the generation of the file; and  *)
(* then a page fits what the browser holds already.                        *)
(***************************************************************************)
EXTENDS Interactions, RolloutReaders, WellFoundedInduction, SequenceTheorems, FiniteSetTheorems, TLAPS

(* The step each action takes on the broker's variables.                   *)
BrokerSteps ==
    \/ UNCHANGED broker
    \/ \E r \in Requests : Asks(r) \/ RequestEnds(r)
    \/ \E i \in Sheets : (\E what \in {"yes", "no"} : Choose(i, what)) \/ CancelRequest(i)
    \/ DropRequests

(* Every step is one of those, as far as the broker can see. *)
LEMMA StepsOfBroker == [Next]_vars => BrokerSteps
BY DEF Next, Person, CommandEnds, PickEnds, BrokerSteps, vars, broker, Pick, CancelPicker, Begin, Completes,
       OpensPicker, Fails, CallerGivesUp, PickDone, PickFails, ConnectionLost, Reconnects, OwnerRestarts, DropRequests

-----------------------------------------------------------------------------
(* Types.                                                                  *)

(* Every step keeps the types. *)
LEMMA TypeStep == TypeOK /\ [Next]_vars => TypeOK'
<1> SUFFICES ASSUME TypeOK, [Next]_vars PROVE TypeOK'
  OBVIOUS
<1> USE NamesAssumption, AnswersAssumption DEF broker, commands, records
<1>1. ASSUME NEW r \in Requests, Asks(r) PROVE TypeOK'
  <2>1. CASE Declined(r)
    BY <1>1, <2>1 DEF Asks, Declined, TypeOK
  <2>2. CASE Opened(r)
    BY <1>1, <2>2 DEF Asks, Opened, Show, TypeOK, Sheets
  <2>3. QED BY <1>1, <2>1, <2>2 DEF Asks
<1>2. ASSUME NEW r \in Requests, RequestEnds(r) PROVE TypeOK'
  BY <1>2 DEF RequestEnds, Leaves, Hide, TypeOK
<1>3. ASSUME NEW i \in Sheets, NEW what \in {"yes", "no"}, Choose(i, what) PROVE TypeOK'
  BY <1>3 DEF Choose, Decide, RequestOf, TypeOK
<1>4. ASSUME NEW i \in Sheets, CancelRequest(i) PROVE TypeOK'
  BY <1>4 DEF CancelRequest, Decide, TypeOK
<1>5. ASSUME NEW p \in Pickers, Pick(p) PROVE TypeOK'
  BY <1>5 DEF Pick, TypeOK
<1>6. ASSUME NEW p \in Pickers, CancelPicker(p) PROVE TypeOK'
  BY <1>6 DEF CancelPicker, ClosePicker, Hide, Settle, Row, TypeOK, Commands
<1>7. ASSUME NEW c \in Commands, Begin(c) PROVE TypeOK'
  BY <1>7 DEF Begin, Row, TypeOK
<1>8. ASSUME NEW c \in Commands, Completes(c) PROVE TypeOK'
  BY <1>8 DEF Completes, Asked, Runs, More, Row, TypeOK
<1>9. ASSUME NEW c \in Commands, OpensPicker(c) PROVE TypeOK'
  BY <1>9 DEF OpensPicker, Asked, Show, Row, TypeOK, Sheets
<1>10. ASSUME NEW c \in Commands, Fails(c) PROVE TypeOK'
  BY <1>10 DEF Fails, Asked, MayHaveRun, Runs, More, Row, TypeOK
<1>11. ASSUME NEW c \in Commands, CallerGivesUp(c) PROVE TypeOK'
  BY <1>11 DEF CallerGivesUp, Asked, TypeOK
<1>12. ASSUME NEW p \in Pickers, PickDone(p) PROVE TypeOK'
  BY <1>12 DEF PickDone, Answered, ClosePicker, Hide, Settle, Row, TypeOK, Commands
<1>13. ASSUME NEW p \in Pickers, PickFails(p) PROVE TypeOK'
  BY <1>13 DEF PickFails, Answered, MayHaveSettled, Settle, TypeOK
<1>14. CASE ConnectionLost
  BY <1>14 DEF ConnectionLost, TypeOK
<1>15. CASE Reconnects
  BY <1>15 DEF Reconnects, DropRequests, TypeOK
<1>16. CASE OwnerRestarts
  <2>1. request' \in [Requests -> {"unasked", "waiting", "decided", "ended"}]
    BY <1>16 DEF OwnerRestarts, DropRequests, TypeOK
  <2>2. rows' \in [Commands -> {"none", "running", "waiting", "completed", "failed"}]
    BY <1>16 DEF OwnerRestarts, TypeOK
  <2>3. ran' \in [Direct -> 0..2]
    BY <1>16 DEF OwnerRestarts, More, TypeOK
  <2>4. settled' \subseteq Pickers
    BY <1>16 DEF OwnerRestarts, TypeOK
  <2>5. answers' \in [Pickers -> 0..MaxAnswers]
    BY <1>16 DEF OwnerRestarts
  <2>6. QED BY <1>16, <2>1, <2>2, <2>3, <2>4, <2>5 DEF OwnerRestarts, DropRequests, TypeOK
<1>17. CASE UNCHANGED vars
  BY <1>17 DEF vars, TypeOK
<1>18. QED
  BY <1>1, <1>2, <1>3, <1>4, <1>5, <1>6, <1>7, <1>8, <1>9, <1>10, <1>11, <1>12, <1>13, <1>14,
     <1>15, <1>16, <1>17 DEF Next, Person, CommandEnds, PickEnds

(* Every variable of the session keeps its type. *)
THEOREM TypeCorrect == Spec => []TypeOK
<1>1. Init => TypeOK
  BY NamesAssumption, AnswersAssumption DEF Init, TypeOK
<1>2. QED BY <1>1, TypeStep, PTL DEF Spec

-----------------------------------------------------------------------------
(* The slot and the sheet.  OneRequestWaits is inductive; SheetsAreLive is *)
(* inductive beside it.                                                    *)

(* Closing the connection of open requests closes them all. *)
LEMMA DropFreesSlot ==
    ASSUME TypeOK, DropRequests
    PROVE  OneRequestWaits'
BY NamesAssumption DEF DropRequests, OneRequestWaits, Open, TypeOK, Sheets

(* Every step keeps the one open request in the slot. *)
LEMMA SlotStep == TypeOK /\ OneRequestWaits /\ [Next]_vars => OneRequestWaits'
<1> SUFFICES ASSUME TypeOK, OneRequestWaits, [Next]_vars PROVE OneRequestWaits'
  OBVIOUS
<1> USE NamesAssumption DEF OneRequestWaits, Open, Sheets
<1>1. ASSUME NEW r \in Requests, Asks(r) PROVE OneRequestWaits'
  BY <1>1 DEF Asks, Declined, Opened, SlotFree, TypeOK
<1>2. ASSUME NEW r \in Requests, RequestEnds(r) PROVE OneRequestWaits'
  BY <1>2 DEF RequestEnds, Leaves, TypeOK
<1>3. ASSUME NEW i \in Sheets, NEW what \in {"yes", "no"}, Choose(i, what) PROVE OneRequestWaits'
  BY <1>3 DEF Choose, Decide, Undecided, RequestOf, TypeOK
<1>4. ASSUME NEW i \in Sheets, CancelRequest(i) PROVE OneRequestWaits'
  BY <1>4 DEF CancelRequest, Decide, Undecided, TypeOK
<1>5. CASE DropRequests
  BY <1>5, DropFreesSlot
<1>6. CASE UNCHANGED broker
  BY <1>6 DEF broker
<1>7. QED BY StepsOfBroker, <1>1, <1>2, <1>3, <1>4, <1>5, <1>6 DEF BrokerSteps

(* At most one request is open, and it holds the slot. *)
THEOREM OneAtATime == Spec => []OneRequestWaits
<1>1. Init => OneRequestWaits
  <2> SUFFICES ASSUME Init, NEW r \in Requests PROVE Open(r) <=> slot = r
    BY DEF OneRequestWaits
  <2>1. request[r] = "unasked" /\ slot = None
    BY DEF Init
  <2>2. r # None
    BY NamesAssumption DEF Sheets
  <2>3. QED BY <2>1, <2>2 DEF Open
<1>2. QED BY <1>1, SlotStep, TypeCorrect, PTL DEF Spec

(* Hiding a sheet whose picker has closed leaves a live sheet. *)
LEMMA ClosingLeavesLiveSheet ==
    ASSUME TypeOK, SheetsAreLive, NEW p \in Pickers, ClosePicker(p), UNCHANGED slot
    PROVE  SheetsAreLive'
BY NamesAssumption DEF ClosePicker, Hide, SheetsAreLive, TypeOK, Sheets

(* Every step keeps the sheet live. *)
LEMMA SheetStep == TypeOK /\ OneRequestWaits /\ SheetsAreLive /\ [Next]_vars => SheetsAreLive'
<1> SUFFICES ASSUME TypeOK, OneRequestWaits, SheetsAreLive, [Next]_vars PROVE SheetsAreLive'
  OBVIOUS
<1> USE NamesAssumption DEF Sheets, broker, commands
<1>1. ASSUME NEW r \in Requests, Asks(r) PROVE SheetsAreLive'
  BY <1>1 DEF Asks, Declined, Opened, Show, SheetsAreLive, TypeOK
<1>2. ASSUME NEW r \in Requests, RequestEnds(r) PROVE SheetsAreLive'
  BY <1>2 DEF RequestEnds, Leaves, Hide, SheetsAreLive, OneRequestWaits, Open, TypeOK
<1>3. ASSUME NEW c \in Commands, OpensPicker(c) PROVE SheetsAreLive'
  BY <1>3 DEF OpensPicker, Show, SheetsAreLive
<1>4. ASSUME NEW p \in Pickers, CancelPicker(p) \/ PickDone(p) PROVE SheetsAreLive'
  BY <1>4, ClosingLeavesLiveSheet DEF CancelPicker, PickDone
<1>5. CASE Reconnects
  BY <1>5 DEF Reconnects, DropRequests, SheetsAreLive, TypeOK
<1>6. CASE OwnerRestarts
  BY <1>6 DEF OwnerRestarts, SheetsAreLive
<1>7. CASE UNCHANGED <<slot, shown, picker>>
  BY <1>7 DEF SheetsAreLive
<1>8. (\E r \in Requests : Asks(r) \/ RequestEnds(r)) \/ (\E c \in Commands : OpensPicker(c))
        \/ (\E p \in Pickers : CancelPicker(p) \/ PickDone(p)) \/ Reconnects \/ OwnerRestarts
        \/ UNCHANGED <<slot, shown, picker>>
  BY DEF Next, Person, CommandEnds, PickEnds, vars, Choose, CancelRequest, Decide, Pick, Begin, Completes,
         Fails, CallerGivesUp, PickFails, ConnectionLost
<1>9. QED BY <1>1, <1>2, <1>3, <1>4, <1>5, <1>6, <1>7, <1>8

(* What the session shows is live. *)
THEOREM LiveSheets == Spec => []SheetsAreLive
<1>1. Init => SheetsAreLive
  BY NamesAssumption DEF Init, SheetsAreLive, Sheets
<1>2. QED BY <1>1, SheetStep, OneAtATime, TypeCorrect, PTL DEF Spec

-----------------------------------------------------------------------------
(* Decisions.  ApprovedOnItsSheet needs to know that a decision is made    *)
(* once: an undecided request has no decision, and a request Codex has     *)
(* been answered is over.                                                  *)

DecisionsFollow ==
    \A r \in Requests :
        /\ request[r] \in {"unasked", "waiting"} => decision[r] = "none"
        /\ decision[r] = "yes" => sheet[r] = r
        /\ heard[r] = "yes" => request[r] = "ended" /\ sheet[r] = r

(* Every step keeps decisions with the requests they are for. *)
LEMMA DecisionStep == TypeOK /\ DecisionsFollow /\ [Next]_vars => DecisionsFollow'
<1> SUFFICES ASSUME TypeOK, DecisionsFollow, [Next]_vars PROVE DecisionsFollow'
  OBVIOUS
<1> USE NamesAssumption DEF DecisionsFollow, Sheets
<1>1. ASSUME NEW r \in Requests, Asks(r) PROVE DecisionsFollow'
  BY <1>1 DEF Asks, Declined, Opened, TypeOK
<1>2. ASSUME NEW r \in Requests, RequestEnds(r) PROVE DecisionsFollow'
  BY <1>2 DEF RequestEnds, TypeOK
<1>3. ASSUME NEW i \in Sheets, NEW what \in {"yes", "no"}, Choose(i, what) PROVE DecisionsFollow'
  BY <1>3 DEF Choose, Decide, Undecided, RequestOf, TypeOK
<1>4. ASSUME NEW i \in Sheets, CancelRequest(i) PROVE DecisionsFollow'
  BY <1>4 DEF CancelRequest, Decide, Undecided, TypeOK
<1>5. CASE DropRequests
  BY <1>5 DEF DropRequests, Open, TypeOK
<1>6. CASE UNCHANGED broker
  BY <1>6 DEF broker
<1>7. QED BY StepsOfBroker, <1>1, <1>2, <1>3, <1>4, <1>5, <1>6 DEF BrokerSteps

(* Decisions stay with the requests they are for. *)
LEMMA DecisionsAlwaysFollow == Spec => []DecisionsFollow
<1>1. Init => DecisionsFollow
  BY DEF Init, DecisionsFollow
<1>2. QED BY <1>1, DecisionStep, TypeCorrect, PTL DEF Spec

(* Codex goes ahead only on a yes from the request's own sheet. *)
THEOREM ApprovalIsMeant == Spec => []ApprovedOnItsSheet
<1>1. DecisionsFollow => ApprovedOnItsSheet
  BY DEF DecisionsFollow, ApprovedOnItsSheet
<1>2. QED BY <1>1, DecisionsAlwaysFollow, PTL

(* No step changes a decision once it is made. *)
LEMMA DecisionKept ==
    ASSUME TypeOK, DecisionsFollow, [Next]_vars
    PROVE  \A r \in Requests : decision[r] # "none" => decision'[r] = decision[r]
<1> USE DEF DecisionsFollow, Sheets
<1>1. ASSUME NEW i \in Sheets, NEW what \in {"yes", "no"}, Choose(i, what)
      PROVE  \A r \in Requests : decision[r] # "none" => decision'[r] = decision[r]
  BY <1>1 DEF Choose, Decide, Undecided, RequestOf, TypeOK
<1>2. ASSUME NEW i \in Sheets, CancelRequest(i)
      PROVE  \A r \in Requests : decision[r] # "none" => decision'[r] = decision[r]
  BY <1>2 DEF CancelRequest, Decide, Undecided, TypeOK
<1>3. CASE UNCHANGED decision
  BY <1>3
<1>4. QED BY StepsOfBroker, <1>1, <1>2, <1>3 DEF BrokerSteps, broker, Asks, RequestEnds, DropRequests

(* The first answer counts. *)
THEOREM FirstAnswerWins == Spec => FirstAnswerCounts
<1>1. TypeOK /\ DecisionsFollow /\ [Next]_vars
        => [\A r \in Requests : decision[r] # "none" => decision'[r] = decision[r]]_vars
  BY DecisionKept
<1>2. QED BY <1>1, TypeCorrect, DecisionsAlwaysFollow, PTL DEF Spec, FirstAnswerCounts

-----------------------------------------------------------------------------
(* Commands.  RunsOnce needs the row: a command whose begin is in its RPC  *)
(* has a row and has not run, and one without a row has never been tried.  *)

RowsFollow ==
    \A c \in Direct :
        /\ ran[c] <= 1
        /\ command[c] = "asking" => rows[c] = "running" /\ ran[c] = 0
        /\ rows[c] = "none" => ran[c] = 0

(* The step each action takes on what RowsFollow and RowsAreTrue speak of. *)
CommandSteps ==
    \/ \E c \in Commands : Begin(c) \/ CommandEnds(c)
    \/ \E p \in Pickers : CancelPicker(p) \/ PickEnds(p)
    \/ OwnerRestarts
    \/ UNCHANGED <<command, records>>

(* Every step is one of those. *)
LEMMA StepsOfCommands == [Next]_vars => CommandSteps
BY DEF Next, Person, CommandSteps, vars, commands, records, Choose, CancelRequest, Pick, Asks, RequestEnds,
       ConnectionLost, Reconnects

(* Every step keeps a direct command with its row. *)
LEMMA RowsFollowStep == TypeOK /\ RowsFollow /\ [Next]_vars => RowsFollow'
<1> SUFFICES ASSUME TypeOK, RowsFollow, [Next]_vars PROVE RowsFollow'
  OBVIOUS
<1> USE NamesAssumption DEF RowsFollow, Commands
<1>1. ASSUME NEW c \in Commands, Begin(c) PROVE RowsFollow'
  BY <1>1 DEF Begin, Known, Row, TypeOK
<1>2. ASSUME NEW c \in Commands, Completes(c) PROVE RowsFollow'
  BY <1>2 DEF Completes, Asked, Runs, More, Row, TypeOK
<1>3. ASSUME NEW c \in Commands, OpensPicker(c) PROVE RowsFollow'
  BY <1>3 DEF OpensPicker, Asked, Row, TypeOK
<1>4. ASSUME NEW c \in Commands, Fails(c) PROVE RowsFollow'
  BY <1>4 DEF Fails, Asked, MayHaveRun, Runs, More, Row, TypeOK
<1>5. ASSUME NEW c \in Commands, CallerGivesUp(c) PROVE RowsFollow'
  BY <1>5 DEF CallerGivesUp, Asked, records, TypeOK
<1>6. ASSUME NEW p \in Pickers, CancelPicker(p) PROVE RowsFollow'
  BY <1>6 DEF CancelPicker, Row, TypeOK
<1>7. ASSUME NEW p \in Pickers, PickEnds(p) PROVE RowsFollow'
  BY <1>7 DEF PickEnds, PickDone, PickFails, Row, TypeOK
<1>8. CASE OwnerRestarts
  <2>1. PICK done \in SUBSET {c \in Direct : command[c] = "asking"} :
            ran' = [c \in Direct |-> IF c \in done THEN More(ran[c]) ELSE ran[c]]
    BY <1>8 DEF OwnerRestarts
  <2> SUFFICES ASSUME NEW c \in Direct
               PROVE  /\ ran'[c] <= 1
                      /\ command'[c] # "asking"
                      /\ rows'[c] = "none" => ran'[c] = 0
    BY DEF RowsFollow
  <2>2. command'[c] = "idle" /\ (rows'[c] = "none" => rows[c] = "none")
    BY <1>8 DEF OwnerRestarts
  <2>3. CASE c \in done
    BY <2>1, <2>2, <2>3 DEF More
  <2>4. CASE c \notin done
    BY <2>1, <2>2, <2>4
  <2>5. QED BY <2>3, <2>4
<1>9. CASE UNCHANGED <<command, records>>
  BY <1>9 DEF records
<1>10. QED BY StepsOfCommands, <1>1, <1>2, <1>3, <1>4, <1>5, <1>6, <1>7, <1>8, <1>9 DEF CommandSteps, CommandEnds

(* A durable command is carried out at most once. *)
THEOREM AtMostOneRun == Spec => []RunsOnce
<1>1. Init => RowsFollow
  BY DEF Init, RowsFollow, Commands
<1>2. RowsFollow => RunsOnce
  BY DEF RowsFollow, RunsOnce
<1>3. QED BY <1>1, <1>2, RowsFollowStep, TypeCorrect, PTL DEF Spec

(* Every step keeps the timeline true: ran and settled only grow, and a    *)
(* row is completed together with one of them.                             *)
LEMMA RowsTrueStep == TypeOK /\ RowsAreTrue /\ [Next]_vars => RowsAreTrue'
<1> SUFFICES ASSUME TypeOK, RowsAreTrue, [Next]_vars PROVE RowsAreTrue'
  OBVIOUS
<1> USE NamesAssumption DEF RowsAreTrue, Commands
<1>1. ASSUME NEW c \in Commands, Begin(c) PROVE RowsAreTrue'
  BY <1>1 DEF Begin, Row, TypeOK
<1>2. ASSUME NEW c \in Commands, Completes(c) PROVE RowsAreTrue'
  BY <1>2 DEF Completes, Runs, More, Row, TypeOK
<1>3. ASSUME NEW c \in Commands, OpensPicker(c) PROVE RowsAreTrue'
  BY <1>3 DEF OpensPicker, Row, TypeOK
<1>4. ASSUME NEW c \in Commands, Fails(c) PROVE RowsAreTrue'
  BY <1>4 DEF Fails, MayHaveRun, Runs, More, Row, TypeOK
<1>5. ASSUME NEW c \in Commands, CallerGivesUp(c) PROVE RowsAreTrue'
  BY <1>5 DEF CallerGivesUp, records
<1>6. ASSUME NEW p \in Pickers, CancelPicker(p) PROVE RowsAreTrue'
  BY <1>6 DEF CancelPicker, Settle, Row, TypeOK
<1>7. ASSUME NEW p \in Pickers, PickEnds(p) PROVE RowsAreTrue'
  BY <1>7 DEF PickEnds, PickDone, PickFails, MayHaveSettled, Settle, Row, TypeOK
<1>8. CASE OwnerRestarts
  <2>1. \A c \in Commands : rows'[c] = "completed" => rows[c] = "completed"
    BY <1>8 DEF OwnerRestarts
  <2>2. \A c \in Direct : ran[c] > 0 => ran'[c] > 0
    BY <1>8 DEF OwnerRestarts, More, TypeOK
  <2>3. settled \subseteq settled'
    BY <1>8 DEF OwnerRestarts
  <2>4. QED BY <2>1, <2>2, <2>3
<1>9. CASE UNCHANGED <<command, records>>
  BY <1>9 DEF records
<1>10. QED BY StepsOfCommands, <1>1, <1>2, <1>3, <1>4, <1>5, <1>6, <1>7, <1>8, <1>9 DEF CommandSteps, CommandEnds

(* A row that says "completed" is true. *)
THEOREM TimelineIsTrue == Spec => []RowsAreTrue
<1>1. Init => RowsAreTrue
  BY DEF Init, RowsAreTrue
<1>2. QED BY <1>1, RowsTrueStep, TypeCorrect, PTL DEF Spec

-----------------------------------------------------------------------------
(* The readers of a rollout.                                               *)

(* The records of a rollout: numbered in the order they were written, and  *)
(* an output after the call it answers.                                    *)
LinesAre(lines) ==
    /\ lines \in Seq(Record)
    /\ \A i, j \in 1..Len(lines) : i < j => lines[i].n < lines[j].n
    /\ \A i \in 1..Len(lines) :
           /\ lines[i].n > 0
           /\ lines[i].kind # "output" => lines[i].of = 0
           /\ lines[i].kind = "output" =>
                  \E j \in 1..(i - 1) : lines[j].kind = "call" /\ lines[j].n = lines[i].of

FileInv ==
    /\ reader \in DOMAIN KindsOf
    /\ path \in [id : Nat, gen : Nat, lines : Seq(Record), torn : BOOLEAN, cut : BOOLEAN]
    /\ written \in Nat
    /\ LinesAre(path.lines)
    /\ \A i \in 1..Len(path.lines) : path.lines[i].n <= written

LookInv ==
    /\ look.step \in {"none", "read", "page"}
    /\ look.quiet \in BOOLEAN
    /\ {"step", "quiet"} \subseteq DOMAIN look
    /\ look.step = "read" =>
           /\ {"id", "size"} \subseteq DOMAIN look
           /\ look.id \in 0..path.id
           /\ look.size \in Nat
           /\ look.quiet => look.id = path.id /\ look.size = Size(path)

(* A state of the path's generation has read no more than its file holds;  *)
(* one of an earlier generation of the inode has read more, or the cut has *)
(* escaped it; and after a quiet look it has read everything.              *)
CacheInv ==
    /\ DOMAIN cache = {"id", "offset", "gen", "from", "data"}
    /\ cache.id \in (-1)..path.id /\ cache.gen \in (-1)..path.gen
    /\ \E k \in Nat : cache.offset = 2 * k
    /\ cache.id = -1 => cache = NoCache
    /\ cache.gen = path.gen => cache.id = path.id /\ cache.offset <= 2 * Len(path.lines)
    /\ cache.id = path.id /\ cache.gen # path.gen /\ "content" \notin blurred =>
           Size(path) < cache.offset
    /\ still /\ "content" \notin blurred => Whole

(* The data of the activity index once it has read the first records. *)
CallsOf(lines, last) ==
    {[call |-> lines[j].n, turn |-> OwnTurn(lines, j), question |-> QuestionAt(lines, j, OwnTurn(lines, j))] :
         j \in {i \in 1..last : lines[i].kind = "call" /\ OwnTurn(lines, i) # 0}}

QuestionsOf(lines, last) ==
    {[turn |-> OwnTurn(lines, j), n |-> lines[j].n] :
         j \in {i \in 1..last :
                   /\ lines[i].kind = "user" /\ OwnTurn(lines, i) # 0
                   /\ \A m \in (i + 1)..last : lines[m].kind = "user" => OwnTurn(lines, m) # OwnTurn(lines, i)}}

ActivityData(lines, last) ==
    [turn |-> TurnAt(lines, last), records |-> ActivityOf(lines, last),
     calls |-> CallsOf(lines, last), questions |-> QuestionsOf(lines, last)]

(* A record that says something on the goal, for a reading from the first. *)
Says(lines, first, i) ==
    \/ lines[i].kind = "goal"
    \/ /\ lines[i].kind = "output"
       /\ \E j \in first..(i - 1) : lines[j].kind = "call" /\ lines[j].n = lines[i].of

(* The goal of a tail that has read from the first record to the last, and *)
(* its open calls: one it no longer has is followed by another word on the *)
(* goal.                                                                   *)
GoalData(data, lines, first, last) ==
    /\ \A c \in data.calls : \E i \in first..last : lines[i].kind = "call" /\ lines[i].n = c
    /\ ~Straddled(lines, last) =>
           /\ data.goal = TrueGoal(lines, first, last)
           /\ \A i \in first..last : lines[i].kind = "call" =>
                  lines[i].n \in data.calls \/ \E x \in (i + 1)..last : Says(lines, first, x)

(* And all of its data. *)
TailData(data, lines, first, last) ==
    /\ DOMAIN data = {"messages", "goal", "calls"}
    /\ data.messages = Bounded(MessagesOf(lines, first, last))
    /\ GoalData(data, lines, first, last)

Current == cache.id # -1 /\ (cache.gen = path.gen \/ cache.offset = 0)

IndexInv ==
    /\ reader = "index" /\ cache.id # -1 => DOMAIN cache.data = {"rev", "turns"}
    /\ reader = "index" /\ Current /\ ~spoiled =>
           cache.data.turns = TurnsOf(path.lines, cache.offset \div 2)
    /\ reader = "activity" /\ Current /\ ~spoiled =>
           cache.data = ActivityData(path.lines, cache.offset \div 2)

TailInv ==
    reader = "tail" /\ Current =>
        /\ cache.from \in 1..(cache.offset \div 2 + 1)
        /\ TailData(cache.data, path.lines, cache.from, cache.offset \div 2)

-----------------------------------------------------------------------------
(* Numbers.                                                                *)

(* Induction upwards over an interval, with the predicate as a set. *)
LEMMA Upwards ==
    ASSUME NEW a \in Int, NEW b \in Int, NEW P, a \in P,
           \A k \in a..b : k < b /\ k \in P => k + 1 \in P
    PROVE  \A k \in a..b : k \in P
<1> DEFINE S == {n \in Nat : a + n <= b /\ a + n \notin P}
           R == OpToRel(<, Nat)
<1> SUFFICES ASSUME NEW i \in a..b, i \notin P PROVE FALSE
  OBVIOUS
<1>1. IsWellFoundedOn(R, Nat)
  BY NatLessThanWellFounded
<1>2. \A m, n \in Nat : m < n => <<m, n>> \in R
  BY DEF OpToRel
<1>3. i - a \in S
  <2>1. i - a \in Nat /\ a + (i - a) = i
    OBVIOUS
  <2> QED BY <2>1
<1> HIDE DEF R
<1>4. PICK n \in S : \A m \in S : ~(<<m, n>> \in R)
  BY <1>1, <1>3, WFMin
<1>5. n # 0 /\ n - 1 \in Nat /\ n - 1 < n /\ a + (n - 1) \in a..b /\ a + (n - 1) < b
  OBVIOUS
<1>6. a + (n - 1) \in P
  <2>1. n \in Nat /\ <<n - 1, n>> \in R
    BY <1>2, <1>5
  <2>2. n - 1 \notin S
    BY <1>4, <2>1
  <2> QED BY <1>5, <2>2
<1>7. (a + (n - 1)) + 1 \in P
  BY <1>5, <1>6
<1>8. (a + (n - 1)) + 1 = a + n
  OBVIOUS
<1> QED BY <1>7, <1>8

(* And downwards. *)
LEMMA Downwards ==
    ASSUME NEW a \in Int, NEW b \in Int, NEW P, b \in P,
           \A k \in a..b : a < k /\ k \in P => k - 1 \in P
    PROVE  \A k \in a..b : k \in P
<1> DEFINE Q == {k \in (-b)..(-a) : -k \in P}
<1> SUFFICES ASSUME NEW i \in a..b PROVE i \in P
  OBVIOUS
<1>1. -b \in Q
  <2>1. -b \in (-b)..(-a) \/ b < a
    OBVIOUS
  <2>2. -(-b) = b
    OBVIOUS
  <2> QED BY <2>1, <2>2
<1>2. ASSUME NEW k \in (-b)..(-a), k < -a, k \in Q PROVE k + 1 \in Q
  <2>1. -k \in a..b /\ a < -k /\ -k \in P /\ -k - 1 = -(k + 1) /\ k + 1 \in (-b)..(-a)
    BY <1>2
  <2>2. -k - 1 \in P
    BY <2>1
  <2> QED BY <2>1, <2>2
<1> HIDE DEF Q
<1>3. \A k \in (-b)..(-a) : k \in Q
  <2>1. -b \in Int /\ -a \in Int
    OBVIOUS
  <2> QED BY <1>1, <1>2, <2>1, Upwards
<1>4. -i \in (-b)..(-a) /\ -(-i) = i
  OBVIOUS
<1>5. -i \in Q
  BY <1>3, <1>4
<1> QED BY <1>4, <1>5 DEF Q

(* The first numbers of a set of positive ones. *)
LEMMA PartsAreFinite ==
    ASSUME NEW a \in Int, NEW b \in Int, NEW S \in SUBSET (a..b)
    PROVE  IsFiniteSet(S) /\ Cardinality(S) \in Nat
<1>1. IsFiniteSet(S)
  BY FS_Interval, FS_Subset
<1> QED BY <1>1, FS_CardinalityType

(* An order of nothing is empty. *)
LEMMA InOrderOfNothing == InOrder({}) = <<>>
BY FS_EmptySet DEF InOrder

(* A function from 1 on is a sequence. *)
LEMMA FunctionIsSeq ==
    ASSUME NEW S, NEW n \in Nat, NEW f, f \in [1..n -> S]
    PROVE  f \in Seq(S) /\ Len(f) = n
OBVIOUS

(* And one that goes on from a sequence by one element is that sequence    *)
(* with the element appended.                                              *)
LEMMA GoesOnByOne ==
    ASSUME NEW S, NEW s \in Seq(S), NEW T, NEW t \in [1..(Len(s) + 1) -> T],
           \A j \in 1..Len(s) : t[j] = s[j]
    PROVE  t = Append(s, t[Len(s) + 1])
<1> DEFINE e == t[Len(s) + 1]
           u == Append(s, e)
<1>1. Len(s) \in Nat
  OBVIOUS
<1>2. u \in Seq(S \cup {e}) /\ Len(u) = Len(s) + 1 /\ u[Len(s) + 1] = e /\ \A j \in 1..Len(s) : u[j] = s[j]
  OBVIOUS
<1>3. DOMAIN u = 1..(Len(s) + 1) /\ u = [j \in 1..(Len(s) + 1) |-> u[j]]
  BY <1>2
<1>4. t = [j \in 1..(Len(s) + 1) |-> t[j]]
  OBVIOUS
<1>5. \A j \in 1..(Len(s) + 1) : t[j] = u[j]
  BY <1>1, <1>2
<1> HIDE DEF u
<1>6. t = u
  BY <1>3, <1>4, <1>5
<1> QED BY <1>6 DEF u

(* The order of a set is a sequence as long as the set. *)
LEMMA InOrderIsSeq ==
    ASSUME NEW a \in Int, NEW b \in Int, NEW S \in SUBSET (a..b)
    PROVE  \E V : InOrder(S) \in Seq(V) /\ InOrder(S) \in [1..Cardinality(S) -> V] /\ Len(InOrder(S)) = Cardinality(S)
<1> DEFINE V == {InOrder(S)[j] : j \in 1..Cardinality(S)}
<1>1. Cardinality(S) \in Nat
  BY PartsAreFinite
<1>2. InOrder(S) \in [1..Cardinality(S) -> V]
  BY DEF InOrder
<1> QED BY <1>1, <1>2, FunctionIsSeq

(* A larger number comes last. *)
LEMMA InOrderAppend ==
    ASSUME NEW a \in Int, NEW b \in Int, NEW S \in SUBSET (a..b), NEW n \in Int, b < n
    PROVE  InOrder(S \cup {n}) = Append(InOrder(S), n)
<1> DEFINE T == S \cup {n}
<1>0. \A i \in S : i \in Int /\ a <= i /\ i <= b /\ i < n
  OBVIOUS
<1>1. IsFiniteSet(S) /\ Cardinality(S) \in Nat /\ n \notin S
  <2>1. n \notin S
    BY <1>0
  <2> QED BY <2>1, PartsAreFinite
<1>2. Cardinality(T) = Cardinality(S) + 1
  BY <1>1, FS_AddElement
<1>3. \A i \in S : {m \in T : m <= i} = {m \in S : m <= i}
  BY <1>0
<1>4. {m \in T : m <= n} = T
  <2>1. \A m \in T : m <= n
    BY <1>0
  <2> QED BY <2>1
<1>5. \A i \in S : Cardinality({m \in S : m <= i}) <= Cardinality(S)
  <2> TAKE i \in S
  <2>1. {m \in S : m <= i} \in SUBSET S
    OBVIOUS
  <2> QED BY <1>1, <2>1, FS_Subset
<1>6. \A j \in 1..Cardinality(S) : Ranked(T, j) = Ranked(S, j)
  <2> TAKE j \in 1..Cardinality(S)
  <2>1. \A i \in S : i \in Ranked(T, j) <=> i \in Ranked(S, j)
    BY <1>3 DEF Ranked
  <2>2. n \notin Ranked(T, j)
    BY <1>1, <1>2, <1>4 DEF Ranked
  <2>3. Ranked(S, j) \subseteq S /\ Ranked(T, j) \subseteq T
    BY DEF Ranked
  <2> QED BY <2>1, <2>2, <2>3
<1>7. Ranked(T, Cardinality(S) + 1) = {n}
  <2>1. n \in Ranked(T, Cardinality(S) + 1)
    BY <1>2, <1>4 DEF Ranked
  <2>2. \A i \in S : i \notin Ranked(T, Cardinality(S) + 1)
    BY <1>1, <1>3, <1>5 DEF Ranked
  <2>3. Ranked(T, Cardinality(S) + 1) \subseteq T
    BY DEF Ranked
  <2> QED BY <2>1, <2>2, <2>3
<1> HIDE DEF T
<1>8. DOMAIN InOrder(S) = 1..Cardinality(S) /\ DOMAIN InOrder(T) = 1..(Cardinality(S) + 1)
  BY <1>1, <1>2 DEF InOrder
<1>9. \A j \in 1..Cardinality(S) : InOrder(T)[j] = InOrder(S)[j]
  BY <1>1, <1>2, <1>6 DEF InOrder
<1>10. InOrder(T)[Cardinality(S) + 1] = n
  BY <1>1, <1>2, <1>7 DEF InOrder
<1>11. PICK V : InOrder(S) \in Seq(V) /\ Len(InOrder(S)) = Cardinality(S)
  BY InOrderIsSeq
<1>12. T \in SUBSET (Least(a, n)..n)
  BY <1>0 DEF T, Least
<1>13. PICK W : InOrder(T) \in [1..Cardinality(T) -> W]
  BY <1>12, InOrderIsSeq DEF Least
<1>14. InOrder(T) = Append(InOrder(S), InOrder(T)[Len(InOrder(S)) + 1])
  BY <1>2, <1>9, <1>11, <1>13, GoesOnByOne
<1> QED BY <1>10, <1>11, <1>14 DEF T
(* The next number comes last. *)
LEMMA LastInOrder ==
    ASSUME NEW last \in Nat, NEW first \in Nat, NEW S \in SUBSET (first..last)
    PROVE  InOrder(S \cup {last + 1}) = Append(InOrder(S), last + 1)
<1>1. PICK n \in Int : n = last + 1
  OBVIOUS
<1>2. first \in Int /\ last \in Int /\ last < n
  BY <1>1
<1>3. InOrder(S \cup {n}) = Append(InOrder(S), n)
  BY <1>2, InOrderAppend
<1> QED BY <1>1, <1>3

(* A smaller number comes first. *)
LEMMA InOrderPrepend ==
    ASSUME NEW a \in Int, NEW b \in Int, NEW S \in SUBSET (a..b), NEW n \in Int, n < a
    PROVE  InOrder(S \cup {n}) = <<n>> \o InOrder(S)
<1> DEFINE T == S \cup {n}
<1>0. \A i \in S : i \in Int /\ a <= i /\ i <= b /\ n < i
  OBVIOUS
<1>1. IsFiniteSet(S) /\ Cardinality(S) \in Nat /\ n \notin S
  <2>1. n \notin S
    BY <1>0
  <2> QED BY <2>1, PartsAreFinite
<1>2. Cardinality(T) = Cardinality(S) + 1
  BY <1>1, FS_AddElement
<1>3. \A i \in S : {m \in T : m <= i} = {m \in S : m <= i} \cup {n}
  BY <1>0
<1>4. {m \in T : m <= n} = {n}
  <2>1. \A m \in T : m <= n <=> m = n
    BY <1>0
  <2> QED BY <2>1
<1>5. ASSUME NEW i \in S
      PROVE  /\ Cardinality({m \in S : m <= i}) \in Nat \ {0}
             /\ Cardinality({m \in T : m <= i}) = Cardinality({m \in S : m <= i}) + 1
  <2> DEFINE below == {m \in S : m <= i}
  <2>1. below \in SUBSET (a..b) /\ i \in below /\ n \notin below
    <3>1. i <= i
      BY <1>0
    <3> QED BY <1>1, <3>1
  <2>2. IsFiniteSet(below) /\ Cardinality(below) \in Nat
    BY <2>1, PartsAreFinite
  <2>3. Cardinality(below) # 0
    BY <2>1, <2>2, FS_EmptySet
  <2>4. Cardinality(below \cup {n}) = Cardinality(below) + 1
    BY <2>1, <2>2, FS_AddElement
  <2> QED BY <1>3, <2>2, <2>3, <2>4
<1>6. Ranked(T, 1) = {n}
  <2>1. n \in Ranked(T, 1)
    BY <1>4, FS_Singleton DEF Ranked
  <2>2. \A i \in S : i \notin Ranked(T, 1)
    <3> TAKE i \in S
    <3> DEFINE k == Cardinality({m \in S : m <= i})
    <3>0. k \in Nat \ {0} /\ Cardinality({m \in T : m <= i}) = k + 1
      BY <1>5
    <3> HIDE DEF k
    <3>1. Cardinality({m \in T : m <= i}) # 1
      BY <3>0
    <3> QED BY <3>1 DEF Ranked
  <2>3. Ranked(T, 1) \subseteq T
    BY DEF Ranked
  <2> QED BY <2>1, <2>2, <2>3
<1>7. ASSUME NEW j \in 1..Cardinality(S) PROVE Ranked(T, j + 1) = Ranked(S, j)
  <2>1. \A i \in S : i \in Ranked(T, j + 1) <=> i \in Ranked(S, j)
    BY <1>5 DEF Ranked
  <2>2. n \notin Ranked(T, j + 1)
    <3>1. Cardinality({m \in T : m <= n}) = 1
      BY <1>4, FS_Singleton
    <3>2. j + 1 # 1
      OBVIOUS
    <3> QED BY <3>1, <3>2 DEF Ranked
  <2>3. Ranked(S, j) \subseteq S /\ Ranked(T, j + 1) \subseteq T
    BY DEF Ranked
  <2> QED BY <2>1, <2>2, <2>3
<1> HIDE DEF T
<1>8. InOrder(T)[1] = n
  BY <1>1, <1>2, <1>6 DEF InOrder
<1>9. \A j \in 1..Cardinality(S) : InOrder(T)[j + 1] = InOrder(S)[j]
  BY <1>1, <1>2, <1>7 DEF InOrder
<1>10. PICK V : InOrder(S) \in Seq(V) /\ Len(InOrder(S)) = Cardinality(S)
  BY InOrderIsSeq
<1>11. T \in SUBSET (n..Most(n, b))
  BY <1>0 DEF T, Most
<1>12. PICK W : InOrder(T) \in Seq(W) /\ Len(InOrder(T)) = Cardinality(T)
  BY <1>11, InOrderIsSeq DEF Most
<1> DEFINE X == V \cup W \cup {n}
           u == <<n>> \o InOrder(S)
<1>13. InOrder(S) \in Seq(X) /\ InOrder(T) \in Seq(X) /\ <<n>> \in Seq(X)
  <2>1. V \subseteq X /\ W \subseteq X
    OBVIOUS
  <2> QED BY <1>10, <1>12, <2>1, SeqMonotonic
<1>14. /\ u \in Seq(X) /\ Len(u) = Cardinality(S) + 1
       /\ \A j \in 1..Len(u) : u[j] = IF j = 1 THEN n ELSE InOrder(S)[j - 1]
  BY <1>1, <1>10, <1>13
<1> HIDE DEF u
<1>15. \A j \in 1..Len(u) : InOrder(T)[j] = u[j]
  <2> TAKE j \in 1..Len(u)
  <2>1. CASE j = 1
    BY <1>8, <1>14, <2>1
  <2>2. CASE j # 1
    <3>1. j - 1 \in 1..Cardinality(S) /\ (j - 1) + 1 = j
      BY <1>1, <1>14, <2>2
    <3> QED BY <1>9, <1>14, <2>2, <3>1
  <2> QED BY <2>1, <2>2
<1> HIDE DEF X
<1>16. InOrder(T) = u
  BY <1>2, <1>12, <1>13, <1>14, <1>15, SeqEqual
<1> QED BY <1>16 DEF T, u

(* The order of a set has its elements. *)
LEMMA InOrderElements ==
    ASSUME NEW a \in Int, NEW b \in Int, NEW S \in SUBSET (a..b)
    PROVE  InOrder(S) \in Seq(S) /\ Len(InOrder(S)) = Cardinality(S)
<1>1. CASE S = {}
  <2>1. InOrder(S) = <<>> /\ Cardinality(S) = 0
    BY <1>1, InOrderOfNothing, FS_EmptySet
  <2> QED BY <2>1
<1>2. CASE S # {}
  <2> DEFINE To(k) == {i \in S : i <= k}
             P == {k \in (a - 1)..b : InOrder(To(k)) \in Seq(S)}
  <2>1. a <= b /\ \A i \in S : i \in Int /\ a <= i /\ i <= b
    <3>1. \A i \in S : i \in Int /\ a <= i /\ i <= b
      OBVIOUS
    <3>2. PICK i \in S : TRUE
      BY <1>2
    <3>3. i \in Int /\ a <= i /\ i <= b
      BY <3>1
    <3> QED BY <3>1, <3>3
  <2>2. a - 1 \in P
    <3>1. To(a - 1) = {}
      <4>1. \A i \in S : ~(i <= a - 1)
        BY <2>1
      <4> QED BY <4>1
    <3>2. InOrder(To(a - 1)) = <<>>
      BY <3>1, InOrderOfNothing
    <3> QED BY <2>1, <3>2
  <2>3. ASSUME NEW k \in (a - 1)..b, k < b, k \in P PROVE k + 1 \in P
    <3>0. k \in Int /\ k + 1 \in Int /\ k < k + 1
      BY <2>1
    <3>1. To(k) \in SUBSET (a..k)
      <4>1. \A i \in S : i <= k => i \in a..k
        BY <2>1, <3>0
      <4> QED BY <4>1
    <3>2. InOrder(To(k) \cup {k + 1}) = Append(InOrder(To(k)), k + 1)
      <4> HIDE DEF To
      <4> QED BY <3>0, <3>1, InOrderAppend
    <3>3. CASE k + 1 \in S
      <4>1. \A i \in S : i <= k + 1 <=> i <= k \/ i = k + 1
        BY <2>1, <3>0
      <4>2. To(k + 1) = To(k) \cup {k + 1}
        BY <3>0, <3>3, <4>1
      <4>3. InOrder(To(k)) \in Seq(S)
        BY <2>3
      <4>4. InOrder(To(k + 1)) \in Seq(S)
        <5> DEFINE s == InOrder(To(k))
                   t == InOrder(To(k + 1))
        <5>1. s \in Seq(S) /\ t = Append(s, k + 1)
          BY <3>2, <4>2, <4>3
        <5> HIDE DEF s, t
        <5>2. t \in Seq(S)
          BY <3>3, <5>1
        <5> QED BY <5>2 DEF t
      <4> QED BY <2>1, <2>3, <4>4
    <3>4. CASE k + 1 \notin S
      <4>0. \A i \in S : i <= k + 1 <=> i <= k
        BY <2>1, <3>0, <3>4
      <4>1. To(k + 1) = To(k)
        BY <4>0
      <4>2. InOrder(To(k + 1)) \in Seq(S)
        BY <2>3, <4>1
      <4> QED BY <2>3, <4>2
    <3> QED BY <3>3, <3>4
  <2> HIDE DEF P
  <2>4. b \in P
    <3>1. \A k \in (a - 1)..b : k \in P
      BY <2>2, <2>3, Upwards
    <3> QED BY <2>1, <3>1
  <2>5. To(b) = S
    BY <2>1
  <2>6. InOrder(S) \in Seq(S)
    BY <2>4, <2>5 DEF P
  <2> QED BY <2>6, InOrderIsSeq
<1> QED BY <1>1, <1>2

-----------------------------------------------------------------------------
(* The turns of a conversation.                                            *)

(* The messages of a turn among the first records. *)
InTurn(lines, last, k) == {i \in 1..last : IsMessage(lines[i]) /\ Cardinality(Questions(lines, i)) = k}

(* The questions among the first records are counted. *)
LEMMA QuestionsAreCounted ==
    ASSUME NEW lines, NEW last \in Nat
    PROVE  /\ Questions(lines, last) \in SUBSET (1..last)
           /\ IsFiniteSet(Questions(lines, last))
           /\ Cardinality(Questions(lines, last)) \in Nat
<1>1. Questions(lines, last) \in SUBSET (1..last)
  BY DEF Questions
<1>2. 1 \in Int /\ last \in Int
  OBVIOUS
<1>3. IsFiniteSet(Questions(lines, last)) /\ Cardinality(Questions(lines, last)) \in Nat
  BY <1>1, <1>2, PartsAreFinite
<1> QED BY <1>1, <1>3

(* And never become fewer. *)
LEMMA QuestionsOnlyGrow ==
    ASSUME NEW lines, NEW last \in Nat, NEW i \in 0..last
    PROVE  Cardinality(Questions(lines, i)) <= Cardinality(Questions(lines, last))
<1>1. Questions(lines, i) \in SUBSET Questions(lines, last)
  BY DEF Questions
<1> QED BY <1>1, QuestionsAreCounted, FS_Subset

(* A further record is one question more or none. *)
LEMMA QuestionsStep ==
    ASSUME NEW lines, NEW last \in Nat
    PROVE  /\ lines[last + 1].kind = "user" =>
                  Cardinality(Questions(lines, last + 1)) = Cardinality(Questions(lines, last)) + 1
           /\ lines[last + 1].kind # "user" => Questions(lines, last + 1) = Questions(lines, last)
<1>0. 1..(last + 1) = (1..last) \cup {last + 1} /\ last + 1 \notin 1..last
  OBVIOUS
<1>1. ASSUME lines[last + 1].kind = "user"
      PROVE  Cardinality(Questions(lines, last + 1)) = Cardinality(Questions(lines, last)) + 1
  <2>1. Questions(lines, last + 1) = Questions(lines, last) \cup {last + 1}
    BY <1>0, <1>1 DEF Questions
  <2>2. last + 1 \notin Questions(lines, last)
    BY <1>0 DEF Questions
  <2> QED BY <2>1, <2>2, QuestionsAreCounted, FS_AddElement
<1>2. ASSUME lines[last + 1].kind # "user" PROVE Questions(lines, last + 1) = Questions(lines, last)
  BY <1>0, <1>2 DEF Questions
<1> QED BY <1>1, <1>2

(* The turns of no records. *)
LEMMA TurnsOfNothing == ASSUME NEW lines PROVE TurnsOf(lines, 0) = <<>>
<1>1. Cardinality(Questions(lines, 0)) = 0
  BY FS_EmptySet DEF Questions
<1>2. 1..Cardinality(Questions(lines, 0)) = {}
  BY <1>1
<1> QED BY <1>2 DEF TurnsOf

(* Only the first records count. *)
LEMMA TurnsOfTheSame ==
    ASSUME NEW lines, NEW more, NEW last \in Nat, \A i \in 1..last : more[i] = lines[i]
    PROVE  TurnsOf(more, last) = TurnsOf(lines, last)
<1>1. \A i \in 0..last : Questions(more, i) = Questions(lines, i)
  BY DEF Questions
<1>2. \A k \in 1..Cardinality(Questions(lines, last)) : InTurn(more, last, k) = InTurn(lines, last, k)
  <2> TAKE k \in 1..Cardinality(Questions(lines, last))
  <2>1. \A i \in 1..last : i \in InTurn(more, last, k) <=> i \in InTurn(lines, last, k)
    BY <1>1 DEF InTurn
  <2>2. InTurn(more, last, k) \subseteq 1..last /\ InTurn(lines, last, k) \subseteq 1..last
    BY DEF InTurn
  <2> QED BY <2>1, <2>2
<1>3. TurnsOf(more, last) = [k \in 1..Cardinality(Questions(more, last)) |-> InOrder(InTurn(more, last, k))]
  BY DEF TurnsOf, InTurn
<1>4. TurnsOf(lines, last) = [k \in 1..Cardinality(Questions(lines, last)) |-> InOrder(InTurn(lines, last, k))]
  BY DEF TurnsOf, InTurn
<1>5. Questions(more, last) = Questions(lines, last)
  BY <1>1
<1> QED BY <1>2, <1>3, <1>4, <1>5

(* The turns are a sequence of sequences of positions. *)
LEMMA TurnsAreSeqs ==
    ASSUME NEW lines, NEW last \in Nat
    PROVE  /\ TurnsOf(lines, last) \in Seq(Seq(1..last))
           /\ Len(TurnsOf(lines, last)) = Cardinality(Questions(lines, last))
           /\ \A k \in 1..Len(TurnsOf(lines, last)) : TurnsOf(lines, last)[k] = InOrder(InTurn(lines, last, k))
<1> DEFINE c == Cardinality(Questions(lines, last))
           turns == TurnsOf(lines, last)
<1>1. c \in Nat
  BY QuestionsAreCounted
<1>2. turns = [k \in 1..c |-> InOrder(InTurn(lines, last, k))]
  BY DEF TurnsOf, InTurn
<1>3. \A k \in 1..c : InOrder(InTurn(lines, last, k)) \in Seq(1..last)
  <2> TAKE k \in 1..c
  <2>1. InTurn(lines, last, k) \in SUBSET (1..last)
    BY DEF InTurn
  <2>2. InOrder(InTurn(lines, last, k)) \in Seq(InTurn(lines, last, k))
    <3>1. 1 \in Int /\ last \in Int
      OBVIOUS
    <3> QED BY <2>1, <3>1, InOrderElements
  <2> QED BY <2>1, <2>2, SeqMonotonic
<1> HIDE DEF c, turns
<1>4. turns \in [1..c -> Seq(1..last)]
  BY <1>2, <1>3
<1>5. turns \in Seq(Seq(1..last)) /\ Len(turns) = c
  BY <1>1, <1>4, FunctionIsSeq
<1> QED BY <1>2, <1>5 DEF c, turns
(* The index adds a record to the turns of those before it. *)
LEMMA TurnsStep ==
    ASSUME NEW last \in Nat
    PROVE  TurnsOf(path.lines, last + 1) = Add(TurnsOf(path.lines, last), last + 1)
<1> DEFINE lines == path.lines
           n == last + 1
           old == TurnsOf(lines, last)
           new == TurnsOf(lines, n)
           c == Cardinality(Questions(lines, last))
           d == Cardinality(Questions(lines, n))
<1>0. 1..n = (1..last) \cup {n} /\ n \notin 1..last /\ n \in Nat /\ 1 \in Int /\ last \in Int /\ last < n /\ n \in Int
  OBVIOUS
<1>1. c \in Nat /\ d \in Nat
  BY <1>0, QuestionsAreCounted
<1>2. /\ old \in Seq(Seq(1..last)) /\ Len(old) = c
      /\ \A k \in 1..c : old[k] = InOrder(InTurn(lines, last, k))
  BY <1>0, TurnsAreSeqs
<1>3. /\ new \in Seq(Seq(1..n)) /\ Len(new) = d
      /\ \A k \in 1..d : new[k] = InOrder(InTurn(lines, n, k))
  BY <1>0, TurnsAreSeqs
<1>4. \A i \in 0..last : Cardinality(Questions(lines, i)) \in Nat /\ Cardinality(Questions(lines, i)) <= c
  BY QuestionsOnlyGrow, QuestionsAreCounted
<1>5. \A k : InTurn(lines, n, k) = InTurn(lines, last, k) \cup (IF IsMessage(lines[n]) /\ d = k THEN {n} ELSE {})
  BY <1>0 DEF InTurn
<1>6. \A k : InTurn(lines, last, k) \in SUBSET (1..last)
  BY DEF InTurn
<1>7. CASE lines[n].kind = "user"
  <2>1. d = c + 1
    BY <1>7, QuestionsStep
  <2>2. \A k \in 1..c : new[k] = old[k]
    <3> TAKE k \in 1..c
    <3>1. d # k
      BY <1>1, <2>1
    <3>2. InTurn(lines, n, k) = InTurn(lines, last, k)
      BY <1>5, <3>1
    <3> QED BY <1>1, <1>2, <1>3, <2>1, <3>2
  <2>3. InTurn(lines, last, d) = {}
    <3>1. \A i \in 1..last : Cardinality(Questions(lines, i)) # d
      <4> TAKE i \in 1..last
      <4>1. i \in 0..last
        OBVIOUS
      <4> QED BY <1>1, <1>4, <2>1, <4>1
    <3> QED BY <3>1 DEF InTurn
  <2>4. InTurn(lines, n, d) = {} \cup {n}
    BY <1>5, <1>7, <2>3 DEF IsMessage
  <2>5. InOrder({} \cup {n}) = Append(InOrder({}), n)
    BY <1>0, InOrderAppend
  <2>6. InOrder(InTurn(lines, n, d)) = <<n>>
    <3>1. InOrder(InTurn(lines, n, d)) = Append(<<>>, n)
      BY <2>4, <2>5, InOrderOfNothing
    <3> QED BY <3>1
  <2>7. new[d] = <<n>>
    BY <1>1, <1>3, <2>1, <2>6
  <2>8. new \in [1..(Len(old) + 1) -> Seq(1..n)] /\ new[Len(old) + 1] = <<n>> /\ \A k \in 1..Len(old) : new[k] = old[k]
    BY <1>2, <1>3, <2>1, <2>2, <2>7
  <2> HIDE DEF old, new
  <2>9. new = Append(old, <<n>>)
    BY <1>2, <2>8, GoesOnByOne
  <2> QED BY <1>7, <2>9 DEF Add, old, new
<1>8. CASE lines[n].kind # "user"
  <2>1. d = c
    BY <1>8, QuestionsStep
  <2>2. CASE lines[n].kind = "assistant" /\ c > 0
    <3>1. \A k \in 1..c : k # c => new[k] = old[k]
      <4> TAKE k \in 1..c
      <4> HAVE k # c
      <4>1. InTurn(lines, n, k) = InTurn(lines, last, k)
        BY <1>5, <2>1
      <4> QED BY <1>2, <1>3, <2>1, <4>1
    <3>2. InTurn(lines, n, c) = InTurn(lines, last, c) \cup {n}
      BY <1>5, <2>1, <2>2 DEF IsMessage
    <3>3. InOrder(InTurn(lines, last, c) \cup {n}) = Append(InOrder(InTurn(lines, last, c)), n)
      <4>1. InTurn(lines, last, c) \in SUBSET (1..last)
        BY <1>6
      <4> QED BY <4>1, LastInOrder
    <3>4. c \in 1..c
      BY <1>1, <2>2
    <3>5. new[c] = Append(old[c], n)
      BY <1>2, <1>3, <2>1, <3>2, <3>3, <3>4
    <3> DEFINE u == [old EXCEPT ![Len(old)] = Append(@, n)]
    <3>6. DOMAIN old = 1..c /\ DOMAIN new = 1..c /\ new = [k \in 1..c |-> new[k]]
      <4> HIDE DEF old, new, c, d
      <4>1. old \in [1..c -> Seq(1..last)] /\ new \in [1..c -> Seq(1..n)]
        BY <1>2, <1>3, <2>1, LenProperties
      <4> QED BY <4>1
    <3>7. u = [k \in 1..c |-> IF k = c THEN Append(old[c], n) ELSE old[k]]
      BY <1>2, <3>6
    <3>8. new = u
      BY <3>1, <3>5, <3>6, <3>7
    <3>9. old # <<>>
      BY <1>2, <2>2
    <3> QED BY <2>2, <3>8, <3>9 DEF Add
  <2>3. CASE lines[n].kind = "assistant" /\ c = 0
    <3>1. old = <<>> /\ new = <<>>
      BY <1>2, <1>3, <2>1, <2>3
    <3> QED BY <2>3, <3>1 DEF Add
  <2>4. CASE lines[n].kind # "assistant"
    <3>1. \A k \in 1..c : new[k] = old[k]
      <4> TAKE k \in 1..c
      <4>1. InTurn(lines, n, k) = InTurn(lines, last, k)
        BY <1>5, <1>8, <2>4 DEF IsMessage
      <4> QED BY <1>2, <1>3, <2>1, <4>1
    <3>2. new \in Seq(Seq(1..n)) /\ old \in Seq(Seq(1..n))
      <4>1. Seq(1..last) \subseteq Seq(1..n)
        BY <1>0, SeqMonotonic
      <4> QED BY <1>2, <1>3, <4>1, SeqMonotonic
    <3>3. new = old
      BY <1>2, <1>3, <2>1, <3>1, <3>2, SeqEqual
    <3> QED BY <1>8, <2>4, <3>3 DEF Add
  <2> QED BY <1>1, <2>2, <2>3, <2>4
<1> QED BY <1>7, <1>8

(* What a look of the index makes of turns that are right is right. *)
LEMMA TurnsRead ==
    ASSUME NEW s, {"offset", "data"} \subseteq DOMAIN s, {"turns"} \subseteq DOMAIN s.data,
           s.offset \div 2 \in Nat, NEW last \in Nat, s.offset \div 2 <= last,
           s.data.turns = TurnsOf(path.lines, s.offset \div 2)
    PROVE  WithTurns(s, last) = [s EXCEPT !.data.turns = TurnsOf(path.lines, last)]
<1> DEFINE first == s.offset \div 2
           true == [i \in first..last |-> TurnsOf(path.lines, i)]
           Follow1(turns) == turns = [i \in first..last |-> IF i = first THEN s.data.turns ELSE Add(turns[i - 1], i)]
           turns == CHOOSE f : Follow1(f)
<1>1. Follow1(true)
  <2>1. ASSUME NEW i \in first..last
        PROVE  TurnsOf(path.lines, i) = IF i = first THEN s.data.turns ELSE Add(true[i - 1], i)
    <3>1. CASE i = first
      BY <3>1
    <3>2. CASE i # first
      <4>1. i - 1 \in Nat /\ i - 1 \in first..last /\ (i - 1) + 1 = i
        BY <3>2
      <4>2. TurnsOf(path.lines, (i - 1) + 1) = Add(TurnsOf(path.lines, i - 1), (i - 1) + 1)
        BY <4>1, TurnsStep
      <4> QED BY <3>2, <4>1, <4>2
    <3> QED BY <3>1, <3>2
  <2> QED BY <2>1
<1>2. Follow1(turns)
  BY <1>1
<1> HIDE DEF turns
<1> DEFINE P == {i \in first..last : turns[i] = TurnsOf(path.lines, i)}
<1>3. first \in P
  BY <1>2
<1>4. ASSUME NEW i \in first..last, i < last, i \in P PROVE i + 1 \in P
  <2>1. i + 1 \in first..last /\ i + 1 # first /\ (i + 1) - 1 = i /\ i \in Nat
    BY <1>4
  <2>2. turns[i + 1] = Add(turns[i], i + 1)
    BY <1>2, <2>1
  <2> QED BY <1>4, <2>1, <2>2, TurnsStep
<1> HIDE DEF P
<1>5. last \in P
  <2>1. first \in Int /\ last \in Int /\ last \in first..last
    OBVIOUS
  <2> HIDE DEF first
  <2>2. \A i \in first..last : i \in P
    BY <1>3, <1>4, <2>1, Upwards
  <2> QED BY <2>1, <2>2
<1>6. turns[last] = TurnsOf(path.lines, last)
  BY <1>5 DEF P
<1>7. WithTurns(s, last) = [s EXCEPT !.data.turns = turns[last]]
  BY DEF WithTurns, turns
<1> QED BY <1>6, <1>7

-----------------------------------------------------------------------------
(* The activity of a rollout.                                              *)

(* The newest of a set of positions is one of them, or nothing is newer    *)
(* than none.                                                              *)
LEMMA NewestIs ==
    ASSUME NEW last \in Nat, NEW S \in SUBSET (1..last)
    PROVE  /\ Newest(S) \in S \cup {0}
           /\ \A i \in S : i <= Newest(S)
<1> DEFINE T == S \cup {0}
           Biggest(x, k) == x \in T /\ \A y \in T : y <= k => x >= y
           P == {k \in 0..last : \E x \in T : Biggest(x, k)}
<1>1. \A i \in T : i \in 0..last /\ i \in Nat
  OBVIOUS
<1>2. 0 \in P
  <2>1. Biggest(0, 0)
    BY <1>1
  <2> QED BY <2>1
<1>3. ASSUME NEW k \in 0..last, k < last, k \in P PROVE k + 1 \in P
  <2>1. PICK x \in T : Biggest(x, k)
    BY <1>3
  <2>2. CASE k + 1 \in T
    <3>1. Biggest(k + 1, k + 1)
      BY <1>1, <2>2
    <3> QED BY <1>3, <2>2, <3>1
  <2>3. CASE k + 1 \notin T
    <3>1. \A y \in T : y <= k + 1 => y <= k
      BY <1>1, <2>3
    <3>2. Biggest(x, k + 1)
      BY <2>1, <3>1
    <3> QED BY <1>3, <3>2
  <2> QED BY <2>2, <2>3
<1> HIDE DEF P
<1>4. last \in P
  <2>1. \A k \in 0..last : k \in P
    BY <1>2, <1>3, Upwards
  <2> QED BY <2>1
<1>5. \E x \in T : \A y \in T : x >= y
  <2>1. PICK x \in T : Biggest(x, last)
    BY <1>4 DEF P
  <2> QED BY <1>1, <2>1
<1>6. Max(T) \in T /\ \A y \in T : Max(T) >= y
  BY <1>5 DEF Max
<1>7. Newest(S) = Max(T)
  BY DEF Newest
<1> HIDE DEF T
<1>8. \A i \in S : i \in T /\ i \in Nat
  BY <1>1 DEF T
<1> QED BY <1>1, <1>6, <1>7, <1>8 DEF T

(* Of the positions of records of one sort, the newest is the last record, *)
(* or what it was before.                                                  *)
LEMMA NewestStep ==
    ASSUME NEW last \in Nat, NEW S \in SUBSET (1..last)
    PROVE  /\ Newest(S \cup {last + 1}) = last + 1
           /\ Newest(S) < last + 1
           /\ Newest(S) \in 0..last
<1>1. Newest(S) \in S \cup {0} /\ \A i \in S : i <= Newest(S)
  BY NewestIs
<1>2. S \cup {last + 1} \in SUBSET (1..(last + 1)) /\ last + 1 \in Nat
  OBVIOUS
<1>3. Newest(S \cup {last + 1}) \in S \cup {last + 1} \cup {0} /\ last + 1 <= Newest(S \cup {last + 1})
  BY <1>2, NewestIs
<1>4. \A i \in S : i \in Nat /\ i <= last
  OBVIOUS
<1>5. Newest(S) \in 0..last
  <2>1. \A x \in S \cup {0} : x \in 0..last
    BY <1>4
  <2> HIDE DEF Newest
  <2> QED BY <1>1, <2>1
<1>6. Newest(S \cup {last + 1}) = last + 1
  <2>1. \A i \in S : ~(last + 1 <= i)
    BY <1>4
  <2>2. ~(last + 1 <= 0)
    OBVIOUS
  <2> QED BY <1>3, <2>1, <2>2
<1> QED BY <1>5, <1>6

(* Positions with a property among one record more. *)
StartsAt(lines, i) == {j \in 1..i : lines[j].kind = "start"}

(* An end among the records after a start, up to the i-th, that closes it. *)
Closes(lines, start, j) == lines[j].kind = "end" /\ lines[j].turn \in {0, lines[start].turn}
EndedBy(lines, start, i) == \E j \in (start + 1)..i : Closes(lines, start, j)

(* The turn that goes on, in terms of these. *)
LEMMA TurnAtIs ==
    ASSUME NEW lines, NEW i \in Nat
    PROVE  /\ StartsAt(lines, i) \in SUBSET (1..i)
           /\ Newest(StartsAt(lines, i)) \in 0..i
           /\ TurnAt(lines, i) = IF \/ Newest(StartsAt(lines, i)) = 0
                                    \/ EndedBy(lines, Newest(StartsAt(lines, i)), i)
                                 THEN 0 ELSE lines[Newest(StartsAt(lines, i))].turn
<1>1. StartsAt(lines, i) \in SUBSET (1..i)
  BY DEF StartsAt
<1>2. Newest(StartsAt(lines, i)) \in 0..i
  BY <1>1, NewestStep
<1>3. TurnAt(lines, i) = IF \/ Newest(StartsAt(lines, i)) = 0
                            \/ EndedBy(lines, Newest(StartsAt(lines, i)), i)
                         THEN 0 ELSE lines[Newest(StartsAt(lines, i))].turn
  BY DEF TurnAt, StartsAt, EndedBy, Closes
<1> QED BY <1>1, <1>2, <1>3

(* The active turn after a record. *)
LEMMA TurnAtStep ==
    ASSUME NEW lines, NEW last \in Nat
    PROVE  TurnAt(lines, last + 1) = ActiveAfter(TurnAt(lines, last), lines[last + 1])
<1> DEFINE n == last + 1
           start == Newest(StartsAt(lines, last))
           ended == EndedBy(lines, start, last)
<1>0. 1..n = (1..last) \cup {n} /\ n \notin 1..last /\ n \in Nat
  OBVIOUS
<1>1. /\ StartsAt(lines, last) \in SUBSET (1..last) /\ start \in 0..last
      /\ TurnAt(lines, last) = IF start = 0 \/ ended THEN 0 ELSE lines[start].turn
  BY TurnAtIs
<1>2. TurnAt(lines, n) = IF \/ Newest(StartsAt(lines, n)) = 0
                            \/ EndedBy(lines, Newest(StartsAt(lines, n)), n)
                         THEN 0 ELSE lines[Newest(StartsAt(lines, n))].turn
  BY <1>0, TurnAtIs
<1>3. /\ lines[n].kind = "start" => StartsAt(lines, n) = StartsAt(lines, last) \cup {n}
      /\ lines[n].kind # "start" => StartsAt(lines, n) = StartsAt(lines, last)
  BY <1>0 DEF StartsAt
<1>4. CASE lines[n].kind = "start"
  <2>1. Newest(StartsAt(lines, n)) = n
    BY <1>1, <1>3, <1>4, NewestStep
  <2>2. ~EndedBy(lines, n, n) /\ n # 0
    BY DEF EndedBy
  <2> QED BY <1>2, <1>4, <2>1, <2>2 DEF ActiveAfter
<1>5. CASE lines[n].kind # "start"
  <2>1. Newest(StartsAt(lines, n)) = start
    BY <1>3, <1>5
  <2>2. (start + 1)..n = ((start + 1)..last) \cup {n}
    BY <1>1
  <2>3. EndedBy(lines, start, n) <=> ended \/ Closes(lines, start, n)
    BY <2>2 DEF EndedBy
  <2> HIDE DEF ended, start
  <2>4. TurnAt(lines, n) = IF start = 0 \/ ended \/ Closes(lines, start, n) THEN 0 ELSE lines[start].turn
    BY <1>2, <2>1, <2>3
  <2>5. CASE start = 0 \/ ended
    BY <1>1, <1>5, <2>4, <2>5 DEF ActiveAfter
  <2>6. CASE ~(start = 0 \/ ended)
    <3>1. TurnAt(lines, last) = lines[start].turn
      BY <1>1, <2>6
    <3>2. CASE Closes(lines, start, n)
      BY <2>4, <3>1, <3>2 DEF ActiveAfter, Closes
    <3>3. CASE ~Closes(lines, start, n)
      <4>1. TurnAt(lines, n) = lines[start].turn
        BY <2>4, <2>6, <3>3
      <4>2. ~(lines[n].kind = "end" /\ lines[n].turn \in {0, lines[start].turn})
        BY <3>3 DEF Closes
      <4> QED BY <1>5, <3>1, <4>1, <4>2 DEF ActiveAfter
    <3> QED BY <3>2, <3>3
  <2> QED BY <2>5, <2>6
<1> QED BY <1>4, <1>5

(* Before the first record no turn is active. *)
LEMMA NoTurnAtFirst == ASSUME NEW lines PROVE TurnAt(lines, 0) = 0
<1>1. Newest(StartsAt(lines, 0)) \in 0..0
  BY TurnAtIs
<1>2. Newest(StartsAt(lines, 0)) = 0
  BY <1>1
<1> QED BY <1>2, TurnAtIs

(* The questions of a turn among the first records. *)
AskedIn(lines, i, turn) == {j \in 1..i : lines[j].kind = "user" /\ OwnTurn(lines, j) = turn}

(* The last question of a turn changes with a question only. *)
LEMMA QuestionAtStep ==
    ASSUME NEW lines, NEW last \in Nat, lines[last + 1].kind # "user", NEW turn
    PROVE  QuestionAt(lines, last + 1, turn) = QuestionAt(lines, last, turn)
<1>0. 1..(last + 1) = (1..last) \cup {last + 1}
  OBVIOUS
<1>1. AskedIn(lines, last + 1, turn) = AskedIn(lines, last, turn)
  BY <1>0 DEF AskedIn
<1> QED BY <1>1 DEF QuestionAt, AskedIn

(* What the index knows of the last question of a turn is true. *)
LEMMA QuestionIsKnown ==
    ASSUME NEW lines, NEW last \in Nat, NEW turn, turn # 0
    PROVE  QuestionOf(ActivityData(lines, last), turn) = QuestionAt(lines, last, turn)
<1> DEFINE asked == AskedIn(lines, last, turn)
           j == Newest(asked)
           known == ActivityData(lines, last).questions
<1>1. asked \in SUBSET (1..last)
  BY DEF AskedIn
<1>2. j \in asked \cup {0} /\ \A i \in asked : i <= j
  BY <1>1, NewestIs
<1>3. known = QuestionsOf(lines, last)
  BY DEF ActivityData
<1>4. QuestionAt(lines, last, turn) = IF j = 0 THEN 0 ELSE lines[j].n
  BY DEF QuestionAt, AskedIn
<1>5. ASSUME NEW q \in known, q.turn = turn PROVE j # 0 /\ q.n = lines[j].n
  <2>1. PICK i \in 1..last : /\ q = [turn |-> OwnTurn(lines, i), n |-> lines[i].n]
                             /\ lines[i].kind = "user"
                             /\ \A m \in (i + 1)..last : lines[m].kind = "user" => OwnTurn(lines, m) # OwnTurn(lines, i)
    BY <1>3 DEF QuestionsOf
  <2>2. i \in asked
    BY <1>5, <2>1 DEF AskedIn
  <2>3. j \in asked /\ i <= j /\ j \in 1..last /\ i \in 1..last
    BY <1>1, <1>2, <2>2
  <2>4. ~(i < j)
    <3> SUFFICES ASSUME i < j PROVE FALSE
      OBVIOUS
    <3>1. j \in (i + 1)..last /\ lines[j].kind = "user" /\ OwnTurn(lines, j) = turn
      BY <2>3 DEF AskedIn
    <3> QED BY <1>5, <2>1, <3>1
  <2>5. i = j
    BY <2>3, <2>4
  <2> QED BY <2>1, <2>3, <2>5
<1>6. ASSUME j # 0 PROVE \E q \in known : q.turn = turn
  <2>1. j \in 1..last /\ lines[j].kind = "user" /\ OwnTurn(lines, j) = turn
    BY <1>2, <1>6 DEF AskedIn
  <2>2. \A m \in (j + 1)..last : lines[m].kind = "user" => OwnTurn(lines, m) # OwnTurn(lines, j)
    <3> TAKE m \in (j + 1)..last
    <3>1. m \in 1..last /\ ~(m <= j)
      BY <2>1
    <3>2. m \notin asked
      BY <1>2, <3>1
    <3> QED BY <2>1, <3>1, <3>2 DEF AskedIn
  <2>3. [turn |-> OwnTurn(lines, j), n |-> lines[j].n] \in QuestionsOf(lines, last)
    BY <2>1, <2>2 DEF QuestionsOf
  <2> QED BY <1>3, <2>1, <2>3
<1> HIDE DEF j
<1>7. QuestionOf(ActivityData(lines, last), turn) =
          IF \E q \in known : q.turn = turn THEN (CHOOSE q \in known : q.turn = turn).n ELSE 0
  BY DEF QuestionOf
<1> HIDE DEF known
<1>8. CASE j = 0
  BY <1>4, <1>5, <1>7, <1>8
<1>9. CASE j # 0
  <2>1. \E q \in known : q.turn = turn
    BY <1>6, <1>9
  <2>2. PICK q \in known : q = (CHOOSE r \in known : r.turn = turn) /\ q.turn = turn
    BY <2>1
  <2>3. q.n = lines[j].n
    BY <1>5, <2>2
  <2> QED BY <1>4, <1>7, <1>9, <2>1, <2>2, <2>3
<1> QED BY <1>8, <1>9
(* The tool records among the first records that belong to a turn. *)
IsTool(r) == r.kind \in {"call", "output", "patch"}
ToolsOf(lines, last) == {i \in 1..last : IsTool(lines[i]) /\ OwnTurn(lines, BaseOf(lines, i)) # 0}

(* The activity among the first records is one item for each of those.     *)
LEMMA ActivityIsItems ==
    ASSUME NEW lines, NEW last \in Nat
    PROVE  /\ ActivityOf(lines, last) = [k \in 1..Len(InOrder(ToolsOf(lines, last))) |->
                                            ItemOf(lines, InOrder(ToolsOf(lines, last))[k])]
           /\ ToolsOf(lines, last) \in SUBSET (1..last)
           /\ InOrder(ToolsOf(lines, last)) \in Seq(ToolsOf(lines, last))
<1> DEFINE S == ToolsOf(lines, last)
<1>1. S \in SUBSET (1..last)
  BY DEF ToolsOf
<1>2. 1 \in Int /\ last \in Int
  OBVIOUS
<1>3. InOrder(S) \in Seq(S)
  <2> HIDE DEF S
  <2> QED BY <1>1, <1>2, InOrderElements
<1>4. ActivityOf(lines, last) = [k \in DOMAIN InOrder(S) |-> ItemOf(lines, InOrder(S)[k])]
  BY DEF ActivityOf, ToolsOf, IsTool
<1>5. DOMAIN InOrder(S) = 1..Len(InOrder(S))
  BY <1>3, LenProperties
<1> QED BY <1>1, <1>3, <1>4, <1>5

(* One tool record more is one item more. *)
LEMMA ActivityGrows ==
    ASSUME NEW lines, NEW last \in Nat
    PROVE  ActivityOf(lines, last + 1) =
               ActivityOf(lines, last) \o
               (IF IsTool(lines[last + 1]) /\ OwnTurn(lines, BaseOf(lines, last + 1)) # 0
                THEN <<ItemOf(lines, last + 1)>> ELSE <<>>)
<1> DEFINE S == ToolsOf(lines, last)
           T == ToolsOf(lines, last + 1)
           old == ActivityOf(lines, last)
           new == ActivityOf(lines, last + 1)
           item == ItemOf(lines, last + 1)
           mine == IsTool(lines[last + 1]) /\ OwnTurn(lines, BaseOf(lines, last + 1)) # 0
<1>0. 1..(last + 1) = (1..last) \cup {last + 1} /\ last + 1 \in Nat /\ 1 \in Nat
  OBVIOUS
<1>1. /\ old = [k \in 1..Len(InOrder(S)) |-> ItemOf(lines, InOrder(S)[k])]
      /\ S \in SUBSET (1..last) /\ InOrder(S) \in Seq(S)
  BY ActivityIsItems
<1>2. /\ new = [k \in 1..Len(InOrder(T)) |-> ItemOf(lines, InOrder(T)[k])]
      /\ InOrder(T) \in Seq(T)
  BY <1>0, ActivityIsItems
<1>3. PICK V : old \in Seq(V) /\ Len(old) = Len(InOrder(S))
  <2> DEFINE V == {ItemOf(lines, i) : i \in S}
  <2>1. Len(InOrder(S)) \in Nat /\ \A k \in 1..Len(InOrder(S)) : InOrder(S)[k] \in S
    BY <1>1
  <2>2. old \in [1..Len(InOrder(S)) -> V]
    BY <1>1, <2>1
  <2> HIDE DEF old, V
  <2>3. old \in Seq(V) /\ Len(old) = Len(InOrder(S))
    BY <2>1, <2>2, FunctionIsSeq
  <2> QED BY <2>3
<1>4. CASE mine
  <2>1. T = S \cup {last + 1}
    BY <1>0, <1>4 DEF ToolsOf
  <2>2. InOrder(T) = Append(InOrder(S), last + 1)
    <3> HIDE DEF S, T
    <3> QED BY <1>0, <1>1, <2>1, LastInOrder
  <2> DEFINE n == Len(InOrder(S))
  <2>3. n \in Nat /\ Len(InOrder(T)) = n + 1 /\ InOrder(T)[n + 1] = last + 1 /\ \A k \in 1..n : InOrder(T)[k] = InOrder(S)[k]
    BY <1>1, <2>2
  <2>4. DOMAIN new = 1..(n + 1) /\ new[n + 1] = item /\ \A k \in 1..n : new[k] = old[k]
    BY <1>1, <1>2, <2>3
  <2> DEFINE W == {new[k] : k \in 1..(n + 1)}
  <2>5. new \in [1..(Len(old) + 1) -> W]
    BY <1>2, <1>3, <2>3
  <2> HIDE DEF old, new, W, n
  <2>6. new = Append(old, item)
    BY <1>3, <2>4, <2>5, GoesOnByOne DEF n
  <2>7. Append(old, item) = old \o <<item>>
    BY <1>3
  <2> QED BY <1>4, <2>6, <2>7 DEF old, new
<1>5. CASE ~mine
  <2>1. T = S
    BY <1>0, <1>5 DEF ToolsOf
  <2>2. new = old
    BY <1>1, <1>2, <2>1
  <2>3. old \o <<>> = old
    BY <1>3, ConcatEmptySeq
  <2> QED BY <1>5, <2>2, <2>3
<1> QED BY <1>4, <1>5

(* The call an output answers. *)
LEMMA CallOfOutput ==
    ASSUME NEW lines, LinesAre(lines), NEW i \in 1..Len(lines), lines[i].kind = "output"
    PROVE  /\ BaseOf(lines, i) \in 1..(i - 1)
           /\ lines[BaseOf(lines, i)].kind = "call" /\ lines[BaseOf(lines, i)].n = lines[i].of
           /\ \A j \in 1..Len(lines) : lines[j].n = lines[i].of => j = BaseOf(lines, i)
<1>0. Len(lines) \in Nat /\ \A j \in 1..Len(lines) : lines[j].n \in Nat
  <2>1. lines \in Seq(Record)
    BY DEF LinesAre
  <2>2. Len(lines) \in Nat /\ \A j \in 1..Len(lines) : lines[j] \in Record
    BY <2>1
  <2> QED BY <2>2 DEF Record
<1>1. \A j, k \in 1..Len(lines) : lines[j].n = lines[k].n => j = k
  BY <1>0 DEF LinesAre
<1>2. PICK j \in 1..(i - 1) : lines[j].kind = "call" /\ lines[j].n = lines[i].of
  BY DEF LinesAre
<1>3. j \in 1..i /\ j \in 1..Len(lines)
  BY <1>0, <1>2
<1>4. BaseOf(lines, i) = CHOOSE k \in 1..i : lines[k].kind = "call" /\ lines[k].n = lines[i].of
  BY DEF BaseOf
<1>5. BaseOf(lines, i) \in 1..i /\ lines[BaseOf(lines, i)].kind = "call" /\ lines[BaseOf(lines, i)].n = lines[i].of
  BY <1>2, <1>3, <1>4
<1>6. BaseOf(lines, i) \in 1..Len(lines)
  BY <1>0, <1>5
<1>7. BaseOf(lines, i) = j
  BY <1>1, <1>2, <1>3, <1>5, <1>6
<1> QED BY <1>1, <1>2, <1>5, <1>6, <1>7

(* Reading one more record into the data of those before it gives the data *)
(* of one record more.                                                     *)
LEMMA ActivityStep ==
    ASSUME NEW lines, LinesAre(lines), NEW last \in Nat, last < Len(lines)
    PROVE  ActivityData(lines, last + 1) = Follows(ActivityData(lines, last), lines[last + 1])
<1> DEFINE n == last + 1
           r == lines[n]
           s == ActivityData(lines, last)
           turn == OwnTurn(lines, n)
           active == TurnAt(lines, n)
<1>0. 1..n = (1..last) \cup {n} /\ n \notin 1..last /\ n \in Nat /\ n \in 1..Len(lines)
  BY DEF LinesAre
<1>1. /\ s.turn = TurnAt(lines, last) /\ s.records = ActivityOf(lines, last)
      /\ s.calls = CallsOf(lines, last) /\ s.questions = QuestionsOf(lines, last)
  BY DEF ActivityData
<1>2. active = ActiveAfter(s.turn, r) /\ turn = NamedOr(active, r)
  BY <1>1, TurnAtStep DEF OwnTurn, NamedOr
<1>3. \A t : t # 0 => QuestionOf(s, t) = QuestionAt(lines, last, t)
  BY QuestionIsKnown
<1>4. \A t : r.kind # "user" => QuestionAt(lines, n, t) = QuestionAt(lines, last, t)
  BY QuestionAtStep
<1> DEFINE known == {c \in s.calls : c.call = r.of}
           items == CASE r.kind \in {"call", "patch"} /\ turn # 0 ->
                             <<[turn |-> turn, n |-> r.n, question |-> QuestionOf(s, turn)]>>
                      [] r.kind = "output" /\ known # {} ->
                             LET c == CHOOSE c \in known : TRUE
                             IN  <<[turn |-> c.turn, n |-> r.n,
                                    question |-> IF c.question # 0 THEN c.question ELSE QuestionOf(s, c.turn)]>>
                      [] OTHER -> <<>>
           true == IF IsTool(r) /\ OwnTurn(lines, BaseOf(lines, n)) # 0 THEN <<ItemOf(lines, n)>> ELSE <<>>
<1>5. items = true
  <2>1. CASE r.kind \in {"call", "patch"}
    <3>1. BaseOf(lines, n) = n
      BY <2>1 DEF BaseOf
    <3>2. ASSUME turn # 0 PROVE QuestionOf(s, turn) = QuestionAt(lines, n, turn)
      BY <1>3, <1>4, <2>1, <3>2
    <3>3. ItemOf(lines, n) = [turn |-> turn, n |-> r.n, question |-> QuestionAt(lines, n, turn)]
      BY <3>1 DEF ItemOf
    <3> HIDE DEF s
    <3>4. CASE turn # 0
      BY <2>1, <3>1, <3>2, <3>3, <3>4 DEF IsTool
    <3>5. CASE turn = 0
      BY <2>1, <3>1, <3>5 DEF IsTool
    <3> QED BY <3>4, <3>5
  <2>2. CASE r.kind = "output"
    <3> DEFINE j == BaseOf(lines, n)
               c == [call |-> lines[j].n, turn |-> OwnTurn(lines, j), question |-> QuestionAt(lines, j, OwnTurn(lines, j))]
    <3>1. /\ j \in 1..last /\ lines[j].kind = "call" /\ lines[j].n = r.of
          /\ \A i \in 1..Len(lines) : lines[i].n = r.of => i = j
      BY <1>0, <2>2, CallOfOutput
    <3> HIDE DEF j
    <3>2. CASE OwnTurn(lines, j) # 0
      <4>1. known = {c}
        <5>1. c \in known
          BY <1>1, <3>1, <3>2 DEF CallsOf
        <5>2. ASSUME NEW d \in known PROVE d = c
          <6>1. PICK i \in 1..last : d = [call |-> lines[i].n, turn |-> OwnTurn(lines, i), question |-> QuestionAt(lines, i, OwnTurn(lines, i))]
            BY <1>1, <5>2 DEF CallsOf
          <6>2. lines[i].n = r.of /\ i \in 1..Len(lines)
            BY <1>0, <5>2, <6>1
          <6> QED BY <3>1, <6>1, <6>2
        <5> QED BY <5>1, <5>2
      <4>2. (CHOOSE d \in known : TRUE) = c
        <5> HIDE DEF known, c
        <5> QED BY <4>1
      <4>3. items = <<[turn |-> c.turn, n |-> r.n,
                       question |-> IF c.question # 0 THEN c.question ELSE QuestionOf(s, c.turn)]>>
        <5> HIDE DEF s, known, c
        <5> QED BY <2>2, <4>1, <4>2
      <4>4. QuestionOf(s, c.turn) = QuestionAt(lines, n, c.turn)
        BY <1>3, <1>4, <2>2, <3>2
      <4>5. ItemOf(lines, n) = [turn |-> c.turn, n |-> r.n,
                                question |-> IF c.question # 0 THEN c.question ELSE QuestionAt(lines, n, c.turn)]
        BY DEF ItemOf, j
      <4>6. true = <<ItemOf(lines, n)>>
        BY <2>2, <3>2 DEF IsTool, j
      <4> QED BY <4>3, <4>4, <4>5, <4>6
    <3>3. CASE OwnTurn(lines, j) = 0
      <4>1. known = {}
        <5> SUFFICES ASSUME NEW d \in known PROVE FALSE
          OBVIOUS
        <5>1. PICK i \in 1..last : /\ d = [call |-> lines[i].n, turn |-> OwnTurn(lines, i), question |-> QuestionAt(lines, i, OwnTurn(lines, i))]
                                   /\ OwnTurn(lines, i) # 0
          BY <1>1 DEF CallsOf
        <5>2. lines[i].n = r.of /\ i \in 1..Len(lines)
          BY <1>0, <5>1
        <5> QED BY <3>1, <3>3, <5>1, <5>2
      <4>2. items = <<>>
        <5> HIDE DEF s, known
        <5> QED BY <2>2, <4>1
      <4>3. true = <<>>
        BY <3>3 DEF j
      <4> QED BY <4>2, <4>3
    <3> QED BY <3>2, <3>3
  <2>3. CASE r.kind \notin {"call", "patch", "output"}
    BY <2>3 DEF IsTool
  <2> QED BY <2>1, <2>2, <2>3
<1>6. ActivityOf(lines, n) = s.records \o items
  <2> HIDE DEF items
  <2> QED BY <1>1, <1>5, ActivityGrows
<1>7. CallsOf(lines, n) = IF r.kind = "call" /\ turn # 0
                          THEN s.calls \cup {[call |-> r.n, turn |-> turn, question |-> QuestionOf(s, turn)]}
                          ELSE s.calls
  <2>1. ASSUME turn # 0, r.kind = "call" PROVE QuestionOf(s, turn) = QuestionAt(lines, n, turn)
    BY <1>3, <1>4, <2>1
  <2> HIDE DEF s
  <2> QED BY <1>0, <1>1, <2>1 DEF CallsOf
<1>8. QuestionsOf(lines, n) = IF r.kind = "user" /\ turn # 0
                              THEN {q \in s.questions : q.turn # turn} \cup {[turn |-> turn, n |-> r.n]}
                              ELSE s.questions
  <2> DEFINE q(i) == [turn |-> OwnTurn(lines, i), n |-> lines[i].n]
             Latest1(i, m) == lines[m].kind = "user" => OwnTurn(lines, m) # OwnTurn(lines, i)
             Old == {i \in 1..last : /\ lines[i].kind = "user" /\ OwnTurn(lines, i) # 0
                                     /\ \A m \in (i + 1)..last : Latest1(i, m)}
             New == {i \in 1..n : /\ lines[i].kind = "user" /\ OwnTurn(lines, i) # 0
                                  /\ \A m \in (i + 1)..n : Latest1(i, m)}
  <2>1. s.questions = {q(i) : i \in Old} /\ QuestionsOf(lines, n) = {q(i) : i \in New}
    BY <1>1 DEF QuestionsOf
  <2>2. \A i \in 1..last : (i + 1)..n = ((i + 1)..last) \cup {n}
    OBVIOUS
  <2>3. \A i \in 1..last : i \in New <=> i \in Old /\ Latest1(i, n)
    BY <1>0, <2>2
  <2>4. n \in New <=> r.kind = "user" /\ turn # 0
    BY <1>0
  <2>5. New \subseteq 1..n /\ Old \subseteq 1..last
    OBVIOUS
  <2> HIDE DEF Old, New
  <2>6. CASE r.kind = "user" /\ turn # 0
    <3>1. New = {i \in Old : OwnTurn(lines, i) # turn} \cup {n}
      BY <1>0, <2>3, <2>4, <2>5, <2>6
    <3>2. {q(i) : i \in New} = {q(i) : i \in {i \in Old : OwnTurn(lines, i) # turn}} \cup {q(n)}
      BY <3>1
    <3>3. {q(i) : i \in {i \in Old : OwnTurn(lines, i) # turn}} = {p \in {q(i) : i \in Old} : p.turn # turn}
      OBVIOUS
    <3> QED BY <2>1, <2>6, <3>2, <3>3
  <2>7. CASE ~(r.kind = "user" /\ turn # 0)
    <3>1. \A i \in Old : Latest1(i, n)
      <4> TAKE i \in Old
      <4>1. OwnTurn(lines, i) # 0
        BY DEF Old
      <4> QED BY <2>7, <4>1
    <3>2. New = Old
      BY <1>0, <2>3, <2>4, <2>5, <2>7, <3>1
    <3> QED BY <2>1, <2>7, <3>2
  <2> QED BY <2>6, <2>7
<1> QED BY <1>1, <1>2, <1>6, <1>7, <1>8 DEF Follows, ActivityData
(* An index that has read nothing. *)
LEMMA ActivityOfNothing == ASSUME NEW lines PROVE ActivityData(lines, 0) = NoActivity
<1>1. ToolsOf(lines, 0) = {} /\ CallsOf(lines, 0) = {} /\ QuestionsOf(lines, 0) = {}
  BY DEF ToolsOf, CallsOf, QuestionsOf
<1>2. InOrder(ToolsOf(lines, 0)) = <<>>
  BY <1>1, InOrderOfNothing
<1>3. Len(InOrder(ToolsOf(lines, 0))) = 0
  BY <1>2
<1>4. ActivityOf(lines, 0) = <<>>
  BY <1>3, ActivityIsItems
<1> QED BY <1>1, <1>4, NoTurnAtFirst DEF ActivityData, NoActivity

(* Only the first records count. *)
LEMMA TurnAtTheSame ==
    ASSUME NEW lines, NEW more, NEW last \in Nat, \A i \in 1..last : more[i] = lines[i]
    PROVE  TurnAt(more, last) = TurnAt(lines, last)
<1> DEFINE start == Newest(StartsAt(lines, last))
<1>1. StartsAt(more, last) = StartsAt(lines, last)
  BY DEF StartsAt
<1>2. /\ start \in 0..last
      /\ TurnAt(lines, last) = IF start = 0 \/ EndedBy(lines, start, last) THEN 0 ELSE lines[start].turn
  BY TurnAtIs
<1>3. TurnAt(more, last) = IF start = 0 \/ EndedBy(more, start, last) THEN 0 ELSE more[start].turn
  BY <1>1, TurnAtIs
<1> HIDE DEF start
<1>4. CASE start = 0
  BY <1>2, <1>3, <1>4
<1>5. CASE start # 0
  <2>1. start \in 1..last
    BY <1>2, <1>5
  <2>2. more[start] = lines[start]
    BY <2>1
  <2>3. \A j \in (start + 1)..last : more[j] = lines[j]
    <3> TAKE j \in (start + 1)..last
    <3>1. j \in 1..last
      BY <2>1
    <3> QED BY <3>1
  <2>4. EndedBy(more, start, last) <=> EndedBy(lines, start, last)
    BY <2>2, <2>3 DEF EndedBy, Closes
  <2> QED BY <1>2, <1>3, <1>5, <2>2, <2>4
<1> QED BY <1>4, <1>5

(* The same of the last question of a turn. *)
LEMMA QuestionAtTheSame ==
    ASSUME NEW lines, NEW more, NEW last \in Nat, \A i \in 1..last : more[i] = lines[i], NEW turn
    PROVE  QuestionAt(more, last, turn) = QuestionAt(lines, last, turn)
<1>1. \A i \in 1..last : OwnTurn(more, i) = OwnTurn(lines, i)
  BY TurnAtTheSame DEF OwnTurn
<1>2. AskedIn(more, last, turn) = AskedIn(lines, last, turn)
  BY <1>1 DEF AskedIn
<1> DEFINE j == Newest(AskedIn(lines, last, turn))
<1>3. AskedIn(lines, last, turn) \in SUBSET (1..last)
  BY DEF AskedIn
<1>4. j \in 0..last
  BY <1>3, NewestStep
<1>5. QuestionAt(lines, last, turn) = (IF j = 0 THEN 0 ELSE lines[j].n) /\ QuestionAt(more, last, turn) = (IF j = 0 THEN 0 ELSE more[j].n)
  BY <1>2 DEF QuestionAt, AskedIn
<1> HIDE DEF j
<1> QED BY <1>4, <1>5

(* And of the whole data of the index. *)
LEMMA ActivityTheSame ==
    ASSUME NEW lines, LinesAre(lines), NEW more, LinesAre(more),
           NEW last \in Nat, last <= Len(lines), last <= Len(more),
           \A i \in 1..last : more[i] = lines[i]
    PROVE  ActivityData(more, last) = ActivityData(lines, last)
<1>0. Len(lines) \in Nat /\ Len(more) \in Nat
  BY DEF LinesAre
<1>1. \A i \in 1..last : OwnTurn(more, i) = OwnTurn(lines, i)
  BY TurnAtTheSame DEF OwnTurn
<1>2. \A i \in 0..last : \A t : QuestionAt(more, i, t) = QuestionAt(lines, i, t)
  BY QuestionAtTheSame
<1>3. \A i \in 1..last : BaseOf(more, i) = BaseOf(lines, i) /\ BaseOf(lines, i) \in 1..last
  <2> TAKE i \in 1..last
  <2>1. i \in 1..Len(lines) /\ i \in 1..Len(more) /\ more[i] = lines[i]
    BY <1>0
  <2>2. CASE lines[i].kind = "output"
    <3>1. BaseOf(lines, i) \in 1..(i - 1) /\ BaseOf(more, i) \in 1..(i - 1)
      BY <2>1, <2>2, CallOfOutput
    <3>2. BaseOf(lines, i) \in 1..last /\ BaseOf(lines, i) \in 1..Len(more)
      BY <1>0, <3>1
    <3>3. more[BaseOf(lines, i)].n = more[i].of
      BY <2>1, <2>2, <3>2, CallOfOutput
    <3>4. BaseOf(lines, i) = BaseOf(more, i)
      BY <2>1, <2>2, <3>2, <3>3, CallOfOutput
    <3> QED BY <3>2, <3>4
  <2>3. CASE lines[i].kind # "output"
    BY <2>1, <2>3 DEF BaseOf
  <2> QED BY <2>2, <2>3
<1>4. \A i \in 1..last : ItemOf(more, i) = ItemOf(lines, i)
  <2> TAKE i \in 1..last
  <2>1. i \in 0..last /\ BaseOf(lines, i) \in 1..last /\ BaseOf(more, i) = BaseOf(lines, i) /\ more[i] = lines[i]
    BY <1>3
  <2> QED BY <1>1, <1>2, <2>1 DEF ItemOf
<1>5. ToolsOf(more, last) = ToolsOf(lines, last)
  <2>1. \A i \in 1..last : OwnTurn(more, BaseOf(more, i)) = OwnTurn(lines, BaseOf(lines, i)) /\ more[i] = lines[i]
    BY <1>1, <1>3
  <2> QED BY <2>1 DEF ToolsOf
<1>6. ActivityOf(more, last) = ActivityOf(lines, last)
  <2> DEFINE at == InOrder(ToolsOf(lines, last))
  <2>1. /\ ActivityOf(lines, last) = [k \in 1..Len(at) |-> ItemOf(lines, at[k])]
        /\ ActivityOf(more, last) = [k \in 1..Len(at) |-> ItemOf(more, at[k])]
        /\ at \in Seq(ToolsOf(lines, last)) /\ ToolsOf(lines, last) \in SUBSET (1..last)
    BY <1>5, ActivityIsItems
  <2> HIDE DEF at
  <2>2. \A k \in 1..Len(at) : at[k] \in 1..last
    BY <2>1
  <2> QED BY <1>4, <2>1, <2>2
<1>7. CallsOf(more, last) = CallsOf(lines, last)
  <2>1. \A i \in 1..last : /\ OwnTurn(more, i) = OwnTurn(lines, i) /\ more[i] = lines[i]
                           /\ QuestionAt(more, i, OwnTurn(more, i)) = QuestionAt(lines, i, OwnTurn(lines, i))
    BY <1>1, <1>2
  <2> QED BY <2>1 DEF CallsOf
<1>8. QuestionsOf(more, last) = QuestionsOf(lines, last)
  <2>1. \A i \in 1..last : OwnTurn(more, i) = OwnTurn(lines, i) /\ more[i] = lines[i]
    BY <1>1
  <2>2. \A i \in 1..last : (i + 1)..last \subseteq 1..last
    OBVIOUS
  <2> QED BY <2>1, <2>2 DEF QuestionsOf
<1>9. TurnAt(more, last) = TurnAt(lines, last)
  BY TurnAtTheSame
<1> QED BY <1>6, <1>7, <1>8, <1>9 DEF ActivityData

(* What a look of the activity index makes of data that are right is right. *)
LEMMA ActivityRead ==
    ASSUME LinesAre(path.lines), NEW s, s.offset \div 2 \in Nat, NEW last \in Nat,
           s.offset \div 2 <= last, last <= Len(path.lines),
           s.data = ActivityData(path.lines, s.offset \div 2)
    PROVE  WithActivity(s, last) = ActivityData(path.lines, last)
<1> DEFINE first == s.offset \div 2
           true == [i \in first..last |-> ActivityData(path.lines, i)]
           Reads(data) == data = [i \in first..last |-> IF i = first THEN s.data ELSE Follows(data[i - 1], path.lines[i])]
           data == CHOOSE f : Reads(f)
<1>0. Len(path.lines) \in Nat
  BY DEF LinesAre
<1>1. Reads(true)
  <2>1. ASSUME NEW i \in first..last
        PROVE  ActivityData(path.lines, i) = IF i = first THEN s.data ELSE Follows(true[i - 1], path.lines[i])
    <3>1. CASE i = first
      BY <3>1
    <3>2. CASE i # first
      <4>1. i - 1 \in Nat /\ i - 1 \in first..last /\ (i - 1) + 1 = i /\ i - 1 < Len(path.lines)
        BY <1>0, <3>2
      <4>2. ActivityData(path.lines, (i - 1) + 1) = Follows(ActivityData(path.lines, i - 1), path.lines[(i - 1) + 1])
        BY <4>1, ActivityStep
      <4> QED BY <3>2, <4>1, <4>2
    <3> QED BY <3>1, <3>2
  <2> QED BY <2>1
<1>2. Reads(data)
  BY <1>1
<1> HIDE DEF data
<1> DEFINE P == {i \in first..last : data[i] = ActivityData(path.lines, i)}
<1>3. first \in P
  BY <1>2
<1>4. ASSUME NEW i \in first..last, i < last, i \in P PROVE i + 1 \in P
  <2>1. i + 1 \in first..last /\ i + 1 # first /\ (i + 1) - 1 = i /\ i \in Nat /\ i < Len(path.lines)
    BY <1>0, <1>4
  <2>2. data[i + 1] = Follows(data[i], path.lines[i + 1])
    BY <1>2, <2>1
  <2> QED BY <1>4, <2>1, <2>2, ActivityStep
<1> HIDE DEF P
<1>5. last \in P
  <2>1. first \in Int /\ last \in Int /\ last \in first..last
    OBVIOUS
  <2> HIDE DEF first
  <2>2. \A i \in first..last : i \in P
    BY <1>3, <1>4, <2>1, Upwards
  <2> QED BY <2>1, <2>2
<1>6. data[last] = ActivityData(path.lines, last)
  BY <1>5 DEF P
<1>7. WithActivity(s, last) = data[last]
  BY DEF WithActivity, data
<1> QED BY <1>6, <1>7

-----------------------------------------------------------------------------
(* The file.                                                               *)

(* Each record of a rollout is one. *)
LEMMA RecordTypes ==
    ASSUME NEW lines, LinesAre(lines)
    PROVE  /\ Len(lines) \in Nat /\ DOMAIN lines = 1..Len(lines)
           /\ \A i \in 1..Len(lines) : lines[i] \in Record /\ lines[i].n \in Nat /\ lines[i].of \in Nat /\ lines[i].turn \in Nat
<1>1. lines \in Seq(Record)
  BY DEF LinesAre
<1>2. \A i \in 1..Len(lines) : lines[i] \in Record
  BY <1>1
<1> QED BY <1>1, <1>2 DEF Record

(* A record that Codex appends. *)
LEMMA AppendedLines ==
    ASSUME NEW lines, LinesAre(lines), NEW kind \in Kinds, NEW n \in Nat, NEW of \in Nat, NEW turn \in Nat,
           n > 0, \A i \in 1..Len(lines) : lines[i].n < n,
           kind # "output" => of = 0,
           kind = "output" => \E i \in 1..Len(lines) : lines[i].kind = "call" /\ lines[i].n = of
    PROVE  LinesAre(Append(lines, [kind |-> kind, n |-> n, of |-> of, turn |-> turn]))
<1> DEFINE r == [kind |-> kind, n |-> n, of |-> of, turn |-> turn]
           more == Append(lines, r)
           m == Len(lines)
<1>1. lines \in Seq(Record) /\ m \in Nat /\ \A i \in 1..m : lines[i].n \in Nat
  BY RecordTypes DEF LinesAre
<1>2. r \in Record
  BY DEF Record, Kinds
<1>3. /\ more \in Seq(Record) /\ Len(more) = m + 1 /\ more[m + 1] = r
      /\ \A i \in 1..m : more[i] = lines[i]
  BY <1>1, <1>2
<1>4. r.kind = kind /\ r.n = n /\ r.of = of
  OBVIOUS
<1> HIDE DEF more, r
<1>5. ASSUME NEW i \in 1..(m + 1), NEW j \in 1..(m + 1), i < j PROVE more[i].n < more[j].n
  <2>1. i \in 1..m
    BY <1>1, <1>5
  <2>2. CASE j = m + 1
    BY <1>3, <1>4, <2>1, <2>2
  <2>3. CASE j # m + 1
    <3>1. j \in 1..m
      BY <1>1, <2>3
    <3> QED BY <1>3, <1>5, <2>1, <3>1 DEF LinesAre
  <2> QED BY <2>2, <2>3
<1>6. ASSUME NEW i \in 1..(m + 1)
      PROVE  /\ more[i].n > 0
             /\ more[i].kind # "output" => more[i].of = 0
             /\ more[i].kind = "output" =>
                    \E j \in 1..(i - 1) : more[j].kind = "call" /\ more[j].n = more[i].of
  <2>1. CASE i = m + 1
    <3>1. 1..(i - 1) = 1..m
      BY <1>1, <2>1
    <3>2. kind = "output" => \E j \in 1..m : more[j].kind = "call" /\ more[j].n = of
      BY <1>3
    <3> QED BY <1>3, <1>4, <2>1, <3>1, <3>2
  <2>2. CASE i # m + 1
    <3>1. i \in 1..m /\ \A j \in 1..(i - 1) : j \in 1..m
      BY <1>1, <2>2
    <3> QED BY <1>3, <3>1 DEF LinesAre
  <2> QED BY <2>1, <2>2
<1> QED BY <1>3, <1>5, <1>6 DEF LinesAre, more, r

(* A file that is cut. *)
LEMMA CutLines ==
    ASSUME NEW lines, LinesAre(lines), NEW k \in Nat, k < Len(lines)
    PROVE  /\ LinesAre(SubSeq(lines, 1, k)) /\ Len(SubSeq(lines, 1, k)) = k
           /\ \A i \in 1..k : SubSeq(lines, 1, k)[i] = lines[i]
<1> DEFINE less == SubSeq(lines, 1, k)
<1>1. lines \in Seq(Record) /\ Len(lines) \in Nat /\ \A i \in 1..Len(lines) : lines[i] \in Record
  BY RecordTypes DEF LinesAre
<1>2. less \in Seq(Record) /\ Len(less) = k /\ \A i \in 1..k : less[i] = lines[i]
  BY <1>1
<1> HIDE DEF less
<1>3. \A i \in 1..k : i \in 1..Len(lines) /\ \A j \in 1..(i - 1) : j \in 1..k
  BY <1>1
<1>4. LinesAre(less)
  <2>1. \A i, j \in 1..k : i < j => less[i].n < less[j].n
    BY <1>2, <1>3 DEF LinesAre
  <2>2. ASSUME NEW i \in 1..k
        PROVE  /\ less[i].n > 0
               /\ less[i].kind # "output" => less[i].of = 0
               /\ less[i].kind = "output" =>
                      \E j \in 1..(i - 1) : less[j].kind = "call" /\ less[j].n = less[i].of
    <3>1. i \in 1..Len(lines) /\ less[i] = lines[i] /\ \A j \in 1..(i - 1) : less[j] = lines[j]
      BY <1>2, <1>3
    <3> QED BY <3>1 DEF LinesAre
  <2> QED BY <1>2, <2>1, <2>2 DEF LinesAre
<1> QED BY <1>2, <1>4 DEF less

(* The record a step of Codex writes. *)
LEMMA WrittenLines ==
    ASSUME FileInv, NEW kind \in KindsOf[reader], WritesRecord(kind)
    PROVE  /\ FileInv'
           /\ path'.id = path.id /\ path'.gen = path.gen /\ path'.torn = FALSE
           /\ Len(path'.lines) = Len(path.lines) + 1
           /\ \A i \in 1..Len(path.lines) : path'.lines[i] = path.lines[i]
<1>1. PICK of \in IF kind = "output" THEN {r.n : r \in OpenCalls} ELSE {0}, turn \in TurnsNamed(kind) :
          path' = [path EXCEPT !.torn = FALSE,
                               !.lines = Append(@, [kind |-> kind, n |-> written + 1, of |-> of, turn |-> turn])]
  BY DEF WritesRecord
<1> DEFINE r == [kind |-> kind, n |-> written + 1, of |-> of, turn |-> turn]
<1>2. LinesAre(path.lines) /\ path.lines \in Seq(Record) /\ written + 1 \in Nat /\ written + 1 > 0
  BY DEF FileInv
<1>3. /\ Len(path.lines) \in Nat /\ DOMAIN path.lines = 1..Len(path.lines)
      /\ \A i \in 1..Len(path.lines) : path.lines[i].n \in Nat
  BY <1>2, RecordTypes
<1>4. kind \in Kinds
  BY DEF FileInv, Kinds
<1>5. /\ of \in Nat
      /\ kind # "output" => of = 0
      /\ kind = "output" => \E i \in 1..Len(path.lines) : path.lines[i].kind = "call" /\ path.lines[i].n = of
  <2>1. CASE kind = "output"
    <3>1. PICK c \in OpenCalls : of = c.n
      BY <1>1, <2>1
    <3>2. PICK i \in 1..Len(path.lines) : c = path.lines[i] /\ c.kind = "call"
      BY <1>3, <3>1 DEF OpenCalls
    <3> QED BY <1>3, <2>1, <3>1, <3>2
  <2>2. CASE kind # "output"
    BY <1>1, <2>2
  <2> QED BY <2>1, <2>2
<1>6. \A i \in 1..Len(path.lines) : path.lines[i].n < written + 1
  BY <1>3 DEF FileInv
<1>60. turn \in Nat
  <2>1. \A i \in DOMAIN path.lines : path.lines[i].turn \in Nat
    BY <1>2, <1>3, RecordTypes
  <2>2. TurnsNamed(kind) \subseteq Nat
    BY <1>2, <2>1 DEF TurnsNamed
  <2> QED BY <2>2
<1>7. LinesAre(Append(path.lines, r))
  BY <1>2, <1>4, <1>5, <1>6, <1>60, AppendedLines
<1>8. path'.lines = Append(path.lines, r) /\ path'.torn = FALSE /\ path'.id = path.id /\ path'.gen = path.gen /\ path'.cut = path.cut
  BY <1>1 DEF FileInv
<1>9. r \in Record
  BY <1>2, <1>4, <1>5, <1>60 DEF Record, Kinds
<1>10. /\ path'.lines \in Seq(Record) /\ Len(path'.lines) = Len(path.lines) + 1 /\ path'.lines[Len(path.lines) + 1] = r
       /\ \A i \in 1..Len(path.lines) : path'.lines[i] = path.lines[i]
  <2> HIDE DEF r
  <2> QED BY <1>2, <1>8, <1>9
<1>11. path' \in [id : Nat, gen : Nat, lines : Seq(Record), torn : BOOLEAN, cut : BOOLEAN]
  BY <1>1, <1>8, <1>10 DEF FileInv
<1>12. written' = written + 1 /\ reader' = reader
  BY DEF WritesRecord
<1>13. \A i \in 1..Len(path'.lines) : path'.lines[i].n <= written'
  <2> TAKE i \in 1..Len(path'.lines)
  <2>1. CASE i = Len(path.lines) + 1
    BY <1>2, <1>10, <1>12, <2>1
  <2>2. CASE i # Len(path.lines) + 1
    <3>1. i \in 1..Len(path.lines)
      BY <1>3, <1>10, <2>2
    <3> QED BY <1>3, <1>6, <1>10, <1>12, <3>1 DEF FileInv
  <2> QED BY <2>1, <2>2
<1>14. FileInv'
  BY <1>2, <1>7, <1>8, <1>11, <1>12, <1>13 DEF FileInv
<1> QED BY <1>8, <1>10, <1>14

(* What a cut leaves. *)
LEMMA CutFile ==
    ASSUME FileInv, NEW k \in Nat, Cuts(k)
    PROVE  /\ FileInv'
           /\ path'.id = path.id /\ path'.gen = path.gen + 1 /\ path'.torn = FALSE
           /\ Len(path'.lines) = k /\ k < Len(path.lines)
<1>1. LinesAre(path.lines) /\ k < Len(path.lines)
  BY DEF FileInv, Cuts
<1>2. path' = [path EXCEPT !.gen = @ + 1, !.lines = SubSeq(@, 1, k), !.torn = FALSE, !.cut = TRUE]
  BY DEF Cuts
<1>3. /\ path'.lines = SubSeq(path.lines, 1, k) /\ path'.torn = FALSE /\ path'.id = path.id /\ path'.gen = path.gen + 1
  BY <1>2 DEF FileInv
<1>4. /\ LinesAre(path'.lines) /\ Len(path'.lines) = k
      /\ \A i \in 1..k : path'.lines[i] = path.lines[i]
  BY <1>1, <1>3, CutLines
<1>5. path'.lines \in Seq(Record)
  BY <1>4 DEF LinesAre
<1>6. path' \in [id : Nat, gen : Nat, lines : Seq(Record), torn : BOOLEAN, cut : BOOLEAN]
  <2>1. path.gen + 1 \in Nat
    BY DEF FileInv
  <2> DEFINE less == SubSeq(path.lines, 1, k)
  <2>2. less \in Seq(Record)
    BY <1>3, <1>5
  <2> HIDE DEF less
  <2>3. [path EXCEPT !.gen = path.gen + 1, !.lines = less, !.torn = FALSE, !.cut = TRUE]
            \in [id : Nat, gen : Nat, lines : Seq(Record), torn : BOOLEAN, cut : BOOLEAN]
    BY <2>1, <2>2 DEF FileInv
  <2> QED BY <1>2, <2>3 DEF less
<1>7. reader' = reader /\ written' = written
  BY DEF Cuts
<1>8. \A i \in 1..k : i \in 1..Len(path.lines)
  BY <1>1, RecordTypes
<1>9. FileInv'
  BY <1>4, <1>6, <1>7, <1>8 DEF FileInv
<1> QED BY <1>1, <1>3, <1>4, <1>9

(* Another file. *)
LEMMA ReplacedFile ==
    ASSUME FileInv, Replaces
    PROVE  /\ FileInv'
           /\ path'.id = path.id + 1 /\ path'.gen = path.gen + 1
<1>1. path' = [id |-> path.id + 1, gen |-> path.gen + 1, lines |-> <<>>, torn |-> FALSE, cut |-> FALSE]
  BY DEF Replaces
<1>2. <<>> \in Seq(Record) /\ Len(<<>>) = 0
  OBVIOUS
<1>3. LinesAre(<<>>)
  BY <1>2 DEF LinesAre
<1>4. path.id \in Nat /\ path.gen \in Nat
  BY DEF FileInv
<1>5. path' \in [id : Nat, gen : Nat, lines : Seq(Record), torn : BOOLEAN, cut : BOOLEAN]
  BY <1>1, <1>2, <1>4
<1>6. path'.lines = <<>>
  BY <1>1
<1>7. reader' = reader /\ written' = written
  BY DEF Replaces
<1> QED BY <1>1, <1>2, <1>3, <1>5, <1>6, <1>7 DEF FileInv

-----------------------------------------------------------------------------
(* The cache and the look under way.                                       *)

(* What is known when a look reads. *)
LEMMA ReadFacts ==
    ASSUME FileInv, LookInv, CacheInv, look.step = "read"
    PROVE  /\ Available \in 0..Len(path.lines) /\ 2 * Available <= look.size /\ 2 * Available <= Size(path)
           /\ look.quiet => look.id = path.id /\ look.size = Size(path) /\ Available = Len(path.lines)
           /\ cache.offset \div 2 \in Nat /\ cache.offset = 2 * (cache.offset \div 2)
           /\ (cache.offset + 1) \div 2 = cache.offset \div 2
           /\ look.id \in Nat /\ look.id <= path.id /\ look.size \in Nat
<1> DEFINE n == Len(path.lines)
<1>1. n \in Nat /\ path.torn \in BOOLEAN /\ path.id \in Nat
  BY RecordTypes DEF FileInv
<1>2. look.size \in Nat /\ look.id \in 0..path.id
  BY DEF LookInv
<1>3. Size(path) = 2 * n \/ Size(path) = 2 * n + 1
  <2>1. CASE path.torn
    BY <1>1, <2>1 DEF Size
  <2>2. CASE ~path.torn
    BY <1>1, <2>2 DEF Size
  <2> QED BY <2>1, <2>2
<1>4. PICK k \in Nat : cache.offset = 2 * k
  BY DEF CacheInv
<1>5. (2 * k) \div 2 = k /\ (2 * k + 1) \div 2 = k
  OBVIOUS
<1> HIDE DEF n
<1>6. /\ Available \in 0..n /\ 2 * Available <= look.size /\ 2 * Available <= Size(path)
      /\ look.size = Size(path) => Available = n
  BY <1>1, <1>2, <1>3 DEF Available, Least
<1> QED BY <1>1, <1>2, <1>4, <1>5, <1>6 DEF LookInv, n

(* What a look makes anew of what it has read keeps the relation of the    *)
(* cache to the file.                                                      *)
LEMMA ReadKeepsCache ==
    ASSUME FileInv, LookInv, CacheInv, look.step = "read", NEW m \in 0..Len(path.lines),
           DOMAIN cache' = {"id", "offset", "gen", "from", "data"},
           cache'.id = look.id, cache'.offset = 2 * m,
           cache'.gen = GenNow \/ (cache'.gen = -1 /\ "content" \in blurred),
           path' = path, blurred' = blurred,
           still' => look.quiet /\ m = Len(path.lines)
    PROVE  CacheInv'
<1>1. /\ look.id \in Nat /\ look.id <= path.id
      /\ look.quiet => look.id = path.id
  BY ReadFacts
<1>2. path.id \in Nat /\ path.gen \in Nat /\ Len(path.lines) \in Nat
  BY RecordTypes DEF FileInv
<1>3. GenNow \in (-1)..path.gen /\ (GenNow = path.gen <=> look.id = path.id)
  BY <1>2 DEF GenNow
<1>4. cache'.id \in (-1)..path.id /\ cache'.gen \in (-1)..path.gen
  BY <1>1, <1>2, <1>3
<1>5. \E k \in Nat : cache'.offset = 2 * k
  BY <1>2
<1>6. cache'.gen = path.gen => cache'.id = path.id /\ cache'.offset <= 2 * Len(path.lines)
  BY <1>2, <1>3
<1>7. cache'.id = path.id /\ "content" \notin blurred => cache'.gen = path.gen
  BY <1>3
<1>8. still' /\ "content" \notin blurred => cache'.gen = path.gen /\ cache'.offset = 2 * Len(path.lines)
  BY <1>1, <1>7
<1>9. cache'.id # -1
  BY <1>1
<1> QED BY <1>4, <1>5, <1>6, <1>7, <1>8, <1>9 DEF CacheInv, Whole

(* What a look leaves as it was is as far as it should be. *)
LEMMA ReadKeepsOld ==
    ASSUME FileInv, LookInv, CacheInv, look.step = "read", ~Rebuilds,
           cache' = cache, path' = path, blurred' = blurred,
           still' => look.quiet /\ Available <= cache.offset \div 2
    PROVE  CacheInv'
<1>1. /\ look.quiet => look.id = path.id /\ look.size = Size(path) /\ Available = Len(path.lines)
      /\ cache.offset \div 2 \in Nat /\ cache.offset = 2 * (cache.offset \div 2)
      /\ look.size \in Nat
  BY ReadFacts
<1>2. cache.id = look.id /\ ~(look.size < cache.offset)
  BY DEF Rebuilds
<1>3. Len(path.lines) \in Nat
  BY RecordTypes DEF FileInv
<1>4. ASSUME still', "content" \notin blurred PROVE Whole'
  <2>1. cache.id = path.id /\ ~(Size(path) < cache.offset)
    BY <1>1, <1>2, <1>4
  <2>2. cache.gen = path.gen
    BY <1>4, <2>1 DEF CacheInv
  <2>3. cache.offset <= 2 * Len(path.lines) /\ Len(path.lines) <= cache.offset \div 2
    BY <1>1, <1>4, <2>2 DEF CacheInv
  <2>4. cache.offset = 2 * Len(path.lines)
    BY <1>1, <1>3, <2>3
  <2> QED BY <2>2, <2>4 DEF Whole
<1> QED BY <1>4 DEF CacheInv

(* The generation of a state that went on. *)
LEMMA GoesOnGen ==
    ASSUME FileInv, LookInv, CacheInv, look.step = "read", ~Rebuilds, Available > cache.offset \div 2
    PROVE  GenFrom(cache.gen) = GenNow \/ (GenFrom(cache.gen) = -1 /\ "content" \in blurred)
<1>1. /\ 2 * Available <= Size(path) /\ Available \in Nat
      /\ cache.offset \div 2 \in Nat /\ cache.offset = 2 * (cache.offset \div 2)
  BY ReadFacts, RecordTypes DEF FileInv
<1>2. cache.id = look.id
  BY DEF Rebuilds
<1>3. Size(path) \in Int
  BY RecordTypes DEF FileInv, Size
<1>4. ~(Size(path) < cache.offset)
  BY <1>1, <1>3
<1>5. CASE cache.gen = path.gen
  BY <1>2, <1>5 DEF CacheInv, GenFrom, GenNow
<1>6. CASE cache.gen # path.gen /\ look.id # path.id
  BY <1>6 DEF GenFrom, GenNow
<1>7. CASE cache.gen # path.gen /\ look.id = path.id
  BY <1>2, <1>4, <1>7 DEF CacheInv, GenFrom
<1> QED BY <1>5, <1>6, <1>7

(* A step that leaves the file as it was leaves all of it. *)
LEMMA FileStays == ASSUME FileInv, path' = path, written' = written, reader' = reader PROVE FileInv'
BY DEF FileInv

(* A look begins. *)
LEMMA LookBegins ==
    ASSUME FileInv, LookInv, NEW ask, Looks(ask)
    PROVE  LookInv'
<1>1. look' = [step |-> "read", quiet |-> TRUE, id |-> path.id, size |-> Size(path), ask |-> ask] /\ path' = path
  BY DEF Looks
<1>2. path.id \in Nat /\ Size(path) \in Nat
  BY RecordTypes DEF FileInv, Size
<1> QED BY <1>1, <1>2 DEF LookInv

(* Or ends. *)
LEMMA LookEnds == ASSUME look' = NoLook PROVE LookInv'
BY DEF NoLook, LookInv

(* Or is disturbed. *)
LEMMA LookDisturbed ==
    ASSUME FileInv, FileInv', LookInv, look' = [look EXCEPT !.quiet = FALSE],
           path'.id >= path.id
    PROVE  LookInv'
<1>1. path.id \in Nat /\ path'.id \in Nat
  BY DEF FileInv
<1>2. look'.quiet = FALSE /\ look'.step = look.step /\ DOMAIN look' = DOMAIN look
  BY DEF LookInv
<1>3. ASSUME look.step = "read" PROVE look'.id = look.id /\ look'.size = look.size
  BY <1>3 DEF LookInv
<1> QED BY <1>1, <1>2, <1>3 DEF LookInv

-----------------------------------------------------------------------------
(* The looks of the two indexes.                                           *)

(* What a look of the index goes on from: nothing, or the cache.           *)
LEMMA IndexBaseIs ==
    ASSUME FileInv, LookInv, CacheInv, IndexInv, reader = "index", look.step = "read"
    PROVE  /\ DOMAIN IndexBase = {"id", "offset", "gen", "from", "data"}
           /\ DOMAIN IndexBase.data = {"rev", "turns"}
           /\ IndexBase.id = look.id
           /\ IndexBase.offset \div 2 \in Nat /\ IndexBase.offset = 2 * (IndexBase.offset \div 2)
           /\ Rebuilds => IndexBase.offset = 0 /\ IndexBase.gen = GenNow /\ IndexBase.data.turns = TurnsOf(path.lines, 0)
           /\ ~Rebuilds => IndexBase = cache /\ cache.id = look.id /\ cache.id # -1
<1>1. CASE Rebuilds
  <2>1. IndexBase = FreshIndex
    BY <1>1 DEF IndexBase
  <2>2. 0 \div 2 = 0
    OBVIOUS
  <2> QED BY <1>1, <2>1, <2>2, TurnsOfNothing DEF FreshIndex
<1>2. CASE ~Rebuilds
  <2>1. IndexBase = cache /\ cache.id = look.id
    BY <1>2 DEF IndexBase, Rebuilds
  <2>2. cache.id # -1
    BY <2>1, ReadFacts
  <2> QED BY <1>2, <2>1, <2>2, ReadFacts DEF CacheInv, IndexInv
<1> QED BY <1>1, <1>2

(* The generation of a state that has read something. *)
LEMMA BaseGen ==
    ASSUME FileInv, LookInv, CacheInv, look.step = "read",
           NEW s, Rebuilds => s.offset = 0, ~Rebuilds => s = cache, s.offset \div 2 < Available
    PROVE  LET gen == IF s.offset = 0 THEN GenNow ELSE GenFrom(s.gen)
           IN  gen = GenNow \/ (gen = -1 /\ "content" \in blurred)
<1>1. CASE s.offset = 0
  BY <1>1
<1>2. CASE s.offset # 0
  <2>1. ~Rebuilds /\ s = cache
    BY <1>2
  <2>2. Available > cache.offset \div 2
    BY <2>1, ReadFacts
  <2> QED BY <1>2, <2>1, <2>2, GoesOnGen
<1> QED BY <1>1, <1>2

(* A look of the index that reads. *)
LEMMA IndexReadKeeps ==
    ASSUME FileInv, LookInv, CacheInv, IndexInv, IndexReads
    PROVE  CacheInv' /\ IndexInv'
<1> DEFINE s == IndexBase
           k == s.offset \div 2
<1>0. /\ reader = "index" /\ look.step = "read" /\ cache' = Indexed(s) /\ still' = look.quiet
      /\ spoiled' = (spoiled /\ ~(Rebuilds /\ cache.id # -1))
      /\ reader' = reader /\ path' = path /\ blurred' = blurred
  BY DEF IndexReads
<1>1. /\ DOMAIN s = {"id", "offset", "gen", "from", "data"} /\ DOMAIN s.data = {"rev", "turns"}
      /\ s.id = look.id /\ k \in Nat /\ s.offset = 2 * k
      /\ Rebuilds => s.offset = 0 /\ s.gen = GenNow /\ s.data.turns = TurnsOf(path.lines, 0)
      /\ ~Rebuilds => s = cache /\ cache.id = look.id /\ cache.id # -1
  BY <1>0, IndexBaseIs
<1>2. Available \in 0..Len(path.lines) /\ Available \in Nat
  <2>1. Available \in 0..Len(path.lines)
    BY <1>0, ReadFacts
  <2> QED BY <2>1
<1>20. still' => look.quiet /\ Available = Len(path.lines)
  BY <1>0, ReadFacts, Zenon DEF LookInv
<1>21. Positions(s) = (k + 1)..Available
  BY DEF Positions
<1>3. Len(path.lines) \in Nat
  BY RecordTypes DEF FileInv
<1>4. reader' # "activity"
  BY <1>0
<1> HIDE DEF s, k
<1>5. CASE Available <= k
  <2>1. cache' = s
    <3>1. Positions(s) = {}
      BY <1>1, <1>2, <1>5, <1>21
    <3> QED BY <1>0, <3>1 DEF Indexed
  <2>2. CASE Rebuilds
    <3>1. s.offset = 2 * 0 /\ k = 0 /\ 0 \in 0..Len(path.lines) /\ s.gen = GenNow
      BY <1>1, <1>3, <2>2
    <3>2. still' => look.quiet /\ 0 = Len(path.lines)
      <4>1. Available = 0
        BY <1>2, <1>5, <3>1
      <4> QED BY <1>20, <4>1
    <3>3. CacheInv'
      BY <1>0, <1>1, <2>1, <3>1, <3>2, ReadKeepsCache
    <3>4. cache'.data.turns = TurnsOf(path'.lines, cache'.offset \div 2) /\ DOMAIN cache'.data = {"rev", "turns"}
      BY <1>0, <1>1, <2>1, <2>2, <3>1 DEF k
    <3> QED BY <1>4, <3>3, <3>4 DEF IndexInv
  <2>3. CASE ~Rebuilds
    <3>1. cache' = cache /\ s = cache /\ Available <= cache.offset \div 2
      BY <1>1, <1>5, <2>1, <2>3 DEF k
    <3>2. still' => look.quiet /\ Available <= cache.offset \div 2
      BY <1>20, <3>1
    <3>3. CacheInv'
      BY <1>0, <2>3, <3>1, <3>2, ReadKeepsOld
    <3>5. ~spoiled' => ~spoiled
      BY <1>0, <2>3
    <3> QED BY <1>0, <3>1, <3>3, <3>5 DEF IndexInv, Current
  <2> QED BY <2>2, <2>3
<1>6. CASE k < Available
  <2> DEFINE gen == IF s.offset = 0 THEN GenNow ELSE GenFrom(s.gen)
  <2>1. cache' = [WithTurns(s, Available) EXCEPT !.offset = 2 * Available, !.gen = gen]
    <3>1. Available \in Positions(s)
      BY <1>1, <1>2, <1>6, <1>21
    <3>2. WithTurns(s, Available).gen = s.gen
      BY <1>1 DEF WithTurns
    <3> QED BY <1>0, <1>1, <3>1, <3>2 DEF Indexed, WithTurns
  <2>2. gen = GenNow \/ (gen = -1 /\ "content" \in blurred)
    BY <1>0, <1>1, <1>6, BaseGen DEF k
  <2>3. /\ DOMAIN cache' = {"id", "offset", "gen", "from", "data"} /\ DOMAIN cache'.data = {"rev", "turns"}
        /\ cache'.id = look.id /\ cache'.offset = 2 * Available /\ cache'.gen = gen
        /\ cache'.data = WithTurns(s, Available).data
    <3> HIDE DEF gen
    <3> QED BY <1>1, <2>1 DEF WithTurns
  <2>5. CacheInv'
    <3> HIDE DEF gen
    <3> QED BY <1>0, <1>2, <1>20, <2>2, <2>3, ReadKeepsCache
  <2>6. ASSUME Current', ~spoiled' PROVE cache'.data.turns = TurnsOf(path.lines, Available)
    <3>1. gen = path.gen
      <4>1. 2 * Available # 0
        BY <1>1, <1>2, <1>6
      <4> HIDE DEF gen
      <4> QED BY <1>0, <2>3, <2>6, <4>1 DEF Current
    <3>2. s.data.turns = TurnsOf(path.lines, k)
      <4>1. CASE Rebuilds
        BY <1>1, <4>1 DEF k
      <4>2. CASE ~Rebuilds
        <5>1. ~spoiled
          BY <1>0, <2>6, <4>2
        <5>2. cache.offset = 0 \/ cache.gen = path.gen
          BY <1>1, <3>1, <4>2 DEF GenFrom, FileInv
        <5> QED BY <1>0, <1>1, <4>2, <5>1, <5>2 DEF IndexInv, Current, k
      <4> QED BY <4>1, <4>2
    <3>3. WithTurns(s, Available) = [s EXCEPT !.data.turns = TurnsOf(path.lines, Available)]
      <4>1. k <= Available
        BY <1>1, <1>2, <1>6
      <4> QED BY <1>1, <1>2, <3>2, <4>1, TurnsRead DEF k
    <3> QED BY <1>1, <2>3, <3>3
  <2>7. Available = (2 * Available) \div 2
    BY <1>2
  <2>8. path'.lines = path.lines
    BY <1>0
  <2> HIDE DEF gen
  <2> QED BY <1>4, <2>3, <2>5, <2>6, <2>7, <2>8 DEF IndexInv
<1> QED BY <1>1, <1>2, <1>5, <1>6

(* A look of the index that fails half way. *)
LEMMA IndexFailKeeps ==
    ASSUME FileInv, LookInv, CacheInv, IndexInv, NEW last \in Nat, IndexFails(last)
    PROVE  CacheInv' /\ IndexInv'
<1> DEFINE s == IndexBase
           k == s.offset \div 2
           gen == IF s.offset = 0 THEN GenNow ELSE GenFrom(s.gen)
<1>0. /\ reader = "index" /\ look.step = "read" /\ still' = FALSE /\ spoiled' = TRUE /\ last \in Positions(s)
      /\ reader' = reader /\ path' = path /\ blurred' = blurred
      /\ cache' = [WithTurns(s, last) EXCEPT !.gen = IF s.offset = 0 THEN GenNow ELSE GenFrom(@)]
  BY DEF IndexFails
<1>1. /\ DOMAIN s = {"id", "offset", "gen", "from", "data"} /\ DOMAIN s.data = {"rev", "turns"}
      /\ s.id = look.id /\ k \in Nat /\ s.offset = 2 * k
      /\ Rebuilds => s.offset = 0 /\ s.gen = GenNow /\ s.data.turns = TurnsOf(path.lines, 0)
      /\ ~Rebuilds => s = cache /\ cache.id = look.id /\ cache.id # -1
  BY <1>0, IndexBaseIs
<1>2. Available \in 0..Len(path.lines)
  BY <1>0, ReadFacts
<1> HIDE DEF s, k
<1>3. k < Available
  BY <1>0, <1>1, <1>2 DEF Positions, k
<1>4. gen = GenNow \/ (gen = -1 /\ "content" \in blurred)
  BY <1>0, <1>1, <1>3, BaseGen DEF k
<1>5. /\ DOMAIN cache' = {"id", "offset", "gen", "from", "data"} /\ DOMAIN cache'.data = {"rev", "turns"}
      /\ cache'.id = look.id /\ cache'.offset = 2 * k /\ cache'.gen = gen
  <2>1. WithTurns(s, last).gen = s.gen
    BY <1>1 DEF WithTurns
  <2> QED BY <1>0, <1>1, <2>1 DEF WithTurns
<1>6. k \in 0..Len(path.lines)
  BY <1>1, <1>2, <1>3
<1>7. CacheInv'
  <2> HIDE DEF gen
  <2> QED BY <1>0, <1>4, <1>5, <1>6, ReadKeepsCache
<1> QED BY <1>0, <1>5, <1>7 DEF IndexInv
(* What a look of the activity index goes on from. *)
LEMMA ActivityBaseIs ==
    ASSUME FileInv, LookInv, CacheInv, look.step = "read"
    PROVE  /\ DOMAIN ActivityBase = {"id", "offset", "gen", "from", "data"}
           /\ ActivityBase.id = look.id
           /\ ActivityBase.offset \div 2 \in Nat /\ ActivityBase.offset = 2 * (ActivityBase.offset \div 2)
           /\ Rebuilds => /\ ActivityBase.offset = 0 /\ ActivityBase.gen = GenNow
                          /\ ActivityBase.data = ActivityData(path.lines, 0)
           /\ ~Rebuilds => ActivityBase = cache /\ cache.id = look.id /\ cache.id # -1
<1>1. CASE Rebuilds
  <2>1. ActivityBase = [id |-> look.id, offset |-> 0, gen |-> GenNow, from |-> 1, data |-> NoActivity]
    BY <1>1 DEF ActivityBase
  <2>2. 0 \div 2 = 0
    OBVIOUS
  <2> QED BY <1>1, <2>1, <2>2, ActivityOfNothing
<1>2. CASE ~Rebuilds
  <2>1. ActivityBase = cache /\ cache.id = look.id
    BY <1>2 DEF ActivityBase, Rebuilds
  <2>2. cache.id # -1
    BY <2>1, ReadFacts
  <2> QED BY <1>2, <2>1, <2>2, ReadFacts DEF CacheInv
<1> QED BY <1>1, <1>2

(* A look of the activity index that reads. *)
LEMMA ActivityReadKeeps ==
    ASSUME FileInv, LookInv, CacheInv, IndexInv, ActivityReads
    PROVE  CacheInv' /\ IndexInv'
<1> DEFINE s == ActivityBase
           k == s.offset \div 2
           gen == IF s.offset = 0 THEN GenNow ELSE GenFrom(s.gen)
<1>0. /\ reader = "activity" /\ look.step = "read" /\ still' = look.quiet
      /\ cache' = IF Positions(s) = {} THEN s
                  ELSE [s EXCEPT !.offset = 2 * Available,
                                 !.gen = IF s.offset = 0 THEN GenNow ELSE GenFrom(@),
                                 !.data = WithActivity(s, Available)]
      /\ spoiled' = (spoiled /\ ~Rebuilds)
      /\ reader' = reader /\ path' = path /\ blurred' = blurred
  BY DEF ActivityReads, Done
<1>1. /\ DOMAIN s = {"id", "offset", "gen", "from", "data"}
      /\ s.id = look.id /\ k \in Nat /\ s.offset = 2 * k
      /\ Rebuilds => s.offset = 0 /\ s.gen = GenNow /\ s.data = ActivityData(path.lines, 0)
      /\ ~Rebuilds => s = cache /\ cache.id = look.id /\ cache.id # -1
  BY <1>0, ActivityBaseIs
<1>2. Available \in 0..Len(path.lines) /\ Available \in Nat /\ Len(path.lines) \in Nat
  <2>1. Available \in 0..Len(path.lines)
    BY <1>0, ReadFacts
  <2> QED BY <2>1, RecordTypes DEF FileInv
<1>3. still' => look.quiet /\ Available = Len(path.lines)
  BY <1>0, ReadFacts, Zenon DEF LookInv
<1>4. Positions(s) = (k + 1)..Available
  BY DEF Positions
<1>5. reader' # "index" /\ path'.lines = path.lines
  BY <1>0
<1> HIDE DEF s, k, gen
<1>6. CASE Available <= k
  <2>1. cache' = s
    <3>1. Positions(s) = {}
      BY <1>1, <1>2, <1>4, <1>6
    <3> QED BY <1>0, <3>1
  <2>2. CASE Rebuilds
    <3>1. s.offset = 2 * 0 /\ k = 0 /\ 0 \in 0..Len(path.lines) /\ s.gen = GenNow
      BY <1>1, <1>2, <2>2
    <3>2. still' => look.quiet /\ 0 = Len(path.lines)
      <4>1. Available = 0
        BY <1>2, <1>6, <3>1
      <4> QED BY <1>3, <4>1
    <3>3. CacheInv'
      BY <1>0, <1>1, <2>1, <3>1, <3>2, ReadKeepsCache
    <3>4. cache'.data = ActivityData(path'.lines, cache'.offset \div 2)
      BY <1>1, <1>5, <2>1, <2>2, <3>1 DEF k
    <3> QED BY <1>5, <3>3, <3>4 DEF IndexInv
  <2>3. CASE ~Rebuilds
    <3>1. cache' = cache /\ s = cache /\ Available <= cache.offset \div 2
      BY <1>1, <1>6, <2>1, <2>3 DEF k
    <3>2. still' => look.quiet /\ Available <= cache.offset \div 2
      BY <1>3, <3>1
    <3>3. CacheInv'
      BY <1>0, <2>3, <3>1, <3>2, ReadKeepsOld
    <3>4. ~spoiled' => ~spoiled
      BY <1>0, <2>3
    <3> QED BY <1>0, <3>1, <3>3, <3>4 DEF IndexInv, Current
  <2> QED BY <2>2, <2>3
<1>7. CASE k < Available
  <2>1. cache' = [s EXCEPT !.offset = 2 * Available, !.gen = gen, !.data = WithActivity(s, Available)]
    <3>1. Available \in Positions(s)
      BY <1>1, <1>2, <1>4, <1>7
    <3> QED BY <1>0, <1>1, <3>1 DEF gen
  <2>2. gen = GenNow \/ (gen = -1 /\ "content" \in blurred)
    BY <1>0, <1>1, <1>7, BaseGen DEF k, gen
  <2>3. /\ DOMAIN cache' = {"id", "offset", "gen", "from", "data"}
        /\ cache'.id = look.id /\ cache'.offset = 2 * Available /\ cache'.gen = gen
        /\ cache'.data = WithActivity(s, Available)
    BY <1>1, <2>1
  <2>4. CacheInv'
    BY <1>0, <1>2, <1>3, <2>2, <2>3, ReadKeepsCache
  <2>5. ASSUME Current', ~spoiled' PROVE cache'.data = ActivityData(path.lines, Available)
    <3>1. gen = path.gen
      <4>1. 2 * Available # 0
        BY <1>1, <1>2, <1>7
      <4> QED BY <1>0, <2>3, <2>5, <4>1 DEF Current
    <3>2. s.data = ActivityData(path.lines, k)
      <4>1. CASE Rebuilds
        BY <1>1, <4>1 DEF k
      <4>2. CASE ~Rebuilds
        <5>1. ~spoiled
          BY <1>0, <2>5, <4>2
        <5>2. cache.offset = 0 \/ cache.gen = path.gen
          BY <1>1, <3>1, <4>2 DEF GenFrom, FileInv, gen
        <5> QED BY <1>0, <1>1, <4>2, <5>1, <5>2 DEF IndexInv, Current, k
      <4> QED BY <4>1, <4>2
    <3>3. k <= Available /\ Available <= Len(path.lines) /\ LinesAre(path.lines)
      BY <1>1, <1>2, <1>7 DEF FileInv
    <3>4. WithActivity(s, Available) = ActivityData(path.lines, Available)
      BY <1>1, <1>2, <3>2, <3>3, ActivityRead DEF k
    <3> QED BY <2>3, <3>4
  <2>6. Available = (2 * Available) \div 2
    BY <1>2
  <2> QED BY <1>5, <2>3, <2>4, <2>5, <2>6 DEF IndexInv
<1> QED BY <1>1, <1>2, <1>6, <1>7

(* A read that leaves the cache as it was, of a look that has not succeeded. *)
LEMMA FailedReadKeeps ==
    ASSUME CacheInv, cache' = cache, path' = path, blurred' = blurred, still' = FALSE
    PROVE  CacheInv'
BY DEF CacheInv

(* A look of the activity index that fails half way. *)
LEMMA ActivityFailKeeps ==
    ASSUME FileInv, LookInv, CacheInv, IndexInv, NEW last \in Nat, ActivityFails(last)
    PROVE  CacheInv' /\ IndexInv'
<1> DEFINE k == cache.offset \div 2
           gen == GenFrom(cache.gen)
<1>0. /\ reader = "activity" /\ look.step = "read" /\ still' = FALSE /\ spoiled' = (spoiled \/ ~Rebuilds)
      /\ last \in Positions(ActivityBase)
      /\ reader' = reader /\ path' = path /\ blurred' = blurred
      /\ cache' = IF Rebuilds THEN cache
                  ELSE [cache EXCEPT !.gen = gen,
                                     !.data = [WithActivity(cache, last) EXCEPT !.turn = cache.data.turn]]
  BY DEF ActivityFails
<1>1. CASE Rebuilds
  <2>1. cache' = cache /\ (~spoiled' => ~spoiled)
    BY <1>0, <1>1
  <2>2. CacheInv'
    BY <1>0, <2>1, FailedReadKeeps
  <2> QED BY <1>0, <2>1, <2>2 DEF IndexInv, Current
<1>2. CASE ~Rebuilds
  <2>1. ActivityBase = cache /\ k \in Nat /\ cache.offset = 2 * k /\ cache.id = look.id
    BY <1>0, <1>2, ActivityBaseIs
  <2>2. Available \in 0..Len(path.lines) /\ Len(path.lines) \in Nat
    BY <1>0, ReadFacts, RecordTypes DEF FileInv
  <2>3. k < Available
    BY <1>0, <2>1, <2>2 DEF Positions
  <2>4. gen = GenNow \/ (gen = -1 /\ "content" \in blurred)
    BY <1>0, <1>2, <2>3, GoesOnGen
  <2>5. /\ DOMAIN cache' = {"id", "offset", "gen", "from", "data"}
        /\ cache'.id = look.id /\ cache'.offset = 2 * k /\ cache'.gen = gen
    <3> HIDE DEF gen, k
    <3> QED BY <1>0, <1>2, <2>1 DEF CacheInv
  <2>6. k \in 0..Len(path.lines)
    BY <2>1, <2>2, <2>3
  <2>7. CacheInv'
    <3> HIDE DEF gen, k
    <3> QED BY <1>0, <2>4, <2>5, <2>6, ReadKeepsCache
  <2>8. spoiled' /\ reader' # "index"
    BY <1>0, <1>2
  <2> QED BY <2>7, <2>8 DEF IndexInv
<1> QED BY <1>1, <1>2
-----------------------------------------------------------------------------
(* The file under the readers.                                             *)

(* What a state of the path's generation has read is still there. *)
StillThere ==
    Current' =>
        /\ Current
        /\ cache.offset \div 2 \in 0..Len(path.lines) /\ cache.offset \div 2 \in 0..Len(path'.lines)
        /\ \A i \in 1..(cache.offset \div 2) : path'.lines[i] = path.lines[i]

(* How much of the file a state has read. *)
LEMMA CacheFacts ==
    ASSUME FileInv, CacheInv
    PROVE  /\ cache.offset \div 2 \in Nat /\ cache.offset = 2 * (cache.offset \div 2)
           /\ Current => cache.offset \div 2 \in 0..Len(path.lines)
           /\ path.id \in Nat /\ path.gen \in Nat /\ Len(path.lines) \in Nat /\ path.torn \in BOOLEAN
           /\ Size(path) = 2 * Len(path.lines) + (IF path.torn THEN 1 ELSE 0)
<1>1. PICK k \in Nat : cache.offset = 2 * k
  BY DEF CacheInv
<1>2. (2 * k) \div 2 = k
  OBVIOUS
<1>3. path.id \in Nat /\ path.gen \in Nat /\ Len(path.lines) \in Nat /\ path.torn \in BOOLEAN
  BY RecordTypes DEF FileInv
<1>4. ASSUME Current PROVE k <= Len(path.lines)
  BY <1>1, <1>3, <1>4 DEF CacheInv, Current
<1> QED BY <1>1, <1>2, <1>3, <1>4 DEF Size

(* Half a record. *)
LEMMA WritesPartKeeps ==
    ASSUME FileInv, LookInv, CacheInv, WritesPart
    PROVE  FileInv' /\ LookInv' /\ CacheInv' /\ StillThere
<1>0. /\ ~path.torn /\ path' = [path EXCEPT !.torn = TRUE] /\ cache' = cache /\ blurred' = blurred
      /\ reader' = reader /\ written' = written /\ look' = [look EXCEPT !.quiet = FALSE] /\ still' = FALSE
  BY DEF WritesPart, Changes
<1>1. /\ path'.id = path.id /\ path'.gen = path.gen /\ path'.lines = path.lines /\ path'.torn = TRUE
      /\ path' \in [id : Nat, gen : Nat, lines : Seq(Record), torn : BOOLEAN, cut : BOOLEAN]
  BY <1>0 DEF FileInv
<1>2. FileInv'
  BY <1>0, <1>1 DEF FileInv
<1> DEFINE k == cache.offset \div 2
<1>3. /\ k \in Nat /\ cache.offset = 2 * k /\ Len(path.lines) \in Nat /\ path.id \in Nat
      /\ Current => k \in 0..Len(path.lines)
      /\ Size(path) = 2 * Len(path.lines)
  BY <1>0, CacheFacts
<1>4. LookInv'
  BY <1>0, <1>1, <1>2, <1>3, LookDisturbed
<1>5. Size(path)' = 2 * Len(path.lines) + 1
  BY <1>1 DEF Size
<1> HIDE DEF k
<1>6. Size(path) < cache.offset => Size(path)' < cache.offset
  BY <1>3, <1>5
<1>7. CacheInv'
  BY <1>0, <1>1, <1>6 DEF CacheInv
<1>8. Current' => Current
  BY <1>0, <1>1 DEF Current
<1> QED BY <1>1, <1>2, <1>3, <1>4, <1>7, <1>8 DEF StillThere, k

(* A record. *)
LEMMA WritesRecordKeeps ==
    ASSUME FileInv, LookInv, CacheInv, NEW kind \in KindsOf[reader], WritesRecord(kind)
    PROVE  FileInv' /\ LookInv' /\ CacheInv' /\ StillThere
<1>0. /\ cache' = cache /\ blurred' = blurred \cup Escaped(path') /\ look' = [look EXCEPT !.quiet = FALSE] /\ still' = FALSE
  BY DEF WritesRecord, Changes
<1>1. /\ FileInv'
      /\ path'.id = path.id /\ path'.gen = path.gen /\ path'.torn = FALSE
      /\ Len(path'.lines) = Len(path.lines) + 1
      /\ \A i \in 1..Len(path.lines) : path'.lines[i] = path.lines[i]
  BY WrittenLines
<1> DEFINE k == cache.offset \div 2
<1>2. /\ k \in Nat /\ cache.offset = 2 * k /\ Len(path.lines) \in Nat /\ path.id \in Nat
      /\ Current => k \in 0..Len(path.lines)
  BY CacheFacts
<1>3. LookInv'
  BY <1>0, <1>1, <1>2, LookDisturbed
<1>4. Size(path)' = Size(path') /\ Size(path') \in Int
  BY <1>1, <1>2 DEF Size
<1> HIDE DEF k
<1>5. cache.id = path'.id /\ cache.gen # path'.gen /\ "content" \notin blurred' => Size(path') < cache.offset
  BY <1>0, <1>2, <1>4 DEF Escaped
<1>6. cache.gen = path.gen => cache.offset <= 2 * Len(path'.lines)
  BY <1>1, <1>2 DEF CacheInv
<1>7. CacheInv'
  BY <1>0, <1>1, <1>4, <1>5, <1>6 DEF CacheInv
<1>8. Current' => Current
  BY <1>0, <1>1 DEF Current
<1>9. Current' => k \in 0..Len(path'.lines) /\ \A i \in 1..k : path'.lines[i] = path.lines[i]
  BY <1>1, <1>2, <1>8
<1> QED BY <1>1, <1>2, <1>3, <1>7, <1>8, <1>9 DEF StillThere, k

(* A state of an earlier generation is not of the next one either. *)
LEMMA NextGeneration ==
    ASSUME FileInv, CacheInv, cache' = cache, path'.gen = path.gen + 1, Len(path'.lines) \in Nat
    PROVE  StillThere /\ cache.gen # path'.gen
<1>1. path.gen \in Nat /\ cache.gen \in (-1)..path.gen
  BY CacheFacts DEF CacheInv
<1>2. cache.gen # path'.gen
  BY <1>1
<1>3. ASSUME Current' PROVE Current /\ cache.offset \div 2 = 0
  <2>1. cache.offset = 0
    BY <1>2, <1>3 DEF Current
  <2>2. 0 \div 2 = 0
    OBVIOUS
  <2> QED BY <1>3, <2>1, <2>2 DEF Current
<1> QED BY <1>2, <1>3, CacheFacts DEF StillThere

(* A cut. *)
LEMMA CutsKeeps ==
    ASSUME FileInv, LookInv, CacheInv, NEW k \in Nat, Cuts(k)
    PROVE  FileInv' /\ LookInv' /\ CacheInv' /\ StillThere
<1>0. /\ cache' = cache /\ look' = [look EXCEPT !.quiet = FALSE] /\ still' = FALSE
      /\ Escaped(path') \subseteq blurred' /\ blurred \subseteq blurred'
  BY DEF Cuts, Changes
<1>1. /\ FileInv' /\ path'.id = path.id /\ path'.gen = path.gen + 1 /\ Len(path'.lines) = k
  BY CutFile
<1>2. path.id \in Nat /\ path.gen \in Nat
  BY CacheFacts
<1>3. LookInv'
  BY <1>0, <1>1, <1>2, LookDisturbed
<1>4. StillThere /\ cache.gen # path'.gen
  BY <1>0, <1>1, NextGeneration
<1>5. Size(path)' = Size(path') /\ Size(path') \in Int
  BY <1>1 DEF Size
<1>6. cache.id = path'.id /\ cache.gen # path'.gen /\ "content" \notin blurred' => Size(path') < cache.offset
  BY <1>0, <1>5, CacheFacts DEF Escaped
<1>7. cache.gen \in (-1)..path'.gen
  BY <1>1, <1>2 DEF CacheInv
<1>8. CacheInv'
  BY <1>0, <1>1, <1>4, <1>5, <1>6, <1>7 DEF CacheInv
<1> QED BY <1>1, <1>3, <1>4, <1>8

(* Another file. *)
LEMMA ReplacesKeeps ==
    ASSUME FileInv, LookInv, CacheInv, Replaces
    PROVE  FileInv' /\ LookInv' /\ CacheInv' /\ StillThere
<1>0. /\ cache' = cache /\ look' = [look EXCEPT !.quiet = FALSE] /\ still' = FALSE
  BY DEF Replaces, Changes
<1>1. /\ FileInv' /\ path'.id = path.id + 1 /\ path'.gen = path.gen + 1
  BY ReplacedFile
<1>2. path.id \in Nat /\ path.gen \in Nat /\ path'.id \in Nat
  BY <1>1, CacheFacts
<1>3. LookInv'
  BY <1>0, <1>1, <1>2, LookDisturbed
<1>4. Len(path'.lines) \in Nat
  BY <1>1, RecordTypes DEF FileInv
<1>5. StillThere /\ cache.gen # path'.gen
  BY <1>0, <1>1, <1>4, NextGeneration
<1>6. cache.gen \in (-1)..path'.gen /\ cache.id \in (-1)..path'.id /\ cache.id # path'.id
  BY <1>1, <1>2 DEF CacheInv
<1>7. CacheInv'
  BY <1>0, <1>1, <1>5, <1>6 DEF CacheInv
<1> QED BY <1>1, <1>3, <1>5, <1>7

(* The state is pushed out. *)
LEMMA EvictsKeeps ==
    ASSUME FileInv, LookInv, CacheInv, Evicts
    PROVE  FileInv' /\ LookInv' /\ CacheInv' /\ ~Current' /\ IndexInv'
<1>0. /\ cache' = NoCache /\ look' = look /\ still' = FALSE /\ path' = path /\ reader' = reader /\ written' = written
  BY DEF Evicts
<1>1. FileInv' /\ LookInv'
  <2>1. LookInv'
    BY <1>0 DEF LookInv, Size
  <2> QED BY <1>0, <2>1, FileStays
<1>2. path.id \in Nat /\ path.gen \in Nat
  BY CacheFacts
<1>3. /\ DOMAIN NoCache = {"id", "offset", "gen", "from", "data"} /\ NoCache.id = -1 /\ NoCache.gen = -1
      /\ NoCache.offset = 2 * 0
  BY DEF NoCache
<1>4. CacheInv'
  BY <1>0, <1>2, <1>3 DEF CacheInv
<1>5. cache'.id = -1
  BY <1>0, <1>3
<1> QED BY <1>1, <1>4, <1>5 DEF Current, IndexInv

(* What the indexes hold is right as long as what they have read is there. *)
LEMMA IndexesStay ==
    ASSUME FileInv, FileInv', IndexInv, cache' = cache, spoiled' = spoiled, reader' = reader, StillThere
    PROVE  IndexInv'
<1> DEFINE k == cache.offset \div 2
<1>1. ASSUME Current'
      PROVE  /\ Current
             /\ TurnsOf(path'.lines, k) = TurnsOf(path.lines, k)
             /\ ActivityData(path'.lines, k) = ActivityData(path.lines, k)
  <2>1. Current /\ k \in 0..Len(path.lines) /\ k \in 0..Len(path'.lines) /\ \A i \in 1..k : path'.lines[i] = path.lines[i]
    BY <1>1 DEF StillThere
  <2>2. LinesAre(path.lines) /\ LinesAre(path'.lines)
    BY DEF FileInv
  <2>3. Len(path.lines) \in Nat /\ Len(path'.lines) \in Nat
    BY <2>2, RecordTypes
  <2> HIDE DEF k
  <2>4. k \in Nat /\ k <= Len(path.lines) /\ k <= Len(path'.lines)
    BY <2>1, <2>3
  <2> QED BY <2>1, <2>2, <2>4, TurnsOfTheSame, ActivityTheSame
<1> QED BY <1>1 DEF IndexInv
-----------------------------------------------------------------------------
(* The looks of the tail.                                                  *)

(* What a catch-up that reads stores. *)
LEMMA CaughtUpIs ==
    ASSUME FileInv, LookInv, CacheInv, look.step = "read", cache.offset \div 2 < Available
    PROVE  /\ DOMAIN CaughtUp = {"id", "offset", "gen", "from", "data"}
           /\ CaughtUp.id = cache.id /\ CaughtUp.offset = 2 * Available
           /\ CaughtUp.gen = GenFrom(cache.gen) /\ CaughtUp.from = cache.from
           /\ CaughtUp.data = [CatchUp EXCEPT !.messages = Bounded(@)]
<1>1. ReadUpTo = cache.offset \div 2 /\ cache.offset \div 2 \in Nat /\ Available \in 0..Len(path.lines)
  BY ReadFacts DEF ReadUpTo
<1>2. Len(path.lines) \in Nat
  BY CacheFacts
<1>3. ~(Available <= ReadUpTo)
  BY <1>1, <1>2
<1>4. CaughtUp = [cache EXCEPT !.offset = 2 * Available, !.gen = GenFrom(cache.gen),
                               !.data = [CatchUp EXCEPT !.messages = Bounded(@)]]
  BY <1>3 DEF CaughtUp
<1>5. DOMAIN cache = {"id", "offset", "gen", "from", "data"}
  BY DEF CacheInv
<1> QED BY <1>4, <1>5

(* What a look of the tail makes of the cache. *)
LEMMA TailReadKeeps ==
    ASSUME FileInv, LookInv, CacheInv, TailReads
    PROVE  CacheInv'
<1>0. /\ look.step = "read" /\ still' = look.quiet /\ path' = path /\ blurred' = blurred
      /\ cache' = IF Rebuilds \/ look.size - cache.offset > MaxCatchup THEN Rebuilt ELSE CaughtUp
  BY DEF TailReads, Done
<1>1. /\ Available \in 0..Len(path.lines) /\ Len(path.lines) \in Nat
      /\ cache.offset \div 2 \in Nat /\ ReadUpTo = cache.offset \div 2
  BY <1>0, ReadFacts, CacheFacts DEF ReadUpTo
<1>2. still' => look.quiet /\ Available = Len(path.lines)
  BY <1>0, ReadFacts, Zenon DEF LookInv
<1>3. CASE Rebuilds \/ look.size - cache.offset > MaxCatchup
  <2>1. cache' = Rebuilt
    BY <1>0, <1>3
  <2>2. /\ DOMAIN Rebuilt = {"id", "offset", "gen", "from", "data"} /\ Rebuilt.id = look.id
        /\ Rebuilt.offset = 2 * Len(path.lines) /\ Rebuilt.gen = GenNow
    BY DEF Rebuilt
  <2>3. Len(path.lines) \in 0..Len(path.lines)
    BY <1>1
  <2>4. still' => look.quiet /\ Len(path.lines) = Len(path.lines)
    BY <1>2
  <2> HIDE DEF Rebuilt
  <2> QED BY <1>0, <2>1, <2>2, <2>3, <2>4, ReadKeepsCache
<1>4. CASE ~(Rebuilds \/ look.size - cache.offset > MaxCatchup) /\ Available <= ReadUpTo
  <2>1. cache' = cache /\ ~Rebuilds
    BY <1>0, <1>4 DEF CaughtUp
  <2>2. still' => look.quiet /\ Available <= cache.offset \div 2
    BY <1>1, <1>2, <1>4
  <2> QED BY <1>0, <2>1, <2>2, ReadKeepsOld
<1>5. CASE ~(Rebuilds \/ look.size - cache.offset > MaxCatchup) /\ ~(Available <= ReadUpTo)
  <2>1. cache' = CaughtUp /\ ~Rebuilds /\ cache.offset \div 2 < Available
    BY <1>0, <1>1, <1>5
  <2>2. cache.id = look.id
    BY <2>1 DEF Rebuilds
  <2>3. GenFrom(cache.gen) = GenNow \/ (GenFrom(cache.gen) = -1 /\ "content" \in blurred)
    BY <1>0, <1>1, <2>1, GoesOnGen
  <2>4. /\ DOMAIN cache' = {"id", "offset", "gen", "from", "data"}
        /\ cache'.id = look.id /\ cache'.offset = 2 * Available /\ cache'.gen = GenFrom(cache.gen)
    BY <1>0, <2>1, <2>2, CaughtUpIs
  <2> QED BY <1>0, <1>1, <1>2, <2>3, <2>4, ReadKeepsCache
<1> QED BY <1>3, <1>4, <1>5

(* And one that fails. *)
LEMMA TailFailKeeps ==
    ASSUME FileInv, LookInv, CacheInv, TailFails
    PROVE  CacheInv'
<1>0. /\ look.step = "read" /\ still' = FALSE /\ path' = path /\ blurred' = blurred
      /\ cache' = IF Rebuilds \/ look.size - cache.offset > MaxCatchup
                  THEN [id |-> look.id, offset |-> 0, gen |-> GenNow, from |-> 1, data |-> EmptyTail]
                  ELSE cache
  BY DEF TailFails
<1>1. CASE Rebuilds \/ look.size - cache.offset > MaxCatchup
  <2>1. cache' = [id |-> look.id, offset |-> 0, gen |-> GenNow, from |-> 1, data |-> EmptyTail]
    BY <1>0, <1>1
  <2>2. 0 \in 0..Len(path.lines) /\ 2 * 0 = 0
    BY CacheFacts
  <2> QED BY <1>0, <2>1, <2>2, ReadKeepsCache
<1>2. CASE ~(Rebuilds \/ look.size - cache.offset > MaxCatchup)
  BY <1>0, <1>2, FailedReadKeeps
<1> QED BY <1>1, <1>2

-----------------------------------------------------------------------------
(* The two indexes are right.                                              *)
IndexReadersInv == FileInv /\ LookInv /\ CacheInv /\ IndexInv

(* A look of the index leaves a look for its page. *)
LEMMA PagingIsALook ==
    ASSUME LookInv, NEW s, look' = Paging(s, look.quiet)
    PROVE  LookInv'
<1>1. look'.step = "page" /\ look'.quiet = look.quiet /\ {"step", "quiet"} \subseteq DOMAIN look'
  BY DEF Paging
<1> QED BY <1>1 DEF LookInv

(* Nothing has happened yet. *)
LEMMA InitialReaders == RolloutInit => IndexReadersInv
<1> SUFFICES ASSUME RolloutInit PROVE IndexReadersInv
  OBVIOUS
<1>1. /\ reader \in DOMAIN KindsOf /\ written = 0
      /\ path = [id |-> 0, gen |-> 0, lines |-> <<>>, torn |-> FALSE, cut |-> FALSE]
      /\ cache = NoCache /\ look = NoLook /\ still = FALSE
  BY DEF RolloutInit
<1>2. <<>> \in Seq(Record) /\ Len(<<>>) = 0
  OBVIOUS
<1>3. LinesAre(<<>>)
  BY <1>2 DEF LinesAre
<1>4. FileInv
  BY <1>1, <1>2, <1>3 DEF FileInv
<1>5. LookInv
  BY <1>1 DEF LookInv, NoLook
<1>6. /\ DOMAIN NoCache = {"id", "offset", "gen", "from", "data"} /\ NoCache.id = -1 /\ NoCache.gen = -1
      /\ NoCache.offset = 2 * 0
  BY DEF NoCache
<1>7. CacheInv
  BY <1>1, <1>6 DEF CacheInv
<1>8. IndexInv
  BY <1>1, <1>6 DEF IndexInv, Current
<1> QED BY <1>4, <1>5, <1>7, <1>8 DEF IndexReadersInv

(* A step that only looks or answers. *)
LEMMA CacheStays ==
    ASSUME CacheInv, IndexInv, cache' = cache, path' = path, blurred' = blurred, still' = still,
           reader' = reader, spoiled' = spoiled
    PROVE  CacheInv' /\ IndexInv'
<1>1. CacheInv'
  BY DEF CacheInv, Size, Whole
<1>2. IndexInv'
  BY DEF IndexInv, Current
<1> QED BY <1>1, <1>2

(* Every step keeps it. *)
LEMMA ReadersStep == IndexReadersInv /\ [RolloutNext]_rolloutVars => IndexReadersInv'
<1> SUFFICES ASSUME IndexReadersInv, [RolloutNext]_rolloutVars PROVE IndexReadersInv'
  OBVIOUS
<1> USE DEF IndexReadersInv
<1>1. CASE WritesPart
  <2>1. cache' = cache /\ spoiled' = spoiled /\ reader' = reader
    BY <1>1 DEF WritesPart
  <2> QED BY <1>1, <2>1, WritesPartKeeps, IndexesStay
<1>2. ASSUME NEW kind \in KindsOf[reader], WritesRecord(kind) PROVE IndexReadersInv'
  <2>1. cache' = cache /\ spoiled' = spoiled /\ reader' = reader
    BY <1>2 DEF WritesRecord
  <2> QED BY <1>2, <2>1, WritesRecordKeeps, IndexesStay
<1>3. CASE Replaces
  <2>1. cache' = cache /\ spoiled' = spoiled /\ reader' = reader
    BY <1>3 DEF Replaces
  <2> QED BY <1>3, <2>1, ReplacesKeeps, IndexesStay
<1>4. ASSUME NEW k \in 0..(MaxWritten - 1), Cuts(k) PROVE IndexReadersInv'
  <2>1. cache' = cache /\ spoiled' = spoiled /\ reader' = reader
    BY <1>4 DEF Cuts
  <2>2. k \in Nat
    BY LimitsArePositive
  <2> QED BY <1>4, <2>1, <2>2, CutsKeeps, IndexesStay
<1>5. CASE Evicts
  BY <1>5, EvictsKeeps
<1>6. ASSUME NEW ask, Looks(ask) PROVE IndexReadersInv'
  <2>1. /\ cache' = cache /\ path' = path /\ blurred' = blurred /\ still' = still /\ reader' = reader
        /\ spoiled' = spoiled /\ written' = written
    BY <1>6 DEF Looks
  <2> QED BY <1>6, <2>1, LookBegins, CacheStays, FileStays
<1>7. CASE TailReads
  <2>1. look' = NoLook /\ path' = path /\ reader' = reader /\ written' = written /\ reader = "tail"
    BY <1>7 DEF TailReads, Done
  <2>2. CacheInv'
    BY <1>7, TailReadKeeps
  <2>3. IndexInv'
    BY <2>1 DEF IndexInv
  <2> QED BY <2>1, <2>2, <2>3, FileStays, LookEnds
<1>8. CASE TailFails
  <2>1. look' = NoLook /\ path' = path /\ reader' = reader /\ written' = written /\ reader = "tail"
    BY <1>8 DEF TailFails
  <2>2. CacheInv'
    BY <1>8, TailFailKeeps
  <2>3. IndexInv'
    BY <2>1 DEF IndexInv
  <2> QED BY <2>1, <2>2, <2>3, FileStays, LookEnds
<1>9. CASE ActivityReads
  <2>1. look' = NoLook /\ path' = path /\ reader' = reader /\ written' = written
    BY <1>9 DEF ActivityReads, Done
  <2> QED BY <1>9, <2>1, ActivityReadKeeps, FileStays, LookEnds
<1>10. ASSUME NEW last \in Nat, ActivityFails(last) PROVE IndexReadersInv'
  <2>1. look' = NoLook /\ path' = path /\ reader' = reader /\ written' = written
    BY <1>10 DEF ActivityFails
  <2> QED BY <1>10, <2>1, ActivityFailKeeps, FileStays, LookEnds
<1>11. CASE IndexReads
  <2>1. look' = Paging(cache', look.quiet) /\ path' = path /\ reader' = reader /\ written' = written
    BY <1>11 DEF IndexReads
  <2> QED BY <1>11, <2>1, IndexReadKeeps, FileStays, PagingIsALook
<1>12. ASSUME NEW last \in Nat, IndexFails(last) PROVE IndexReadersInv'
  <2>1. look' = Paging(cache', look.quiet) /\ path' = path /\ reader' = reader /\ written' = written
    BY <1>12 DEF IndexFails
  <2> QED BY <1>12, <2>1, IndexFailKeeps, FileStays, PagingIsALook
<1>13. CASE Serves
  <2>1. /\ cache' = cache /\ path' = path /\ blurred' = blurred /\ still' = still /\ reader' = reader
        /\ spoiled' = spoiled /\ written' = written /\ look' = NoLook
    BY <1>13 DEF Serves
  <2> QED BY <2>1, LookEnds, CacheStays, FileStays
<1>14. ASSUME look' = look, cache' = cache, path' = path, blurred' = blurred, still' = still, reader' = reader,
              spoiled' = spoiled, written' = written
       PROVE  IndexReadersInv'
  <2>1. LookInv'
    BY <1>14 DEF LookInv, Size
  <2> QED BY <1>14, <2>1, CacheStays, FileStays
<1>15. ASSUME NEW ask, WebServes(ask) PROVE IndexReadersInv'
  <2>1. UNCHANGED <<reader, path, written, cache, look, faults, still, blurred, spoiled>>
    BY <1>15 DEF WebServes
  <2> QED BY <1>14, <2>1
<1>16. CASE UNCHANGED rolloutVars
  BY <1>14, <1>16 DEF rolloutVars
<1>17. \A last \in 1..MaxWritten : last \in Nat
  BY LimitsArePositive
<1> QED BY <1>1, <1>2, <1>3, <1>4, <1>5, <1>6, <1>7, <1>8, <1>9, <1>10, <1>11, <1>12, <1>13, <1>15, <1>16, <1>17
        DEF RolloutNext, AsksPage

(* The incremental state of a reader always fits its file. *)
THEOREM ReadersFitTheirFile == RolloutSpec => []IndexReadersInv
<1>1. RolloutInit => IndexReadersInv
  BY InitialReaders
<1>2. IndexReadersInv /\ [RolloutNext]_rolloutVars => IndexReadersInv'
  BY ReadersStep
<1> QED BY <1>1, <1>2, PTL DEF RolloutSpec

(* After a look during which the file was still, the index of a            *)
(* conversation and the activity index hold what a reading of the whole    *)
(* file gives: codex_history_state's and _update_index's catch-ups lose    *)
(* and repeat nothing.                                                     *)
THEOREM IndexesAreTrue == RolloutSpec => []IndexesAreRight
<1>1. IndexReadersInv => IndexesAreRight
  <2> SUFFICES ASSUME IndexReadersInv, still, "content" \notin blurred, ~spoiled
               PROVE  /\ reader = "index" => Whole /\ cache.data.turns = TrueTurns
                      /\ reader = "activity" => Whole /\ cache.data.records = ActivityOf(path.lines, Len(path.lines))
    BY DEF IndexesAreRight
  <2>1. Whole
    BY DEF IndexReadersInv, CacheInv
  <2>2. cache.gen = path.gen /\ cache.offset = 2 * Len(path.lines)
    BY <2>1 DEF Whole
  <2>3. cache.gen # -1
    BY <2>2, CacheFacts DEF IndexReadersInv
  <2>4. cache.id # -1
    BY <2>3 DEF IndexReadersInv, CacheInv, NoCache
  <2>5. Current
    BY <2>2, <2>4 DEF Current
  <2>6. Len(path.lines) \in Nat
    BY CacheFacts DEF IndexReadersInv
  <2>7. cache.offset \div 2 = Len(path.lines)
    <3>1. cache.offset \div 2 \in Nat /\ cache.offset = 2 * (cache.offset \div 2)
      BY CacheFacts DEF IndexReadersInv
    <3> DEFINE k == cache.offset \div 2
    <3>2. k \in Nat /\ 2 * k = 2 * Len(path.lines)
      BY <2>2, <3>1
    <3> HIDE DEF k
    <3>3. k = Len(path.lines)
      BY <2>6, <3>2
    <3> QED BY <3>3 DEF k
  <2> QED BY <2>1, <2>5, <2>7 DEF IndexReadersInv, IndexInv, TrueTurns, ActivityData
<1> QED BY <1>1, ReadersFitTheirFile, PTL

-----------------------------------------------------------------------------
(* The messages of the tail.                                               *)

(* A set of positions that is not empty has a first. *)
LEMMA FirstOf ==
    ASSUME NEW n \in Nat, NEW S \in SUBSET (1..n), S # {}
    PROVE  \E i \in S : \A j \in S : i <= j
<1> DEFINE R == OpToRel(<, Nat)
<1>1. IsWellFoundedOn(R, Nat)
  BY NatLessThanWellFounded
<1>2. \A i, j \in Nat : i < j => <<i, j>> \in R
  BY DEF OpToRel
<1>3. \A i \in S : i \in Nat
  OBVIOUS
<1>4. PICK k \in S : TRUE
  OBVIOUS
<1> HIDE DEF R
<1>5. PICK i \in S : \A j \in S : ~(<<j, i>> \in R)
  <2>1. S \subseteq Nat
    BY <1>3
  <2> QED BY <1>1, <1>4, <2>1, WFMin
<1>6. \A j \in S : i <= j
  <2> TAKE j \in S
  <2>1. i \in Nat /\ j \in Nat /\ ~(j < i)
    BY <1>2, <1>3, <1>5
  <2> QED BY <2>1
<1> QED BY <1>6

(* Positions that are shifted are as many. *)
LEMMA ShiftedAreAsMany ==
    ASSUME NEW n \in Nat, NEW S \in SUBSET (1..n), NEW d \in Nat
    PROVE  Cardinality({i + d : i \in S}) = Cardinality(S)
<1> DEFINE T == {i + d : i \in S}
           f == [i \in S |-> i + d]
<1>1. \A i \in S : i \in Int
  OBVIOUS
<1>2. \A i, j \in S : i + d = j + d => i = j
  BY <1>1
<1>3. f \in Bijection(S, T)
  BY <1>2 DEF Bijection, Injection, Surjection, IsInjective
<1>4. ExistsBijection(S, T)
  BY <1>3 DEF ExistsBijection
<1>5. IsFiniteSet(S)
  <2>1. 1 \in Int /\ n \in Int
    OBVIOUS
  <2> QED BY <2>1, PartsAreFinite
<1> HIDE DEF T
<1>6. Cardinality(T) = Cardinality(S)
  BY <1>4, <1>5, FS_Bijection
<1> QED BY <1>6 DEF T

(* The turns of a list of messages from a position on, and where the       *)
(* transcript may start: Bounded takes the first such position.            *)
StartsFrom(m, i) == {j \in TurnStarts(m) : j >= i}
FitsFrom(m, i) ==
    /\ i \in TurnStarts(m)
    /\ Cardinality(StartsFrom(m, i)) <= PageTurns
    /\ Cardinality(StartsFrom(m, i)) = 1 \/ Len(m) - i + 1 <= CharBudget

(* The end of a list that starts with a turn and reaches back as far as    *)
(* the transcript goes.                                                    *)
Covers(s, m) ==
    \E p \in 1..(Len(m) + 1) :
        /\ s = SubSeq(m, p, Len(m))
        /\ \/ p = 1
           \/ p \in 1..Len(m) /\ m[p].kind = "user" /\ \A i \in 1..(p - 1) : ~FitsFrom(m, i)

(* Turns are counted. *)
LEMMA StartsAreCounted ==
    ASSUME NEW m \in Seq(Record), NEW i
    PROVE  /\ Len(m) \in Nat /\ DOMAIN m = 1..Len(m)
           /\ TurnStarts(m) \in SUBSET (1..Len(m)) /\ StartsFrom(m, i) \in SUBSET (1..Len(m))
           /\ IsFiniteSet(StartsFrom(m, i)) /\ Cardinality(StartsFrom(m, i)) \in Nat
<1>1. Len(m) \in Nat /\ DOMAIN m = 1..Len(m)
  OBVIOUS
<1>2. TurnStarts(m) \in SUBSET (1..Len(m)) /\ StartsFrom(m, i) \in SUBSET (1..Len(m))
  BY <1>1 DEF TurnStarts, StartsFrom
<1>3. 1 \in Int /\ Len(m) \in Int
  BY <1>1
<1> QED BY <1>1, <1>2, <1>3, PartsAreFinite

(* Where the transcript of a list of messages starts. *)
LEMMA BoundedIs ==
    ASSUME NEW m \in Seq(Record), m # <<>>
    PROVE  \E b \in 1..Len(m) :
               /\ FitsFrom(m, b) /\ \A i \in 1..Len(m) : FitsFrom(m, i) => b <= i
               /\ Bounded(m) = SubSeq(m, b, Len(m))
<1> DEFINE n == Len(m)
           fits == {i \in TurnStarts(m) : FitsFrom(m, i)}
           last == Newest(TurnStarts(m))
<1>1. n \in Nat /\ n # 0 /\ TurnStarts(m) \in SUBSET (1..n) /\ DOMAIN m = 1..n
  BY StartsAreCounted, EmptySeq
<1>2. 1 \in TurnStarts(m)
  BY <1>1 DEF TurnStarts
<1>3. last \in TurnStarts(m) /\ \A i \in TurnStarts(m) : i <= last
  <2>1. last \in TurnStarts(m) \cup {0} /\ \A i \in TurnStarts(m) : i <= last
    BY <1>1, NewestIs
  <2> HIDE DEF last
  <2>2. last # 0
    BY <1>2, <2>1
  <2> QED BY <2>1, <2>2
<1> HIDE DEF last
<1>4. StartsFrom(m, last) = {last}
  <2>1. last \in Nat /\ \A i \in TurnStarts(m) : i \in Nat
    BY <1>1, <1>3
  <2>2. \A i \in TurnStarts(m) : i >= last <=> i = last
    BY <1>3, <2>1
  <2> QED BY <1>3, <2>2 DEF StartsFrom
<1>5. Cardinality(StartsFrom(m, last)) = 1 /\ 1 <= PageTurns
  <2>1. PageTurns \in Nat \ {0}
    BY LimitsArePositive
  <2>2. 1 <= PageTurns
    BY <2>1
  <2> QED BY <1>4, <2>2, FS_Singleton
<1>6. last \in fits
  BY <1>3, <1>5 DEF FitsFrom
<1>7. fits \in SUBSET (1..n) /\ fits # {}
  BY <1>1, <1>6
<1> HIDE DEF fits
<1>8. \E b \in fits : \A j \in fits : b <= j
  BY <1>1, <1>7, FirstOf
<1> DEFINE b == CHOOSE i \in fits : \A j \in fits : i <= j
<1>9. b \in fits /\ \A j \in fits : b <= j
  BY <1>8
<1>10. Bounded(m) = SubSeq(m, b, n)
  <2>1. fits = {i \in TurnStarts(m) :
                   /\ Cardinality({j \in TurnStarts(m) : j >= i}) <= PageTurns
                   /\ Cardinality({j \in TurnStarts(m) : j >= i}) = 1 \/ n - i + 1 <= CharBudget}
    BY DEF fits, FitsFrom, StartsFrom
  <2> QED BY <1>1, <2>1 DEF Bounded
<1> HIDE DEF b
<1>11. b \in 1..n /\ FitsFrom(m, b) /\ \A i \in 1..n : FitsFrom(m, i) => b <= i
  BY <1>1, <1>7, <1>9 DEF fits, FitsFrom
<1> QED BY <1>10, <1>11

(* The transcript of nothing. *)
LEMMA BoundedOfNothing == Bounded(<<>>) = <<>>
BY DEF Bounded

(* The transcript reaches back as far as it goes. *)
LEMMA BoundedCovers ==
    ASSUME NEW m \in Seq(Record)
    PROVE  Covers(Bounded(m), m)
<1>1. CASE m = <<>>
  <2>1. SubSeq(<<>>, 1, 0) = <<>> /\ Len(<<>>) = 0 /\ 1 \in 1..(0 + 1)
    OBVIOUS
  <2> QED BY <1>1, <2>1, BoundedOfNothing DEF Covers
<1>2. CASE m # <<>>
  <2>1. PICK b \in 1..Len(m) :
               /\ FitsFrom(m, b) /\ \A i \in 1..Len(m) : FitsFrom(m, i) => b <= i
               /\ Bounded(m) = SubSeq(m, b, Len(m))
    BY <1>2, BoundedIs
  <2>2. Len(m) \in Nat /\ b \in 1..(Len(m) + 1)
    OBVIOUS
  <2>3. \A i \in 1..(b - 1) : ~FitsFrom(m, i)
    <3>1. \A i \in 1..(b - 1) : i \in 1..Len(m) /\ ~(b <= i)
      BY <2>2
    <3> QED BY <2>1, <3>1
  <2>4. b = 1 \/ m[b].kind = "user"
    BY <2>1 DEF FitsFrom, TurnStarts
  <2> QED BY <2>1, <2>2, <2>3, <2>4 DEF Covers
<1> QED BY <1>1, <1>2

(* One message more lets the transcript start later, never earlier. *)
LEMMA CoversAppend ==
    ASSUME NEW m \in Seq(Record), NEW s, Covers(s, m), NEW r \in Record
    PROVE  Covers(Append(s, r), Append(m, r))
<1> DEFINE n == Len(m)
           more == Append(m, r)
<1>1. PICK p \in 1..(n + 1) :
        /\ s = SubSeq(m, p, n)
        /\ \/ p = 1
           \/ p \in 1..n /\ m[p].kind = "user" /\ \A i \in 1..(p - 1) : ~FitsFrom(m, i)
  BY DEF Covers
<1>2. n \in Nat /\ DOMAIN m = 1..n /\ \A i \in 1..n : m[i] \in Record
  OBVIOUS
<1>3. more \in Seq(Record) /\ Len(more) = n + 1 /\ more[n + 1] = r /\ \A i \in 1..n : more[i] = m[i]
  BY <1>2
<1>4. DOMAIN more = 1..(n + 1)
  BY <1>3
<1> HIDE DEF n, more
<1>5. Append(s, r) = SubSeq(more, p, n + 1)
  <2>1. p \in Int /\ n \in Int /\ n + 1 \in Int /\ p >= 1 /\ p <= n + 1
    BY <1>2
  <2>2. s \in Seq(Record) /\ Len(s) = n - p + 1 /\ \A i \in 1..(n - p + 1) : s[i] = m[p + i - 1]
    <3>1. \A i \in p..n : m[i] \in Record
      BY <1>2, <2>1
    <3>2. /\ SubSeq(m, p, n) \in Seq(Record) /\ Len(SubSeq(m, p, n)) = IF p <= n THEN n - p + 1 ELSE 0
          /\ \A i \in 1..(n - p + 1) : SubSeq(m, p, n)[i] = m[p + i - 1]
      BY <2>1, <3>1, SubSeqProperties
    <3> QED BY <1>1, <2>1, <3>2
  <2> DEFINE t == SubSeq(more, p, n + 1)
             u == Append(s, r)
  <2>3. t \in Seq(Record) /\ Len(t) = n + 1 - p + 1 /\ \A i \in 1..(n + 1 - p + 1) : t[i] = more[p + i - 1]
    <3>1. \A i \in p..(n + 1) : more[i] \in Record
      BY <1>3, <2>1
    <3>2. /\ SubSeq(more, p, n + 1) \in Seq(Record)
          /\ Len(SubSeq(more, p, n + 1)) = IF p <= n + 1 THEN n + 1 - p + 1 ELSE 0
          /\ \A i \in 1..(n + 1 - p + 1) : SubSeq(more, p, n + 1)[i] = more[p + i - 1]
      BY <2>1, <3>1, SubSeqProperties
    <3> QED BY <2>1, <3>2
  <2>4. u \in Seq(Record) /\ Len(u) = Len(s) + 1 /\ u[Len(s) + 1] = r /\ \A i \in 1..Len(s) : u[i] = s[i]
    <3>1. s \in Seq(Record) /\ r \in Record
      BY <2>2
    <3> QED BY <3>1, AppendProperties
  <2> HIDE DEF t, u
  <2>5. Len(u) = Len(t)
    BY <2>1, <2>2, <2>3, <2>4
  <2>6. \A i \in 1..Len(u) : u[i] = t[i]
    <3> TAKE i \in 1..Len(u)
    <3>1. CASE i = Len(s) + 1
      <4>1. p + i - 1 = n + 1 /\ i \in 1..(n + 1 - p + 1)
        BY <2>1, <2>2, <3>1
      <4> QED BY <1>3, <2>3, <2>4, <3>1, <4>1
    <3>2. CASE i # Len(s) + 1
      <4>1. i \in 1..Len(s) /\ i \in 1..(n - p + 1) /\ i \in 1..(n + 1 - p + 1) /\ p + i - 1 \in 1..n
        BY <2>1, <2>2, <2>4, <3>2
      <4> QED BY <1>3, <2>2, <2>3, <2>4, <4>1
    <3> QED BY <3>1, <3>2
  <2>7. u = t
    BY <2>3, <2>4, <2>5, <2>6, SeqEqual
  <2> QED BY <2>7 DEF t, u
<1>6. ASSUME NEW i \in 1..n, FitsFrom(more, i) PROVE FitsFrom(m, i)
  <2>1. \A j \in 1..n : j \in TurnStarts(m) <=> j \in TurnStarts(more)
    BY <1>2, <1>3, <1>4 DEF TurnStarts
  <2>2. i \in StartsFrom(m, i) /\ StartsFrom(m, i) \subseteq StartsFrom(more, i)
    <3>1. i >= i /\ i \in TurnStarts(m)
      BY <1>2, <1>6, <2>1 DEF FitsFrom
    <3>2. TurnStarts(m) \in SUBSET (1..n)
      BY StartsAreCounted DEF n
    <3> QED BY <2>1, <3>1, <3>2 DEF StartsFrom
  <2> DEFINE c == Cardinality(StartsFrom(m, i))
             d == Cardinality(StartsFrom(more, i))
  <2>3. c \in Nat /\ d \in Nat /\ IsFiniteSet(StartsFrom(m, i)) /\ IsFiniteSet(StartsFrom(more, i))
    BY <1>3, StartsAreCounted
  <2>4. c <= d /\ c # 0
    BY <2>2, <2>3, FS_Subset, FS_EmptySet
  <2>5. d <= PageTurns /\ (d = 1 \/ Len(more) - i + 1 <= CharBudget)
    BY <1>6 DEF FitsFrom
  <2>6. PageTurns \in Nat /\ CharBudget \in Nat
    BY LimitsArePositive
  <2>7. i \in TurnStarts(m)
    BY <1>6, <2>1 DEF FitsFrom
  <2> HIDE DEF c, d
  <2>8. c <= PageTurns /\ (c = 1 \/ n - i + 1 <= CharBudget)
    BY <1>2, <1>3, <2>3, <2>4, <2>5, <2>6
  <2> QED BY <2>7, <2>8 DEF FitsFrom, c, n
<1>7. p = 1 \/ (p \in 1..(n + 1) /\ more[p].kind = "user" /\ \A i \in 1..(p - 1) : ~FitsFrom(more, i))
  <2>1. CASE p = 1
    BY <2>1
  <2>2. CASE p # 1
    <3>1. p \in 1..n /\ m[p].kind = "user" /\ \A i \in 1..(p - 1) : ~FitsFrom(m, i)
      BY <1>1, <2>2
    <3>2. \A i \in 1..(p - 1) : i \in 1..n
      BY <1>2, <3>1
    <3> QED BY <1>3, <1>6, <3>1, <3>2
  <2> QED BY <2>1, <2>2
<1>8. p \in 1..((n + 1) + 1)
  BY <1>2
<1> QED BY <1>3, <1>5, <1>7, <1>8 DEF Covers, more

(* The transcript of an end that reaches back as far is that of the whole. *)
LEMMA BoundedOfCovered ==
    ASSUME NEW m \in Seq(Record), NEW s, Covers(s, m)
    PROVE  Bounded(s) = Bounded(m)
<1> DEFINE n == Len(m)
<1>1. PICK p \in 1..(n + 1) :
        /\ s = SubSeq(m, p, n)
        /\ \/ p = 1
           \/ p \in 1..n /\ m[p].kind = "user" /\ \A i \in 1..(p - 1) : ~FitsFrom(m, i)
  BY DEF Covers
<1>2. n \in Nat /\ DOMAIN m = 1..n /\ \A i \in 1..n : m[i] \in Record
  OBVIOUS
<1>3. CASE p = 1
  BY <1>1, <1>3, SubSeqFull
<1>4. CASE p # 1
  <2> DEFINE d == p - 1
             k == Len(s)
  <2> HIDE DEF n
  <2>1. p \in 1..n /\ m[p].kind = "user" /\ (\A i \in 1..(p - 1) : ~FitsFrom(m, i)) /\ d \in Nat /\ d < n
    BY <1>1, <1>2, <1>4
  <2>2. s \in Seq(Record) /\ k = n - d /\ \A i \in 1..k : s[i] = m[i + d]
    <3>1. \A i \in p..n : m[i] \in Record
      BY <1>2, <2>1
    <3>2. /\ SubSeq(m, p, n) \in Seq(Record) /\ Len(SubSeq(m, p, n)) = IF p <= n THEN n - p + 1 ELSE 0
          /\ \A i \in 1..(n - p + 1) : SubSeq(m, p, n)[i] = m[p + i - 1]
      <4>1. p \in Int /\ n \in Int
        BY <1>2
      <4> QED BY <3>1, <4>1, SubSeqProperties
    <3>3. n - p + 1 = n - d /\ p <= n /\ \A i \in 1..(n - d) : p + i - 1 = i + d
      BY <1>2, <2>1
    <3> QED BY <1>1, <3>2, <3>3
  <2>3. k \in Nat /\ k # 0 /\ DOMAIN s = 1..k /\ s # <<>> /\ m # <<>>
    <3>1. k \in Nat /\ DOMAIN s = 1..k
      BY <2>2
    <3>2. k # 0 /\ n # 0
      BY <1>2, <2>1, <2>2
    <3>3. s # <<>>
      BY <3>2, EmptySeq
    <3>4. m # <<>>
      BY <3>2, EmptySeq DEF n
    <3> QED BY <3>1, <3>2, <3>3, <3>4
  <2> HIDE DEF d, k
  <2>4. \A j \in 1..k : j + d \in 1..n /\ (j \in TurnStarts(s) <=> j + d \in TurnStarts(m))
    <3> TAKE j \in 1..k
    <3>1. j + d \in 1..n /\ (j + d = 1 <=> FALSE) /\ (j = 1 => j + d = p)
      BY <1>2, <1>4, <2>1, <2>2 DEF d
    <3>2. j + d \in TurnStarts(m) <=> m[j + d].kind = "user"
      BY <1>2, <3>1 DEF TurnStarts
    <3>3. CASE j = 1
      BY <2>1, <2>3, <3>1, <3>2, <3>3 DEF TurnStarts
    <3>4. CASE j # 1
      BY <2>2, <2>3, <3>1, <3>2, <3>4 DEF TurnStarts
    <3> QED BY <3>3, <3>4
  <2>5. \A j \in 1..k : Cardinality(StartsFrom(s, j)) = Cardinality(StartsFrom(m, j + d))
    <3> TAKE j \in 1..k
    <3> DEFINE S == StartsFrom(s, j)
               T == StartsFrom(m, j + d)
    <3>1. S \in SUBSET (1..k) /\ T \in SUBSET (1..n)
      BY <2>2, StartsAreCounted DEF k, n
    <3>2. \A i \in S : i + d \in T
      <4> TAKE i \in S
      <4>1. i \in 1..k /\ i >= j /\ i \in TurnStarts(s)
        BY <3>1 DEF StartsFrom
      <4>2. i + d >= j + d
        BY <2>1, <4>1
      <4> QED BY <2>4, <4>1, <4>2 DEF StartsFrom
    <3>3. \A x \in T : \E i \in S : x = i + d
      <4> TAKE x \in T
      <4>1. x \in 1..n /\ x >= j + d /\ x \in TurnStarts(m)
        BY <3>1 DEF StartsFrom
      <4>2. x - d \in 1..k /\ x - d >= j /\ (x - d) + d = x
        BY <1>2, <2>1, <2>2, <4>1
      <4>3. x - d \in S
        BY <2>4, <4>1, <4>2 DEF StartsFrom
      <4> QED BY <4>2, <4>3
    <3> HIDE DEF S, T
    <3>4. T = {i + d : i \in S}
      BY <3>2, <3>3
    <3>5. Cardinality({i + d : i \in S}) = Cardinality(S)
      BY <2>1, <2>3, <3>1, ShiftedAreAsMany
    <3> QED BY <3>4, <3>5 DEF S, T
  <2>6. \A j \in 1..k : FitsFrom(s, j) <=> FitsFrom(m, j + d)
    <3> TAKE j \in 1..k
    <3>1. d \in Int /\ n \in Int /\ k = n - d /\ j \in Int
      BY <1>2, <2>1, <2>2
    <3>2. k - j + 1 = n - (j + d) + 1
      BY <3>1
    <3> QED BY <2>4, <2>5, <3>2 DEF FitsFrom, k, n
  <2>7. PICK b \in 1..n : /\ FitsFrom(m, b) /\ \A i \in 1..n : FitsFrom(m, i) => b <= i
                          /\ Bounded(m) = SubSeq(m, b, n)
    BY <2>3, BoundedIs DEF n
  <2>8. PICK c \in 1..k : /\ FitsFrom(s, c) /\ \A i \in 1..k : FitsFrom(s, i) => c <= i
                          /\ Bounded(s) = SubSeq(s, c, k)
    BY <2>2, <2>3, BoundedIs DEF k
  <2>9. ~(b \in 1..(p - 1))
    BY <2>1, <2>7
  <2>10. b - d \in 1..k /\ (b - d) + d = b
    BY <1>2, <2>1, <2>2, <2>7, <2>9 DEF d
  <2>11. c <= b - d
    <3>1. FitsFrom(s, b - d)
      BY <2>6, <2>7, <2>10
    <3> QED BY <2>8, <2>10, <3>1
  <2>12. b <= c + d
    BY <2>4, <2>6, <2>7, <2>8
  <2>13. b = c + d
    <3>1. b \in Int /\ c \in Int /\ d \in Int
      BY <2>1, <2>7, <2>8
    <3> QED BY <2>11, <2>12, <3>1
  <2>14. SubSeq(SubSeq(m, p, n), c, k) = SubSeq(m, p + c - 1, p + k - 1)
    <3>1. p \in 1..Len(m) /\ n \in 1..Len(m) /\ c \in 1..(n - p + 1) /\ k \in 1..(n - p + 1)
      BY <1>2, <2>1, <2>2, <2>3 DEF d, n
    <3> QED BY <3>1, SubSeqOfSubSeq
  <2>15. p + c - 1 = b /\ p + k - 1 = n
    BY <1>2, <2>1, <2>2, <2>8, <2>13 DEF d
  <2> QED BY <1>1, <2>7, <2>8, <2>14, <2>15
<1> QED BY <1>3, <1>4

(* The questions of a list of messages. *)
Users(m) == {j \in 1..Len(m) : m[j].kind = "user"}

(* An end of a list that starts with a question and fills the transcript:  *)
(* where the rebuild stops.                                                *)
Fills(s, m) ==
    \E p \in 1..Len(m) :
        /\ s = SubSeq(m, p, Len(m))
        /\ m[p].kind = "user"
        /\ \/ Cardinality(Users(s)) >= PageTurns
           \/ Len(s) >= CharBudget

(* What fills the transcript is all it needs. *)
LEMMA FillsCovers ==
    ASSUME NEW m \in Seq(Record), NEW s, Fills(s, m)
    PROVE  Covers(s, m)
<1> DEFINE n == Len(m)
<1>1. PICK p \in 1..n :
        /\ s = SubSeq(m, p, n) /\ m[p].kind = "user"
        /\ \/ Cardinality(Users(s)) >= PageTurns
           \/ Len(s) >= CharBudget
  BY DEF Fills
<1>2. n \in Nat /\ DOMAIN m = 1..n /\ \A i \in 1..n : m[i] \in Record
  OBVIOUS
<1> HIDE DEF n
<1> DEFINE d == p - 1
           k == Len(s)
<1>3. d \in Nat /\ d < n /\ p \in Int /\ n \in Int
  BY <1>2
<1>4. s \in Seq(Record) /\ k = n - d /\ \A i \in 1..k : s[i] = m[i + d]
  <2>1. \A i \in p..n : m[i] \in Record
    BY <1>2, <1>3
  <2>2. /\ SubSeq(m, p, n) \in Seq(Record) /\ Len(SubSeq(m, p, n)) = IF p <= n THEN n - p + 1 ELSE 0
        /\ \A i \in 1..(n - p + 1) : SubSeq(m, p, n)[i] = m[p + i - 1]
    BY <1>3, <2>1, SubSeqProperties
  <2>3. n - p + 1 = n - d /\ p <= n /\ \A i \in 1..(n - d) : p + i - 1 = i + d
    BY <1>2, <1>3
  <2> QED BY <1>1, <2>2, <2>3
<1> HIDE DEF d, k
<1>5. ASSUME NEW i \in 1..(p - 1) PROVE ~FitsFrom(m, i)
  <2> SUFFICES ASSUME FitsFrom(m, i) PROVE FALSE
    OBVIOUS
  <2> DEFINE T == StartsFrom(m, i)
             U == {j + d : j \in Users(s)}
  <2>1. i \in TurnStarts(m) /\ Cardinality(T) <= PageTurns /\ (Cardinality(T) = 1 \/ n - i + 1 <= CharBudget)
    BY DEF FitsFrom, n
  <2>2. i \in T /\ i \in 1..n /\ i < p
    <3>1. i \in 1..n /\ i < p /\ i >= i
      BY <1>2
    <3> QED BY <2>1, <3>1 DEF StartsFrom
  <2>3. Users(s) \in SUBSET (1..k) /\ k \in Nat
    BY <1>4 DEF Users, k
  <2>4. \A j \in 1..k : j \in Int /\ j + d \in 1..n /\ j + d > i
    BY <1>2, <1>3, <1>4, <2>2 DEF d
  <2>5. \A j \in Users(s) : j + d \in T
    <3> TAKE j \in Users(s)
    <3>1. j \in 1..k /\ s[j].kind = "user"
      BY <2>3 DEF Users
    <3>2. j + d \in 1..n /\ j + d >= i /\ m[j + d].kind = "user"
      BY <1>4, <2>2, <2>4, <3>1
    <3> QED BY <1>2, <3>2 DEF StartsFrom, TurnStarts
  <2>6. U \subseteq T /\ i \notin U
    <3>1. \A j \in Users(s) : j + d # i
      BY <2>2, <2>3, <2>4
    <3> QED BY <2>5, <3>1
  <2>7. Cardinality(U) = Cardinality(Users(s)) /\ Cardinality(Users(s)) \in Nat
    <3>1. Cardinality({j + d : j \in Users(s)}) = Cardinality(Users(s))
      BY <1>3, <2>3, ShiftedAreAsMany
    <3>2. 1 \in Int /\ k \in Int
      BY <2>3
    <3> QED BY <2>3, <3>1, <3>2, PartsAreFinite
  <2>8. IsFiniteSet(T) /\ Cardinality(T) \in Nat
    BY StartsAreCounted
  <2> HIDE DEF T, U
  <2>9. Cardinality(U) < Cardinality(T)
    <3>1. U \in SUBSET T /\ U # T
      BY <2>2, <2>6
    <3>2. Cardinality(U) <= Cardinality(T) /\ Cardinality(U) # Cardinality(T)
      BY <2>8, <3>1, FS_Subset
    <3> QED BY <2>7, <2>8, <3>2
  <2>10. Cardinality(Users(s)) # 0
    <3>1. 1 \in 1..k /\ s[1] = m[1 + d] /\ 1 + d = p
      BY <1>2, <1>3, <1>4, <2>3 DEF d
    <3>2. 1 \in Users(s)
      BY <1>1, <3>1 DEF Users, k
    <3>3. IsFiniteSet(Users(s))
      <4>1. 1 \in Int /\ k \in Int
        BY <2>3
      <4> QED BY <2>3, <4>1, PartsAreFinite
    <3> QED BY <3>2, <3>3, FS_EmptySet
  <2>11. PageTurns \in Nat /\ CharBudget \in Nat
    BY LimitsArePositive
  <2>12. ~(Cardinality(Users(s)) >= PageTurns)
    BY <2>1, <2>7, <2>8, <2>9, <2>11
  <2>13. k >= CharBudget
    BY <1>1, <2>12 DEF k
  <2>14. n - i + 1 > k
    BY <1>2, <1>3, <1>4, <2>2, <2>3 DEF d
  <2>15. Cardinality(T) # 1
    BY <2>7, <2>8, <2>9, <2>10
  <2> QED BY <1>2, <2>1, <2>2, <2>3, <2>11, <2>13, <2>14, <2>15
<1>6. p \in 1..(n + 1)
  BY <1>2
<1> QED BY <1>1, <1>5, <1>6 DEF Covers, n

(* An older message before it changes nothing. *)
LEMMA FillsPrepend ==
    ASSUME NEW m \in Seq(Record), NEW s, Fills(s, m), NEW r \in Record
    PROVE  Fills(s, <<r>> \o m)
<1> DEFINE n == Len(m)
           more == <<r>> \o m
<1>1. PICK p \in 1..n :
        /\ s = SubSeq(m, p, n) /\ m[p].kind = "user"
        /\ \/ Cardinality(Users(s)) >= PageTurns
           \/ Len(s) >= CharBudget
  BY DEF Fills
<1>2. n \in Nat /\ \A i \in 1..n : m[i] \in Record
  OBVIOUS
<1>3. more \in Seq(Record) /\ Len(more) = n + 1 /\ \A i \in 1..(n + 1) : more[i] = IF i <= 1 THEN r ELSE m[i - 1]
  <2>1. <<r>> \in Seq(Record) /\ Len(<<r>>) = 1 /\ <<r>>[1] = r
    OBVIOUS
  <2>2. /\ more \in Seq(Record) /\ Len(more) = 1 + n
        /\ \A i \in 1..(1 + n) : more[i] = IF i <= 1 THEN <<r>>[i] ELSE m[i - 1]
    BY <2>1, ConcatProperties
  <2> HIDE DEF more, n
  <2>3. \A i \in 1..(1 + n) : i <= 1 => i = 1
    BY <1>2
  <2> QED BY <1>2, <2>1, <2>2, <2>3
<1> HIDE DEF n, more
<1> DEFINE t == SubSeq(m, p, n)
           u == SubSeq(more, p + 1, n + 1)
<1>4. p \in Int /\ n \in Int /\ p + 1 \in Int /\ n + 1 \in Int /\ p <= n /\ p + 1 <= n + 1 /\ p >= 1
  BY <1>2
<1>5. t \in Seq(Record) /\ Len(t) = n - p + 1 /\ \A i \in 1..(n - p + 1) : t[i] = m[p + i - 1]
  <2>1. \A i \in p..n : m[i] \in Record
    BY <1>2, <1>4
  <2> QED BY <1>4, <2>1, SubSeqProperties
<1>6. u \in Seq(Record) /\ Len(u) = n - p + 1 /\ \A i \in 1..(n - p + 1) : u[i] = more[(p + 1) + i - 1]
  <2>1. \A i \in (p + 1)..(n + 1) : more[i] \in Record
    <3>1. more \in Seq(Record) /\ \A i \in (p + 1)..(n + 1) : i \in 1..Len(more)
      BY <1>2, <1>3, <1>4
    <3> QED BY <3>1, ElementOfSeq
  <2>2. (n + 1) - (p + 1) + 1 = n - p + 1
    BY <1>4
  <2>3. /\ u \in Seq(Record) /\ Len(u) = IF p + 1 <= n + 1 THEN (n + 1) - (p + 1) + 1 ELSE 0
        /\ \A i \in 1..((n + 1) - (p + 1) + 1) : u[i] = more[(p + 1) + i - 1]
    BY <1>4, <2>1, SubSeqProperties
  <2> HIDE DEF u
  <2> QED BY <1>4, <2>2, <2>3
<1> HIDE DEF t, u
<1>7. \A i \in 1..Len(t) : t[i] = u[i]
  <2> TAKE i \in 1..Len(t)
  <2>1. i \in 1..(n - p + 1) /\ (p + 1) + i - 1 \in 1..(n + 1) /\ ~((p + 1) + i - 1 <= 1) /\ ((p + 1) + i - 1) - 1 = p + i - 1
    BY <1>4, <1>5
  <2> QED BY <1>3, <1>5, <1>6, <2>1
<1>8. t = u
  BY <1>5, <1>6, <1>7, SeqEqual
<1>9. p + 1 \in 1..(n + 1) /\ more[p + 1].kind = "user"
  <2>1. p + 1 \in 1..(n + 1) /\ ~(p + 1 <= 1) /\ (p + 1) - 1 = p
    BY <1>4
  <2> QED BY <1>1, <1>3, <2>1
<1> QED BY <1>1, <1>3, <1>8, <1>9 DEF Fills, t, u, more

(* The positions of the messages of a stretch. *)
MessagesIn(lines, first, last) == {i \in first..last : IsMessage(lines[i])}

(* The messages of a stretch are one record for each of those. *)
LEMMA MessagesAre ==
    ASSUME NEW lines, LinesAre(lines), NEW first \in Nat \ {0}, NEW last \in Nat, last <= Len(lines)
    PROVE  LET at == InOrder(MessagesIn(lines, first, last))
           IN  /\ MessagesIn(lines, first, last) \in SUBSET (first..last)
               /\ at \in Seq(1..Len(lines)) /\ at \in Seq(Int)
               /\ MessagesOf(lines, first, last) \in Seq(Record)
               /\ Len(MessagesOf(lines, first, last)) = Len(at)
               /\ \A j \in 1..Len(at) : MessagesOf(lines, first, last)[j] = lines[at[j]]
<1> DEFINE S == MessagesIn(lines, first, last)
           at == InOrder(S)
           m == MessagesOf(lines, first, last)
<1>1. S \in SUBSET (first..last)
  BY DEF MessagesIn
<1>2. Len(lines) \in Nat /\ \A i \in 1..Len(lines) : lines[i] \in Record
  BY RecordTypes
<1>3. \A i \in first..last : i \in 1..Len(lines)
  BY <1>2
<1>4. at \in Seq(S)
  <2> HIDE DEF S
  <2>1. first \in Int /\ last \in Int
    OBVIOUS
  <2> QED BY <1>1, <2>1, InOrderElements
<1>5. at \in Seq(1..Len(lines)) /\ at \in Seq(Int)
  <2>1. S \subseteq 1..Len(lines) /\ S \subseteq Int
    BY <1>1, <1>3
  <2> HIDE DEF at, S
  <2> QED BY <1>4, <2>1, SeqMonotonic
<1>6. m = [j \in 1..Len(at) |-> lines[at[j]]]
  <2>1. m = [j \in DOMAIN at |-> lines[at[j]]]
    BY DEF MessagesOf, MessagesIn
  <2> HIDE DEF at, m
  <2> QED BY <1>5, <2>1
<1> HIDE DEF at, m, S
<1>7. Len(at) \in Nat /\ \A j \in 1..Len(at) : at[j] \in 1..Len(lines)
  BY <1>5
<1>8. m \in [1..Len(at) -> Record]
  BY <1>2, <1>6, <1>7
<1>9. m \in Seq(Record) /\ Len(m) = Len(at)
  BY <1>7, <1>8, FunctionIsSeq
<1> QED BY <1>1, <1>5, <1>6, <1>9 DEF at, m, S

(* No records have no messages. *)
LEMMA NoMessages ==
    ASSUME NEW lines, NEW last \in Nat
    PROVE  MessagesOf(lines, last + 1, last) = <<>>
<1>1. MessagesIn(lines, last + 1, last) = {}
  BY DEF MessagesIn
<1>2. MessagesOf(lines, last + 1, last) =
          [j \in DOMAIN InOrder(MessagesIn(lines, last + 1, last)) |-> lines[InOrder(MessagesIn(lines, last + 1, last))[j]]]
  BY DEF MessagesOf, MessagesIn
<1>3. InOrder(MessagesIn(lines, last + 1, last)) = <<>>
  BY <1>1, InOrderOfNothing
<1>4. MessagesOf(lines, last + 1, last) = [j \in 1..0 |-> lines[<<>>[j]]]
  BY <1>2, <1>3
<1> QED BY <1>4

(* A further record is one message more at the end, or none. *)
LEMMA MessagesAppend ==
    ASSUME NEW lines, LinesAre(lines), NEW first \in Nat \ {0}, NEW last \in Nat,
           last < Len(lines), first <= last + 1
    PROVE  MessagesOf(lines, first, last + 1) =
               IF IsMessage(lines[last + 1])
               THEN Append(MessagesOf(lines, first, last), lines[last + 1])
               ELSE MessagesOf(lines, first, last)
<1> DEFINE S == MessagesIn(lines, first, last)
           T == MessagesIn(lines, first, last + 1)
           at == InOrder(S)
           to == InOrder(T)
           old == MessagesOf(lines, first, last)
           new == MessagesOf(lines, first, last + 1)
           r == lines[last + 1]
<1>0. Len(lines) \in Nat /\ last <= Len(lines) /\ last + 1 <= Len(lines) /\ last + 1 \in Nat
  BY RecordTypes
<1>1. /\ S \in SUBSET (first..last) /\ at \in Seq(Int) /\ old \in Seq(Record) /\ Len(old) = Len(at)
      /\ \A j \in 1..Len(at) : old[j] = lines[at[j]]
  BY <1>0, MessagesAre
<1>2. /\ to \in Seq(Int) /\ new \in Seq(Record) /\ Len(new) = Len(to)
      /\ \A j \in 1..Len(to) : new[j] = lines[to[j]]
  BY <1>0, MessagesAre
<1>3. first..(last + 1) = (first..last) \cup {last + 1}
  BY <1>0
<1>4. CASE IsMessage(r)
  <2>1. T = S \cup {last + 1}
    BY <1>3, <1>4 DEF MessagesIn
  <2>2. to = Append(at, last + 1)
    <3>1. first \in Nat
      OBVIOUS
    <3> HIDE DEF S, T
    <3> QED BY <1>1, <2>1, <3>1, LastInOrder
  <2> HIDE DEF S, T, at, to, old, new
  <2>3. Len(to) = Len(at) + 1 /\ to[Len(at) + 1] = last + 1 /\ \A j \in 1..Len(at) : to[j] = at[j]
    BY <1>0, <1>1, <2>2
  <2>4. \A j \in 1..Len(old) : new[j] = old[j]
    <3> TAKE j \in 1..Len(old)
    <3>1. Len(at) \in Nat /\ j \in 1..Len(at) /\ j \in 1..Len(to)
      BY <1>1, <2>3
    <3>2. new[j] = lines[to[j]] /\ old[j] = lines[at[j]] /\ to[j] = at[j]
      BY <1>1, <1>2, <2>3, <3>1
    <3> QED BY <3>2
  <2>5. new[Len(old) + 1] = r
    <3>1. Len(at) \in Nat /\ Len(at) + 1 \in 1..Len(to)
      BY <1>1, <2>3
    <3> QED BY <1>1, <1>2, <2>3, <3>1 DEF r
  <2>6. new \in [1..(Len(old) + 1) -> Record]
    BY <1>1, <1>2, <2>3
  <2>7. new = Append(old, new[Len(old) + 1])
    BY <1>1, <2>4, <2>6, GoesOnByOne
  <2> QED BY <1>4, <2>5, <2>7 DEF old, new
<1>5. CASE ~IsMessage(r)
  <2>1. T = S
    BY <1>3, <1>5 DEF MessagesIn
  <2>2. new = old
    <3>1. to = at
      BY <2>1
    <3> HIDE DEF S, T, at, to, old, new
    <3>2. old \in Seq(Record) /\ new \in Seq(Record) /\ Len(new) = Len(at) /\ Len(old) = Len(at)
      BY <1>1, <1>2, <3>1
    <3>3. \A j \in 1..Len(at) : new[j] = lines[at[j]] /\ old[j] = lines[at[j]]
      BY <1>1, <1>2, <3>1
    <3>4. \A j \in 1..Len(new) : new[j] = old[j]
      BY <3>2, <3>3
    <3>5. Len(new) = Len(old)
      BY <3>2
    <3> QED BY <3>2, <3>4, <3>5, SeqEqual
  <2> QED BY <1>5, <2>2
<1> QED BY <1>4, <1>5

(* And an earlier record one at the start. *)
LEMMA MessagesPrepend ==
    ASSUME NEW lines, LinesAre(lines), NEW first \in Nat \ {0}, NEW last \in Nat,
           last <= Len(lines), first <= last
    PROVE  MessagesOf(lines, first, last) =
               IF IsMessage(lines[first])
               THEN <<lines[first]>> \o MessagesOf(lines, first + 1, last)
               ELSE MessagesOf(lines, first + 1, last)
<1> DEFINE S == MessagesIn(lines, first + 1, last)
           T == MessagesIn(lines, first, last)
           at == InOrder(S)
           to == InOrder(T)
           old == MessagesOf(lines, first + 1, last)
           new == MessagesOf(lines, first, last)
           r == lines[first]
<1>0. Len(lines) \in Nat /\ first + 1 \in Nat \ {0} /\ first \in Int /\ first + 1 \in Int /\ last \in Int /\ first < first + 1
  BY RecordTypes
<1>1. /\ S \in SUBSET ((first + 1)..last) /\ at \in Seq(Int) /\ old \in Seq(Record) /\ Len(old) = Len(at)
      /\ \A j \in 1..Len(at) : old[j] = lines[at[j]]
  BY <1>0, MessagesAre
<1>2. /\ to \in Seq(Int) /\ new \in Seq(Record) /\ Len(new) = Len(to)
      /\ \A j \in 1..Len(to) : new[j] = lines[to[j]]
  BY <1>0, MessagesAre
<1>3. first..last = ((first + 1)..last) \cup {first}
  BY <1>0
<1>4. CASE IsMessage(r)
  <2>1. T = S \cup {first}
    BY <1>3, <1>4 DEF MessagesIn
  <2>2. to = <<first>> \o at
    <3> HIDE DEF S, T
    <3> QED BY <1>0, <1>1, <2>1, InOrderPrepend
  <2> DEFINE u == <<r>> \o old
  <2> HIDE DEF S, T, at, to, old, new
  <2>3. Len(to) = Len(at) + 1 /\ \A j \in 1..(Len(at) + 1) : to[j] = IF j = 1 THEN first ELSE at[j - 1]
    BY <1>0, <1>1, <2>2
  <2>4. r \in Record
    <3>1. first \in 1..Len(lines)
      BY <1>0
    <3> QED BY <3>1, RecordTypes
  <2>5. /\ u \in Seq(Record) /\ Len(u) = Len(old) + 1
        /\ \A j \in 1..(Len(old) + 1) : u[j] = IF j = 1 THEN r ELSE old[j - 1]
    BY <1>1, <2>4
  <2> HIDE DEF u
  <2>6. \A j \in 1..Len(new) : new[j] = u[j]
    <3> TAKE j \in 1..Len(new)
    <3>1. Len(at) \in Nat /\ j \in 1..Len(to) /\ j \in 1..(Len(at) + 1)
      BY <1>1, <1>2, <2>3
    <3>0. j \in 1..(Len(old) + 1) /\ new[j] = lines[to[j]]
      BY <1>1, <1>2, <3>1
    <3>2. CASE j = 1
      <4>1. to[j] = first /\ u[j] = r
        BY <2>3, <2>5, <3>0, <3>1, <3>2
      <4> QED BY <3>0, <4>1
    <3>3. CASE j # 1
      <4>1. j - 1 \in 1..Len(at)
        BY <3>1, <3>3
      <4>2. to[j] = at[j - 1] /\ u[j] = old[j - 1]
        BY <2>3, <2>5, <3>0, <3>1, <3>3
      <4>3. old[j - 1] = lines[at[j - 1]]
        BY <1>1, <4>1
      <4> QED BY <3>0, <4>2, <4>3
    <3> QED BY <3>2, <3>3
  <2>7. Len(new) = Len(u)
    BY <1>1, <1>2, <2>3, <2>5
  <2>8. new = u
    BY <1>2, <2>5, <2>6, <2>7, SeqEqual
  <2> QED BY <1>4, <2>8 DEF old, new, u
<1>5. CASE ~IsMessage(r)
  <2>1. T = S
    BY <1>3, <1>5 DEF MessagesIn
  <2>2. new = old
    <3>1. to = at
      BY <2>1
    <3> HIDE DEF S, T, at, to, old, new
    <3>2. old \in Seq(Record) /\ new \in Seq(Record) /\ Len(new) = Len(at) /\ Len(old) = Len(at)
      BY <1>1, <1>2, <3>1
    <3>3. \A j \in 1..Len(at) : new[j] = lines[at[j]] /\ old[j] = lines[at[j]]
      BY <1>1, <1>2, <3>1
    <3>4. \A j \in 1..Len(new) : new[j] = old[j]
      BY <3>2, <3>3
    <3>5. Len(new) = Len(old)
      BY <3>2
    <3> QED BY <3>2, <3>4, <3>5, SeqEqual
  <2> QED BY <1>5, <2>2
<1> QED BY <1>4, <1>5

(* A question at the start is one more. *)
LEMMA UsersPrepend ==
    ASSUME NEW m \in Seq(Record), NEW r \in Record
    PROVE  /\ Cardinality(Users(m)) \in Nat
           /\ Cardinality(Users(<<r>> \o m)) = Cardinality(Users(m)) + (IF r.kind = "user" THEN 1 ELSE 0)
<1> DEFINE n == Len(m)
           more == <<r>> \o m
           T == {i + 1 : i \in Users(m)}
<1>1. n \in Nat /\ \A i \in 1..n : m[i] \in Record
  OBVIOUS
<1>2. Len(more) = n + 1 /\ more[1] = r /\ \A i \in 1..n : more[i + 1] = m[i]
  OBVIOUS
<1>3. Users(m) \in SUBSET (1..n) /\ 1 \in Int /\ n \in Int /\ 1 \in Nat
  BY <1>1 DEF Users
<1>4. IsFiniteSet(Users(m)) /\ Cardinality(Users(m)) \in Nat
  BY <1>3, PartsAreFinite
<1>5. Cardinality(T) = Cardinality(Users(m))
  BY <1>1, <1>3, ShiftedAreAsMany
<1>6. T \in SUBSET (2..(n + 1)) /\ 2 \in Int /\ n + 1 \in Int
  BY <1>1, <1>3
<1>7. IsFiniteSet(T) /\ 1 \notin T
  <2>1. 1 \notin 2..(n + 1)
    OBVIOUS
  <2> HIDE DEF T
  <2> QED BY <1>6, <2>1, PartsAreFinite
<1> HIDE DEF n, more
<1>8. \A j \in 2..(n + 1) : j \in Users(more) <=> j \in T
  <2> TAKE j \in 2..(n + 1)
  <2>1. j - 1 \in 1..n /\ (j - 1) + 1 = j /\ j \in 1..(n + 1)
    BY <1>1
  <2>2. more[j] = m[j - 1]
    BY <1>2, <2>1
  <2>3. j \in Users(more) <=> j - 1 \in Users(m)
    BY <1>2, <2>1, <2>2 DEF Users, n
  <2>4. j \in T <=> j - 1 \in Users(m)
    <3>1. \A i \in Users(m) : i + 1 = j => i = j - 1
      BY <1>3, <2>1
    <3> QED BY <2>1, <3>1
  <2> QED BY <2>3, <2>4
<1>9. 1..(n + 1) = {1} \cup (2..(n + 1)) /\ Users(more) \subseteq 1..(n + 1)
  BY <1>1, <1>2 DEF Users
<1>10. 1 \in Users(more) <=> r.kind = "user"
  BY <1>1, <1>2 DEF Users
<1> HIDE DEF T
<1>11. Users(more) = IF r.kind = "user" THEN T \cup {1} ELSE T
  <2>1. \A j \in Users(more) : j = 1 \/ j \in 2..(n + 1)
    BY <1>9
  <2>2. \A j \in T : j \in 2..(n + 1)
    BY <1>6
  <2> DEFINE two == 2..(n + 1)
             user == r.kind = "user"
             U == Users(more)
  <2>3. /\ \A j \in U : j = 1 \/ j \in two
        /\ \A j \in T : j \in two
        /\ \A j \in two : j \in U <=> j \in T
        /\ 1 \in U <=> user
    BY <1>8, <1>10, <2>1, <2>2
  <2> HIDE DEF two, user, U
  <2>4. U = IF user THEN T \cup {1} ELSE T
    <3>1. CASE user
      <4>1. \A j : j \in U <=> j \in T \cup {1}
        BY <2>3, <3>1
      <4> QED BY <3>1, <4>1
    <3>2. CASE ~user
      <4>1. \A j : j \in U <=> j \in T
        BY <2>3, <3>2
      <4> QED BY <3>2, <4>1
    <3> QED BY <3>1, <3>2
  <2> QED BY <2>4 DEF user, U
<1>12. Cardinality(T \cup {1}) = Cardinality(T) + 1
  BY <1>7, FS_AddElement
<1>13. Cardinality(Users(more)) = Cardinality(Users(m)) + (IF r.kind = "user" THEN 1 ELSE 0)
  BY <1>4, <1>5, <1>11, <1>12
<1> QED BY <1>4, <1>13 DEF more

-----------------------------------------------------------------------------
(* The goal of the tail.                                                   *)

(* The records that say something on the goal. *)
SaidIn(lines, first, last) == {i \in first..last : Says(lines, first, i)}

(* Nothing is said, or something is said last. *)
LEMMA LastWord ==
    ASSUME NEW lines, NEW first \in Nat \ {0}, NEW last \in Nat
    PROVE  \/ /\ \A j \in first..last : ~Says(lines, first, j)
              /\ TrueGoal(lines, first, last) = "unknown"
           \/ \E i \in first..last :
                  /\ Says(lines, first, i) /\ \A j \in (i + 1)..last : ~Says(lines, first, j)
                  /\ TrueGoal(lines, first, last) =
                         IF lines[i].kind = "goal" THEN "active"
                         ELSE IF \E j \in (i + 1)..last : lines[j].kind = "user" THEN "none" ELSE "complete"
<1> DEFINE S == SaidIn(lines, first, last)
           i == Newest(S)
<1>1. S \in SUBSET (1..last)
  <2>1. \A j \in first..last : j \in 1..last
    OBVIOUS
  <2> QED BY <2>1 DEF SaidIn
<1>2. i \in S \cup {0} /\ \A j \in S : j <= i
  BY <1>1, NewestIs
<1>3. TrueGoal(lines, first, last) =
          IF i = 0 THEN "unknown"
          ELSE IF (IF lines[i].kind = "goal" THEN "active" ELSE "complete") = "complete"
                  /\ \E j \in (i + 1)..last : lines[j].kind = "user"
               THEN "none" ELSE (IF lines[i].kind = "goal" THEN "active" ELSE "complete")
  BY DEF TrueGoal, SaidIn, Says
<1> HIDE DEF i
<1>4. CASE i = 0
  <2>1. \A j \in S : FALSE
    <3> SUFFICES ASSUME NEW j \in S PROVE FALSE
      OBVIOUS
    <3>1. j \in 1..last /\ j <= 0
      BY <1>1, <1>2, <1>4
    <3> QED BY <3>1
  <2> QED BY <1>3, <1>4, <2>1 DEF SaidIn
<1>5. CASE i # 0
  <2>1. i \in first..last /\ Says(lines, first, i)
    BY <1>2, <1>5 DEF SaidIn
  <2>2. \A j \in (i + 1)..last : ~Says(lines, first, j)
    <3> TAKE j \in (i + 1)..last
    <3>1. j \in first..last /\ ~(j <= i)
      BY <2>1
    <3> QED BY <1>2, <3>1 DEF SaidIn
  <2>3. TrueGoal(lines, first, last) =
            IF lines[i].kind = "goal" THEN "active"
            ELSE IF \E j \in (i + 1)..last : lines[j].kind = "user" THEN "none" ELSE "complete"
    BY <1>3, <1>5
  <2> QED BY <2>1, <2>2, <2>3
<1> QED BY <1>4, <1>5

(* What was said last decides. *)
LEMMA GoalIs ==
    ASSUME NEW lines, NEW first \in Nat \ {0}, NEW last \in Nat, NEW i \in first..last,
           Says(lines, first, i), \A j \in (i + 1)..last : ~Says(lines, first, j)
    PROVE  TrueGoal(lines, first, last) =
               IF lines[i].kind = "goal" THEN "active"
               ELSE IF \E j \in (i + 1)..last : lines[j].kind = "user" THEN "none" ELSE "complete"
<1>1. PICK k \in first..last :
               /\ Says(lines, first, k) /\ \A j \in (k + 1)..last : ~Says(lines, first, j)
               /\ TrueGoal(lines, first, last) =
                      IF lines[k].kind = "goal" THEN "active"
                      ELSE IF \E j \in (k + 1)..last : lines[j].kind = "user" THEN "none" ELSE "complete"
  BY LastWord
<1>2. ~(i \in (k + 1)..last) /\ ~(k \in (i + 1)..last)
  BY <1>1
<1>3. i = k
  BY <1>2
<1> QED BY <1>1, <1>3

(* One record more. *)
LEMMA TrueGoalStep ==
    ASSUME NEW lines, NEW first \in Nat \ {0}, NEW last \in Nat, first <= last + 1
    PROVE  TrueGoal(lines, first, last + 1) =
               IF lines[last + 1].kind = "goal" THEN "active"
               ELSE IF Says(lines, first, last + 1) THEN "complete"
               ELSE IF lines[last + 1].kind = "user" /\ TrueGoal(lines, first, last) = "complete" THEN "none"
               ELSE TrueGoal(lines, first, last)
<1> DEFINE n == last + 1
<1>0. n \in Nat /\ n \in first..n /\ (n + 1)..n = {} /\ first..n = (first..last) \cup {n}
  OBVIOUS
<1>1. CASE Says(lines, first, n)
  <2>1. TrueGoal(lines, first, n) = IF lines[n].kind = "goal" THEN "active" ELSE "complete"
    <3> HIDE DEF n
    <3>1. TrueGoal(lines, first, n) =
               IF lines[n].kind = "goal" THEN "active"
               ELSE IF \E j \in (n + 1)..n : lines[j].kind = "user" THEN "none" ELSE "complete"
      BY <1>0, <1>1, GoalIs
    <3> QED BY <1>0, <3>1
  <2> QED BY <1>1, <2>1
<1>2. CASE ~Says(lines, first, n)
  <2>0. lines[n].kind # "goal"
    BY <1>2 DEF Says
  <2>1. CASE \A j \in first..last : ~Says(lines, first, j)
    <3>1. \A j \in first..n : ~Says(lines, first, j)
      BY <1>0, <1>2, <2>1
    <3>2. TrueGoal(lines, first, last) = "unknown"
      BY <2>1, LastWord
    <3>3. TrueGoal(lines, first, n) = "unknown"
      BY <1>0, <3>1, LastWord
    <3> QED BY <1>2, <2>0, <3>2, <3>3
  <2>2. CASE \E i \in first..last : Says(lines, first, i) /\ \A j \in (i + 1)..last : ~Says(lines, first, j)
    <3>1. PICK i \in first..last : Says(lines, first, i) /\ \A j \in (i + 1)..last : ~Says(lines, first, j)
      BY <2>2
    <3>2. i \in first..n /\ (i + 1)..n = ((i + 1)..last) \cup {n}
      OBVIOUS
    <3> DEFINE Goal(k) == IF lines[i].kind = "goal" THEN "active"
                          ELSE IF \E j \in (i + 1)..k : lines[j].kind = "user" THEN "none" ELSE "complete"
    <3>3. TrueGoal(lines, first, last) = Goal(last)
      BY <3>1, GoalIs
    <3>4. TrueGoal(lines, first, n) = Goal(n)
      <4>1. \A j \in (i + 1)..n : ~Says(lines, first, j)
        BY <1>2, <3>1, <3>2
      <4> HIDE DEF n
      <4> QED BY <1>0, <3>1, <3>2, <4>1, GoalIs
    <3>5. (\E j \in (i + 1)..n : lines[j].kind = "user") <=> (lines[n].kind = "user" \/ \E j \in (i + 1)..last : lines[j].kind = "user")
      BY <3>2
    <3>6. Goal(n) = IF lines[n].kind = "user" /\ Goal(last) = "complete" THEN "none" ELSE Goal(last)
      BY <3>5
    <3> QED BY <1>2, <2>0, <3>3, <3>4, <3>6
  <2> QED BY <2>1, <2>2, LastWord
<1> QED BY <1>1, <1>2

(* A record of a catch-up. *)
LEMMA FollowKeepsGoal ==
    ASSUME NEW lines, LinesAre(lines), NEW first \in Nat \ {0}, NEW last \in Nat,
           last < Len(lines), first <= last + 1,
           NEW s, GoalData(s, lines, first, last)
    PROVE  GoalData(Follow(s, lines[last + 1]), lines, first, last + 1)
<1> DEFINE n == last + 1
           r == lines[n]
           t == Follow(s, r)
           cleared == IF r.kind = "user" /\ s.goal = "complete" THEN "none" ELSE s.goal
<1>0. /\ n \in Nat /\ n \in 1..Len(lines) /\ first..n = (first..last) \cup {n} /\ n \in first..n
      /\ 1..n = (1..last) \cup {n} /\ Len(lines) \in Nat
  BY RecordTypes
<1>1. /\ t.goal = CASE r.kind = "goal" -> "active"
                    [] r.kind = "output" /\ r.of \in s.calls -> "complete"
                    [] OTHER -> cleared
      /\ t.calls = CASE r.kind = "call" -> s.calls \cup {r.n}
                     [] r.kind = "output" -> s.calls \ {r.of}
                     [] OTHER -> s.calls
  BY DEF Follow
<1> HIDE DEF t
<1>2. \A c \in s.calls : \E i \in first..last : lines[i].kind = "call" /\ lines[i].n = c
  BY DEF GoalData
<1>3. ASSUME NEW c \in t.calls PROVE \E i \in first..n : lines[i].kind = "call" /\ lines[i].n = c
  <2>1. CASE r.kind = "call" /\ c = r.n
    BY <1>0, <2>1
  <2>2. CASE ~(r.kind = "call" /\ c = r.n)
    <3>1. c \in s.calls
      BY <1>1, <1>3, <2>2
    <3> QED BY <1>0, <1>2, <3>1
  <2> QED BY <2>1, <2>2
<1>4. ASSUME ~Straddled(lines, n)
      PROVE  /\ t.goal = TrueGoal(lines, first, n)
             /\ \A i \in first..n : lines[i].kind = "call" =>
                    lines[i].n \in t.calls \/ \E x \in (i + 1)..n : Says(lines, first, x)
  <2>1. ~Straddled(lines, last)
    BY <1>0, <1>4 DEF Straddled
  <2>2. /\ s.goal = TrueGoal(lines, first, last)
        /\ \A i \in first..last : lines[i].kind = "call" =>
                  lines[i].n \in s.calls \/ \E x \in (i + 1)..last : Says(lines, first, x)
    BY <2>1 DEF GoalData
  <2>3. TrueGoal(lines, first, n) =
               IF r.kind = "goal" THEN "active"
               ELSE IF Says(lines, first, n) THEN "complete"
               ELSE IF r.kind = "user" /\ TrueGoal(lines, first, last) = "complete" THEN "none"
               ELSE TrueGoal(lines, first, last)
    BY TrueGoalStep
  <2>4. r.kind = "output" /\ r.of \in s.calls => Says(lines, first, n)
    BY <1>2 DEF Says
  <2>5. ASSUME r.kind = "output", r.of \notin s.calls, Says(lines, first, n)
        PROVE  s.goal = "complete"
    <3>1. PICK i \in first..last : lines[i].kind = "call" /\ lines[i].n = r.of
      BY <2>5 DEF Says
    <3>2. PICK x \in (i + 1)..last : Says(lines, first, x)
      BY <2>2, <2>5, <3>1
    <3>3. x \in first..last
      BY <3>2
    <3>4. PICK k \in first..last :
                  /\ Says(lines, first, k) /\ \A j \in (k + 1)..last : ~Says(lines, first, j)
                  /\ TrueGoal(lines, first, last) =
                         IF lines[k].kind = "goal" THEN "active"
                         ELSE IF \E j \in (k + 1)..last : lines[j].kind = "user" THEN "none" ELSE "complete"
      BY <3>2, <3>3, LastWord
    <3>5. i < k
      <4>1. ~(x \in (k + 1)..last)
        BY <3>2, <3>4
      <4> QED BY <3>2, <4>1
    <3>6. \A j \in (i + 1)..last : lines[j].kind \notin {"user", "goal"}
      <4> TAKE j \in (i + 1)..last
      <4>1. i \in 1..n /\ j \in 1..n /\ n \in 1..n /\ i < j /\ j < n
        OBVIOUS
      <4> QED BY <1>4, <3>1, <4>1 DEF Straddled
    <3>7. lines[k].kind # "goal" /\ \A j \in (k + 1)..last : lines[j].kind # "user"
      <4>1. k \in (i + 1)..last /\ \A j \in (k + 1)..last : j \in (i + 1)..last
        BY <3>5
      <4> QED BY <3>6, <4>1
    <3> QED BY <2>2, <3>4, <3>7
  <2>6. t.goal = TrueGoal(lines, first, n)
    <3> DEFINE says == Says(lines, first, n)
               old == TrueGoal(lines, first, last)
               new == TrueGoal(lines, first, n)
    <3>1. says => r.kind \in {"goal", "output"}
      BY DEF Says
    <3> HIDE DEF says, old, new, r
    <3> QED BY <1>1, <2>2, <2>3, <2>4, <2>5, <3>1 DEF says, old, new, r
  <2>7. ASSUME NEW i \in first..n, lines[i].kind = "call"
        PROVE  lines[i].n \in t.calls \/ \E x \in (i + 1)..n : Says(lines, first, x)
    <3>1. CASE i = n
      BY <1>1, <2>7, <3>1
    <3>2. CASE i # n
      <4>1. i \in first..last /\ n \in (i + 1)..n /\ \A x \in (i + 1)..last : x \in (i + 1)..n
        BY <3>2
      <4>2. CASE lines[i].n \in t.calls
        BY <4>2
      <4>3. CASE lines[i].n \notin t.calls /\ lines[i].n \in s.calls
        <5>1. r.kind = "output" /\ r.of = lines[i].n
          BY <1>1, <4>3
        <5>2. Says(lines, first, n)
          BY <2>7, <4>1, <5>1 DEF Says
        <5> QED BY <4>1, <5>2
      <4>4. CASE lines[i].n \notin s.calls
        BY <2>2, <2>7, <4>1, <4>4
      <4> QED BY <4>2, <4>3, <4>4
    <3> QED BY <3>1, <3>2
  <2> QED BY <2>6, <2>7
<1> QED BY <1>3, <1>4 DEF GoalData, t

(* The goal of a rebuild that has scanned back to a record: as long as it  *)
(* is unknown nothing has been said on it, and each call is open.          *)
ScanGoal(s, lines, p, n) ==
    /\ \A c \in s.calls : \E i \in p..n : lines[i].kind = "call" /\ lines[i].n = c
    /\ s.goal = "unknown" =>
           /\ s.newer <=> \E j \in p..n : lines[j].kind = "user"
           /\ \A i \in p..n : lines[i].kind # "goal"
           /\ \A i, k \in p..n : lines[i].kind = "call" /\ lines[k].kind = "output" => lines[k].of # lines[i].n
           /\ \A o : o \in s.outputs <=> \E k \in p..n : lines[k].kind = "output" /\ o = lines[k].of
           /\ \A i \in p..n : lines[i].kind = "call" => lines[i].n \in s.calls
    /\ s.goal # "unknown" =>
           /\ \E x \in p..n : Says(lines, p, x)
           /\ \A i \in p..n : lines[i].kind = "call" =>
                  lines[i].n \in s.calls \/ \E x \in (i + 1)..n : Says(lines, p, x)
           /\ Straddled(lines, n) \/ \A f \in 1..p : s.goal = TrueGoal(lines, f, n)

(* A goal that is known stays. *)
LEMMA KnownStays ==
    ASSUME NEW lines, NEW p \in Nat \ {0}, NEW n \in Nat, p <= n,
           NEW s, NEW t, ScanGoal(s, lines, p + 1, n), s.goal # "unknown", t.goal = s.goal, t.calls = s.calls
    PROVE  ScanGoal(t, lines, p, n)
<1>0. /\ p..n = {p} \cup ((p + 1)..n) /\ p \in p..n
      /\ \A f \in 1..p : f \in 1..(p + 1)
  OBVIOUS
<1>1. \A x : Says(lines, p + 1, x) => Says(lines, p, x)
  <2> SUFFICES ASSUME NEW x, Says(lines, p + 1, x) PROVE Says(lines, p, x)
    OBVIOUS
  <2>1. CASE lines[x].kind = "goal"
    BY <2>1 DEF Says
  <2>2. CASE lines[x].kind # "goal"
    <3>1. lines[x].kind = "output" /\ \E j \in (p + 1)..(x - 1) : lines[j].kind = "call" /\ lines[j].n = lines[x].of
      BY <2>2 DEF Says
    <3>2. \A j \in (p + 1)..(x - 1) : j \in p..(x - 1)
      OBVIOUS
    <3> QED BY <3>1, <3>2 DEF Says
  <2> QED BY <2>1, <2>2
<1>2. PICK x \in (p + 1)..n : Says(lines, p, x)
  BY <1>1 DEF ScanGoal
<1>3. \A i \in (p + 1)..n : lines[i].kind = "call" =>
          lines[i].n \in t.calls \/ \E y \in (i + 1)..n : Says(lines, p, y)
  BY <1>1 DEF ScanGoal
<1>4. \A i \in p..n : lines[i].kind = "call" =>
          lines[i].n \in t.calls \/ \E y \in (i + 1)..n : Says(lines, p, y)
  BY <1>0, <1>2, <1>3
<1>5. Straddled(lines, n) \/ \A f \in 1..p : t.goal = TrueGoal(lines, f, n)
  BY <1>0 DEF ScanGoal
<1>6. \A c \in t.calls : \E i \in p..n : lines[i].kind = "call" /\ lines[i].n = c
  BY <1>0 DEF ScanGoal
<1>7. x \in p..n
  BY <1>0, <1>2
<1> QED BY <1>2, <1>4, <1>5, <1>6, <1>7 DEF ScanGoal

(* Nor does a goal that a record names as long as it was unknown change. *)
LEMMA GoalIsFound ==
    ASSUME NEW lines, LinesAre(lines), NEW p \in Nat \ {0}, NEW n \in Nat, p <= n, n <= Len(lines),
           NEW s, ScanGoal(s, lines, p + 1, n), s.goal = "unknown",
           lines[p].kind = "goal", NEW t, t.goal = "active", t.calls = s.calls
    PROVE  ScanGoal(t, lines, p, n)
<1>0. /\ p..n = {p} \cup ((p + 1)..n) /\ p \in p..n
  OBVIOUS
<1>1. /\ \A i \in (p + 1)..n : lines[i].kind # "goal"
      /\ \A i, k \in (p + 1)..n : lines[i].kind = "call" /\ lines[k].kind = "output" => lines[k].of # lines[i].n
      /\ \A i \in (p + 1)..n : lines[i].kind = "call" => lines[i].n \in s.calls
      /\ \A c \in s.calls : \E i \in (p + 1)..n : lines[i].kind = "call" /\ lines[i].n = c
  BY DEF ScanGoal
<1>2. Says(lines, p, p)
  BY DEF Says
<1>3. ASSUME NEW f \in 1..p, ~Straddled(lines, n) PROVE TrueGoal(lines, f, n) = "active"
  <2>1. f \in Nat \ {0} /\ p \in f..n /\ Says(lines, f, p)
    BY DEF Says
  <2>2. \A j \in (p + 1)..n : ~Says(lines, f, j)
    <3> SUFFICES ASSUME NEW j \in (p + 1)..n, Says(lines, f, j) PROVE FALSE
      OBVIOUS
    <3>1. PICK i \in f..(j - 1) : lines[i].kind = "call" /\ lines[i].n = lines[j].of /\ lines[j].kind = "output"
      BY <1>1 DEF Says
    <3>2. ~(i \in (p + 1)..n) /\ i # p
      BY <1>1, <3>1
    <3>3. i \in 1..n /\ p \in 1..n /\ j \in 1..n /\ i < p /\ p < j
      BY <3>2
    <3> QED BY <1>3, <3>1, <3>3 DEF Straddled
  <2> QED BY <2>1, <2>2, GoalIs
<1>4. \A i \in p..n : lines[i].kind = "call" => lines[i].n \in t.calls
  BY <1>0, <1>1
<1>5. \A c \in t.calls : \E i \in p..n : lines[i].kind = "call" /\ lines[i].n = c
  BY <1>0, <1>1
<1> QED BY <1>0, <1>2, <1>3, <1>4, <1>5 DEF ScanGoal

(* And one that an answered call completes. *)
LEMMA AnswerIsFound ==
    ASSUME NEW lines, LinesAre(lines), NEW p \in Nat \ {0}, NEW n \in Nat, p <= n, n <= Len(lines),
           NEW s, ScanGoal(s, lines, p + 1, n), s.goal = "unknown",
           lines[p].kind = "call", lines[p].n \in s.outputs,
           NEW t, t.goal = (IF s.newer THEN "none" ELSE "complete"), t.calls = s.calls
    PROVE  ScanGoal(t, lines, p, n)
<1>0. p..n = {p} \cup ((p + 1)..n) /\ p \in p..n
  OBVIOUS
<1>1. /\ \A i \in (p + 1)..n : lines[i].kind # "goal"
      /\ \A i, k \in (p + 1)..n : lines[i].kind = "call" /\ lines[k].kind = "output" => lines[k].of # lines[i].n
      /\ \A i \in (p + 1)..n : lines[i].kind = "call" => lines[i].n \in s.calls
      /\ \A c \in s.calls : \E i \in (p + 1)..n : lines[i].kind = "call" /\ lines[i].n = c
      /\ s.newer <=> \E j \in (p + 1)..n : lines[j].kind = "user"
      /\ \A o : o \in s.outputs <=> \E k \in (p + 1)..n : lines[k].kind = "output" /\ o = lines[k].of
  BY DEF ScanGoal
<1>2. PICK k \in (p + 1)..n : lines[k].kind = "output" /\ lines[p].n = lines[k].of
  BY <1>1
<1>3. ASSUME NEW f \in 1..p PROVE Says(lines, f, k)
  <2>1. p \in f..(k - 1)
    OBVIOUS
  <2> QED BY <1>2, <2>1 DEF Says
<1>4. p \in 1..p /\ k \in p..n
  OBVIOUS
<1>5. Says(lines, p, k)
  BY <1>3, <1>4
<1>6. ASSUME NEW f \in 1..p, ~Straddled(lines, n) PROVE t.goal = TrueGoal(lines, f, n)
  <2>1. f \in Nat \ {0} /\ k \in f..n /\ Says(lines, f, k)
    BY <1>3
  <2>2. PICK x \in f..n :
                  /\ Says(lines, f, x) /\ \A j \in (x + 1)..n : ~Says(lines, f, j)
                  /\ TrueGoal(lines, f, n) =
                         IF lines[x].kind = "goal" THEN "active"
                         ELSE IF \E j \in (x + 1)..n : lines[j].kind = "user" THEN "none" ELSE "complete"
    BY <2>1, LastWord
  <2>3. ~(k \in (x + 1)..n)
    BY <2>1, <2>2
  <2>4. x >= k /\ x \in (p + 1)..n
    BY <2>1, <2>2, <2>3
  <2>5. lines[x].kind # "goal"
    BY <1>1, <2>4
  <2>6. PICK c \in f..(x - 1) : lines[c].kind = "call" /\ lines[c].n = lines[x].of /\ lines[x].kind = "output"
    BY <2>2, <2>5 DEF Says
  <2>7. ~(c \in (p + 1)..n)
    BY <1>1, <2>4, <2>6
  <2>8. c <= p /\ c \in 1..n /\ x \in 1..n
    BY <2>2, <2>6, <2>7
  <2>9. ASSUME NEW j \in (p + 1)..n, lines[j].kind = "user" PROVE j \in (x + 1)..n
    <3>1. j # x
      BY <2>6, <2>9
    <3>2. ~(j < x)
      <4> SUFFICES ASSUME j < x PROVE FALSE
        OBVIOUS
      <4>1. j \in 1..n /\ c < j
        BY <2>8
      <4> QED BY <1>6, <2>6, <2>8, <2>9, <4>1 DEF Straddled
    <3> QED BY <2>2, <3>1, <3>2
  <2>10. \A j \in (x + 1)..n : j \in (p + 1)..n
    BY <2>4
  <2>11. (\E j \in (x + 1)..n : lines[j].kind = "user") <=> (\E j \in (p + 1)..n : lines[j].kind = "user")
    BY <2>9, <2>10
  <2> QED BY <1>1, <2>2, <2>5, <2>11
<1>7. \A i \in p..n : lines[i].kind = "call" => lines[i].n \in t.calls \/ \E x \in (i + 1)..n : Says(lines, p, x)
  BY <1>0, <1>1, <1>5
<1>8. \A c \in t.calls : \E i \in p..n : lines[i].kind = "call" /\ lines[i].n = c
  BY <1>0, <1>1
<1>9. t.goal # "unknown"
  OBVIOUS
<1> QED BY <1>4, <1>5, <1>6, <1>7, <1>8, <1>9 DEF ScanGoal

(* A record that says nothing leaves it unknown. *)
LEMMA NothingIsFound ==
    ASSUME NEW lines, LinesAre(lines), NEW p \in Nat \ {0}, NEW n \in Nat, p <= n, n <= Len(lines),
           NEW s, ScanGoal(s, lines, p + 1, n), s.goal = "unknown",
           lines[p].kind # "goal", ~(lines[p].kind = "call" /\ lines[p].n \in s.outputs),
           NEW t, t.goal = "unknown", t.newer = (s.newer \/ lines[p].kind = "user"),
           t.outputs = IF lines[p].kind = "output" THEN s.outputs \cup {lines[p].of} ELSE s.outputs,
           t.calls = IF lines[p].kind = "call" THEN s.calls \cup {lines[p].n} ELSE s.calls
    PROVE  ScanGoal(t, lines, p, n)
<1>0. p..n = {p} \cup ((p + 1)..n) /\ p \in p..n
  OBVIOUS
<1>1. /\ \A i \in (p + 1)..n : lines[i].kind # "goal"
      /\ \A i, k \in (p + 1)..n : lines[i].kind = "call" /\ lines[k].kind = "output" => lines[k].of # lines[i].n
      /\ \A i \in (p + 1)..n : lines[i].kind = "call" => lines[i].n \in s.calls
      /\ \A c \in s.calls : \E i \in (p + 1)..n : lines[i].kind = "call" /\ lines[i].n = c
      /\ s.newer <=> \E j \in (p + 1)..n : lines[j].kind = "user"
      /\ \A o : o \in s.outputs <=> \E k \in (p + 1)..n : lines[k].kind = "output" /\ o = lines[k].of
  BY DEF ScanGoal
<1>2. t.newer <=> \E j \in p..n : lines[j].kind = "user"
  BY <1>0, <1>1
<1>3. \A i \in p..n : lines[i].kind # "goal"
  BY <1>0, <1>1
<1>4. ASSUME NEW i \in p..n, NEW k \in p..n, lines[i].kind = "call", lines[k].kind = "output"
      PROVE  lines[k].of # lines[i].n
  <2>1. CASE i # p /\ k # p
    BY <1>0, <1>1, <1>4, <2>1
  <2>2. CASE i = p
    <3>1. k \in (p + 1)..n
      BY <1>4, <2>2
    <3> QED BY <1>1, <1>4, <2>2, <3>1
  <2>3. CASE k = p /\ i # p
    <3>1. Len(lines) \in Nat
      BY RecordTypes
    <3>2. p \in 1..Len(lines) /\ i \in 1..Len(lines) /\ i > p
      BY <2>3, <3>1
    <3>3. BaseOf(lines, p) \in 1..(p - 1) /\ \A j \in 1..Len(lines) : lines[j].n = lines[p].of => j = BaseOf(lines, p)
      BY <1>4, <2>3, <3>2, CallOfOutput
    <3>4. i # BaseOf(lines, p)
      BY <3>2, <3>3
    <3> QED BY <2>3, <3>2, <3>3, <3>4
  <2> QED BY <2>1, <2>2, <2>3
<1>5. \A o : o \in t.outputs <=> \E k \in p..n : lines[k].kind = "output" /\ o = lines[k].of
  BY <1>0, <1>1
<1>6. \A i \in p..n : lines[i].kind = "call" => lines[i].n \in t.calls
  BY <1>0, <1>1
<1>7. \A c \in t.calls : \E i \in p..n : lines[i].kind = "call" /\ lines[i].n = c
  BY <1>0, <1>1
<1> QED BY <1>2, <1>3, <1>4, <1>5, <1>6, <1>7 DEF ScanGoal

(* The messages of a rebuild that has scanned back to a record. *)
ScanMessages(s, lines, p, n) ==
    /\ s.stop => s.goal # "unknown" /\ Fills(s.messages, MessagesOf(lines, p, n))
    /\ ~s.stop => /\ s.messages = MessagesOf(lines, p, n)
                  /\ s.turns = Cardinality(Users(s.messages))

ScanData(s, lines, p, n) == ScanGoal(s, lines, p, n) /\ ScanMessages(s, lines, p, n)

(* One record of a rebuild. *)
LEMMA ScanKeeps ==
    ASSUME NEW lines, LinesAre(lines), NEW p \in Nat \ {0}, NEW n \in Nat, p <= n, n <= Len(lines),
           NEW s, ScanData(s, lines, p + 1, n)
    PROVE  ScanData(Scan(s, lines[p]), lines, p, n)
<1> DEFINE r == lines[p]
           t == Scan(s, r)
           old == MessagesOf(lines, p + 1, n)
           new == MessagesOf(lines, p, n)
           known == s.goal # "unknown"
           answered == r.kind = "call" /\ r.n \in s.outputs
           newer == s.newer \/ r.kind = "user"
           messages == IF IsMessage(r) THEN <<r>> \o s.messages ELSE s.messages
           goal == CASE known -> s.goal
                     [] ~known /\ r.kind = "goal" -> IF newer /\ "active" = "complete" THEN "none" ELSE "active"
                     [] ~known /\ answered -> IF newer /\ "complete" = "complete" THEN "none" ELSE "complete"
                     [] OTHER -> "unknown"
           usage == s.usage \/ r.kind = "assistant"
           turns == s.turns + (IF r.kind = "user" THEN 1 ELSE 0)
           stop == /\ r.kind = "user" /\ usage /\ goal # "unknown"
                   /\ turns >= PageTurns \/ Len(messages) >= CharBudget
<1>0. p \in 1..Len(lines) /\ r \in Record /\ p + 1 \in Nat \ {0} /\ Len(lines) \in Nat
  <2>1. Len(lines) \in Nat
    BY RecordTypes
  <2>2. p \in 1..Len(lines)
    BY <2>1
  <2> QED BY <2>1, <2>2, RecordTypes
<1>1. old \in Seq(Record) /\ new \in Seq(Record) /\ new = IF IsMessage(r) THEN <<r>> \o old ELSE old
  <2>1. old \in Seq(Record) /\ new \in Seq(Record)
    BY <1>0, MessagesAre
  <2> QED BY <2>1, MessagesPrepend
<1>2. ScanGoal(s, lines, p + 1, n) /\ ScanMessages(s, lines, p + 1, n)
  BY DEF ScanData
<1>3. CASE s.stop
  <2>1. t = s
    BY <1>3 DEF Scan
  <2>2. s.goal # "unknown" /\ Fills(s.messages, old)
    BY <1>2, <1>3 DEF ScanMessages
  <2>3. Fills(s.messages, new)
    <3> HIDE DEF old, new, r
    <3> QED BY <1>0, <1>1, <2>2, FillsPrepend
  <2>4. ScanGoal(s, lines, p, n)
    BY <1>2, <2>2, KnownStays
  <2> QED BY <1>3, <2>1, <2>2, <2>3, <2>4 DEF ScanData, ScanMessages
<1>4. CASE ~s.stop
  <2>1. /\ t.messages = messages /\ t.goal = goal /\ t.newer = newer /\ t.turns = turns
        /\ t.outputs = IF known THEN s.outputs
                       ELSE IF answered THEN s.outputs \ {r.n}
                       ELSE IF r.kind = "output" THEN s.outputs \cup {r.of}
                       ELSE s.outputs
        /\ t.calls = IF ~known /\ r.kind = "call" /\ ~answered THEN s.calls \cup {r.n} ELSE s.calls
        /\ t.stop = stop
    BY <1>4 DEF Scan
  <2>2. s.messages = old /\ s.turns = Cardinality(Users(s.messages))
    BY <1>2, <1>4 DEF ScanMessages
  <2>3. messages = new
    BY <1>1, <2>2
  <2>4. turns = Cardinality(Users(new))
    <3>1. /\ Cardinality(Users(old)) \in Nat
          /\ Cardinality(Users(<<r>> \o old)) = Cardinality(Users(old)) + (IF r.kind = "user" THEN 1 ELSE 0)
      <4> HIDE DEF old, r
      <4> QED BY <1>0, <1>1, UsersPrepend
    <3>2. ~IsMessage(r) => r.kind # "user"
      BY DEF IsMessage
    <3> HIDE DEF old, new, r
    <3> QED BY <1>1, <2>2, <3>1, <3>2
  <2>5. ASSUME stop PROVE t.goal # "unknown" /\ Fills(t.messages, new)
    <3>1. r.kind = "user" /\ goal # "unknown" /\ (turns >= PageTurns \/ Len(messages) >= CharBudget)
      BY <2>5
    <3>2. IsMessage(r)
      BY <3>1 DEF IsMessage
    <3>3. new = <<r>> \o old
      BY <1>1, <3>2
    <3>4. Len(new) \in Nat /\ 1 \in 1..Len(new) /\ new[1] = r
      <4> HIDE DEF old, new, r
      <4> QED BY <1>0, <1>1, <3>3
    <3>5. new = SubSeq(new, 1, Len(new))
      <4> HIDE DEF new
      <4> QED BY <1>1, SubSeqFull
    <3>6. Cardinality(Users(new)) >= PageTurns \/ Len(new) >= CharBudget
      BY <2>3, <2>4, <3>1
    <3>7. Fills(new, new)
      <4> HIDE DEF new, r
      <4> QED BY <3>1, <3>4, <3>5, <3>6 DEF Fills
    <3>8. t.messages = new /\ t.goal # "unknown"
      BY <2>1, <2>3, <3>1
    <3> QED BY <3>7, <3>8
  <2>6. ScanMessages(t, lines, p, n)
    <3>1. t.messages = new /\ t.turns = Cardinality(Users(t.messages))
      BY <2>1, <2>3, <2>4
    <3>2. t.stop => t.goal # "unknown" /\ Fills(t.messages, new)
      BY <2>1, <2>5
    <3> HIDE DEF t, new
    <3> QED BY <3>1, <3>2 DEF ScanMessages, new
  <2>7. ScanGoal(t, lines, p, n)
    <3> HIDE DEF t, messages, turns, stop, old, new, usage
    <3>1. CASE known
      <4>1. t.goal = s.goal /\ t.calls = s.calls
        BY <2>1, <3>1
      <4> QED BY <1>2, <3>1, <4>1, KnownStays
    <3>2. CASE ~known /\ r.kind = "goal"
      <4>1. t.goal = "active" /\ t.calls = s.calls
        BY <2>1, <3>2
      <4> QED BY <1>2, <3>2, <4>1, GoalIsFound
    <3>3. CASE ~known /\ r.kind # "goal" /\ answered
      <4>1. r.kind = "call" /\ r.n \in s.outputs /\ t.calls = s.calls
        BY <2>1, <3>3
      <4>2. t.goal = IF newer THEN "none" ELSE "complete"
        BY <2>1, <3>3
      <4>3. newer <=> s.newer
        BY <4>1
      <4>4. t.goal = IF s.newer THEN "none" ELSE "complete"
        <5>1. CASE s.newer
          BY <4>2, <4>3, <5>1
        <5>2. CASE ~s.newer
          BY <4>2, <4>3, <5>2
        <5> QED BY <5>1, <5>2
      <4> QED BY <1>2, <3>3, <4>1, <4>4, AnswerIsFound
    <3>4. CASE ~known /\ r.kind # "goal" /\ ~answered
      <4>1. t.goal = "unknown"
        BY <2>1, <3>4
      <4>2. t.outputs = (IF r.kind = "output" THEN s.outputs \cup {r.of} ELSE s.outputs)
        BY <2>1, <3>4
      <4>3. t.calls = (IF r.kind = "call" THEN s.calls \cup {r.n} ELSE s.calls)
        BY <2>1, <3>4
      <4>4. t.newer = (s.newer \/ r.kind = "user")
        BY <2>1
      <4> QED BY <1>2, <3>4, <4>1, <4>2, <4>3, <4>4, NothingIsFound
    <3> QED BY <3>1, <3>2, <3>3, <3>4
  <2> QED BY <2>6, <2>7 DEF ScanData
<1> QED BY <1>3, <1>4

(* A rebuild that has scanned nothing. *)
LEMMA ScanOfNothing ==
    ASSUME NEW lines, NEW n \in Nat
    PROVE  ScanData(Unscanned, lines, n + 1, n)
<1>1. (n + 1)..n = {}
  OBVIOUS
<1>2. /\ Unscanned.messages = <<>> /\ Unscanned.goal = "unknown" /\ Unscanned.newer = FALSE
      /\ Unscanned.turns = 0 /\ Unscanned.outputs = {} /\ Unscanned.calls = {} /\ Unscanned.stop = FALSE
  BY DEF Unscanned
<1>3. Users(<<>>) = {}
  BY DEF Users
<1>4. ScanGoal(Unscanned, lines, n + 1, n)
  BY <1>1, <1>2 DEF ScanGoal
<1>5. ScanMessages(Unscanned, lines, n + 1, n)
  BY <1>2, <1>3, NoMessages, FS_EmptySet DEF ScanMessages
<1> QED BY <1>4, <1>5 DEF ScanData

(* What a rebuild comes to. *)
LEMMA ScanGivesData ==
    ASSUME NEW lines, LinesAre(lines), NEW first \in Nat \ {0}, NEW n \in Nat, n <= Len(lines),
           NEW s, ScanData(s, lines, first, n)
    PROVE  /\ Bounded(s.messages) = Bounded(MessagesOf(lines, first, n))
           /\ GoalData(s, lines, first, n)
<1> DEFINE m == MessagesOf(lines, first, n)
<1>1. m \in Seq(Record)
  BY MessagesAre
<1>2. ScanGoal(s, lines, first, n) /\ ScanMessages(s, lines, first, n)
  BY DEF ScanData
<1>3. Bounded(s.messages) = Bounded(m)
  <2>1. CASE s.stop
    <3>1. Fills(s.messages, m)
      BY <1>2, <2>1 DEF ScanMessages
    <3> HIDE DEF m
    <3>2. Covers(s.messages, m)
      BY <1>1, <3>1, FillsCovers
    <3> QED BY <1>1, <3>2, BoundedOfCovered
  <2>2. CASE ~s.stop
    BY <1>2, <2>2 DEF ScanMessages
  <2> QED BY <2>1, <2>2
<1>4. ASSUME ~Straddled(lines, n)
      PROVE  /\ s.goal = TrueGoal(lines, first, n)
             /\ \A i \in first..n : lines[i].kind = "call" =>
                    lines[i].n \in s.calls \/ \E x \in (i + 1)..n : Says(lines, first, x)
  <2>1. CASE s.goal = "unknown"
    <3>1. /\ \A i \in first..n : lines[i].kind # "goal"
          /\ \A i, k \in first..n : lines[i].kind = "call" /\ lines[k].kind = "output" => lines[k].of # lines[i].n
          /\ \A i \in first..n : lines[i].kind = "call" => lines[i].n \in s.calls
      BY <1>2, <2>1 DEF ScanGoal
    <3>2. \A j \in first..n : ~Says(lines, first, j)
      <4> SUFFICES ASSUME NEW j \in first..n, Says(lines, first, j) PROVE FALSE
        OBVIOUS
      <4>1. PICK i \in first..(j - 1) : lines[i].kind = "call" /\ lines[i].n = lines[j].of /\ lines[j].kind = "output"
        BY <3>1 DEF Says
      <4>2. i \in first..n
        OBVIOUS
      <4> QED BY <3>1, <4>1, <4>2
    <3>3. TrueGoal(lines, first, n) = "unknown"
      BY <3>2, LastWord
    <3> QED BY <2>1, <3>1, <3>3
  <2>2. CASE s.goal # "unknown"
    <3>1. first \in 1..first
      OBVIOUS
    <3> QED BY <1>2, <1>4, <2>2, <3>1 DEF ScanGoal
  <2> QED BY <2>1, <2>2
<1>5. \A c \in s.calls : \E i \in first..n : lines[i].kind = "call" /\ lines[i].n = c
  BY <1>2 DEF ScanGoal
<1> QED BY <1>3, <1>4, <1>5 DEF GoalData

-----------------------------------------------------------------------------
(* The looks of the tail and its data.                                     *)

(* The first record a rebuild may reach. *)
LEMMA FloorIs ==
    ASSUME NEW lines, LinesAre(lines)
    PROVE  Floor(lines) \in 1..(Len(lines) + 1)
<1>1. Len(lines) \in Nat /\ TailScan \in Nat \ {0}
  BY RecordTypes, LimitsArePositive
<1> DEFINE n == Len(lines)
           floor == Most(0, 2 * n - TailScan)
<1>2. Floor(lines) = IF floor = 0 THEN 1 ELSE floor \div 2 + 2
  BY DEF Floor
<1> HIDE DEF n
<1>3. floor \in Nat /\ (floor = 0 \/ floor < 2 * n)
  BY <1>1 DEF Most, n
<1> HIDE DEF floor
<1>4. floor # 0 => floor \div 2 \in Nat /\ floor \div 2 < n
  BY <1>1, <1>3 DEF n
<1> QED BY <1>1, <1>2, <1>4 DEF n

(* A rebuild gives what the records from there on say. *)
LEMMA RebuiltIsRight ==
    ASSUME LinesAre(path.lines)
    PROVE  /\ Rebuilt.from \in 1..(Len(path.lines) + 1)
           /\ TailData(Rebuilt.data, path.lines, Rebuilt.from, Len(path.lines))
<1> DEFINE lines == path.lines
           first == Floor(lines)
           last == Len(lines)
           Scans(f, p) == f = [i \in p..(last + 1) |->
                                  IF i = last + 1 THEN Unscanned ELSE Scan(f[i + 1], lines[i])]
           P == {p \in first..(last + 1) : \E f : Scans(f, p)}
           state == CHOOSE f : Scans(f, first)
           Q == {p \in first..(last + 1) : ScanData(state[p], lines, p, last)}
<1>1. last \in Nat /\ first \in 1..(last + 1)
  BY RecordTypes, FloorIs
<1>2. first \in Nat \ {0} /\ first \in Int /\ last + 1 \in Int /\ first <= last + 1
  <2> HIDE DEF first, last
  <2> QED BY <1>1
<1>3. Rebuilt.from = first /\ Rebuilt.data = [messages |-> Bounded(state[first].messages),
                                              goal |-> state[first].goal, calls |-> state[first].calls]
  BY DEF Rebuilt
<1> HIDE DEF first, last, lines
<1>4. \A p \in first..(last + 1) : p \in P
  <2>1. last + 1 \in P
    <3> DEFINE f == [i \in (last + 1)..(last + 1) |-> Unscanned]
    <3>1. \A i \in (last + 1)..(last + 1) : i = last + 1
      BY <1>1
    <3>2. Scans(f, last + 1)
      BY <3>1
    <3>3. \E f1 : Scans(f1, last + 1)
      <4> HIDE DEF f, Scans
      <4> QED BY <3>2
    <3>4. last + 1 \in first..(last + 1)
      BY <1>2
    <3> HIDE DEF f, Scans
    <3> QED BY <3>3, <3>4
  <2>2. ASSUME NEW k \in first..(last + 1), first < k, k \in P PROVE k - 1 \in P
    <3>1. PICK f : Scans(f, k)
      BY <2>2
    <3> DEFINE g == [i \in (k - 1)..(last + 1) |-> IF i = k - 1 THEN Scan(f[k], lines[k - 1]) ELSE f[i]]
    <3>2. k \in Int /\ k - 1 \in first..(last + 1) /\ (k - 1) + 1 = k /\ k - 1 # last + 1 /\ k \in (k - 1)..(last + 1) /\ k # k - 1
      BY <1>1, <1>2, <2>2
    <3>3. ASSUME NEW i \in (k - 1)..(last + 1)
          PROVE  g[i] = IF i = last + 1 THEN Unscanned ELSE Scan(g[i + 1], lines[i])
      <4>1. CASE i = k - 1
        <5>1. g[i] = Scan(f[k], lines[k - 1]) /\ g[k] = f[k]
          BY <3>2, <4>1
        <5> HIDE DEF g
        <5> QED BY <3>2, <4>1, <5>1
      <4>2. CASE i # k - 1
        <5>1. i \in k..(last + 1) /\ (i # last + 1 => i + 1 \in k..(last + 1) /\ i + 1 \in (k - 1)..(last + 1) /\ i + 1 # k - 1)
          BY <1>1, <3>2, <4>2
        <5>2. g[i] = f[i] /\ (i # last + 1 => g[i + 1] = f[i + 1])
          BY <4>2, <5>1
        <5>3. f[i] = IF i = last + 1 THEN Unscanned ELSE Scan(f[i + 1], lines[i])
          BY <3>1, <5>1
        <5> HIDE DEF g
        <5> QED BY <5>2, <5>3
      <4> QED BY <4>1, <4>2
    <3>4. Scans(g, k - 1)
      BY <3>3
    <3> QED BY <3>2, <3>4
  <2> HIDE DEF P
  <2> QED BY <1>2, <2>1, <2>2, Downwards
<1>5. first \in P
  <2> HIDE DEF P
  <2> QED BY <1>1, <1>2, <1>4
<1>6. Scans(state, first)
  BY <1>5
<1> HIDE DEF state
<1>7. last + 1 \in Q
  <2>1. last + 1 \in first..(last + 1)
    BY <1>2
  <2>2. state[last + 1] = Unscanned
    BY <1>6, <2>1
  <2> QED BY <1>1, <2>1, <2>2, ScanOfNothing
<1>8. ASSUME NEW k \in first..(last + 1), first < k, k \in Q PROVE k - 1 \in Q
  <2>1. /\ k - 1 \in first..(last + 1) /\ (k - 1) + 1 = k /\ k - 1 # last + 1 /\ k - 1 \in Nat \ {0} /\ k - 1 <= last
    BY <1>1, <1>2, <1>8
  <2>2. state[k - 1] = Scan(state[k], lines[k - 1])
    BY <1>6, <2>1
  <2>3. PICK p \in Nat \ {0} : p = k - 1
    BY <2>1
  <2>4. last <= Len(lines) /\ LinesAre(lines)
    BY <1>1 DEF last, lines
  <2>5. ScanData(state[k], lines, p + 1, last)
    BY <1>8, <2>1, <2>3
  <2>6. ScanData(Scan(state[k], lines[p]), lines, p, last)
    BY <1>1, <2>1, <2>3, <2>4, <2>5, ScanKeeps
  <2> QED BY <2>1, <2>2, <2>3, <2>6
<1>9. ScanData(state[first], lines, first, last)
  <2> HIDE DEF Q
  <2>1. \A p \in first..(last + 1) : p \in Q
    BY <1>2, <1>7, <1>8, Downwards
  <2>2. first \in Q
    BY <1>2, <2>1
  <2> QED BY <2>2 DEF Q
<1>10. last <= Len(lines) /\ LinesAre(lines)
  BY <1>1 DEF last, lines
<1>11. /\ Bounded(state[first].messages) = Bounded(MessagesOf(lines, first, last))
       /\ GoalData(state[first], lines, first, last)
  BY <1>1, <1>2, <1>9, <1>10, ScanGivesData
<1>12. GoalData(Rebuilt.data, lines, first, last)
  <2>1. Rebuilt.data.goal = state[first].goal /\ Rebuilt.data.calls = state[first].calls
    BY <1>3
  <2> QED BY <1>11, <2>1 DEF GoalData
<1>13. TailData(Rebuilt.data, lines, first, last)
  <2>1. DOMAIN Rebuilt.data = {"messages", "goal", "calls"} /\ Rebuilt.data.messages = Bounded(state[first].messages)
    BY <1>3
  <2> QED BY <1>11, <1>12, <2>1 DEF TailData
<1> QED BY <1>1, <1>3, <1>13 DEF last, lines

(* The data of a catch-up on the way: its messages are not yet bounded. *)
FollowData(data, lines, first, last) ==
    /\ DOMAIN data = {"messages", "goal", "calls"}
    /\ Covers(data.messages, MessagesOf(lines, first, last))
    /\ GoalData(data, lines, first, last)

(* One record of a catch-up. *)
LEMMA FollowKeeps ==
    ASSUME NEW lines, LinesAre(lines), NEW first \in Nat \ {0}, NEW last \in Nat,
           last < Len(lines), first <= last + 1,
           NEW s, FollowData(s, lines, first, last)
    PROVE  FollowData(Follow(s, lines[last + 1]), lines, first, last + 1)
<1> DEFINE r == lines[last + 1]
           t == Follow(s, r)
           old == MessagesOf(lines, first, last)
           new == MessagesOf(lines, first, last + 1)
<1>1. Len(lines) \in Nat /\ last <= Len(lines) /\ last + 1 \in 1..Len(lines)
  <2>1. Len(lines) \in Nat
    BY RecordTypes
  <2> QED BY <2>1
<1>2. r \in Record /\ old \in Seq(Record)
  BY <1>1, RecordTypes, MessagesAre
<1>3. new = IF IsMessage(r) THEN Append(old, r) ELSE old
  BY MessagesAppend
<1>4. t.messages = (IF IsMessage(r) THEN Append(s.messages, r) ELSE s.messages) /\ DOMAIN t = {"messages", "goal", "calls"}
  BY DEF Follow
<1>5. GoalData(t, lines, first, last + 1)
  BY FollowKeepsGoal DEF FollowData
<1>6. Covers(s.messages, old)
  BY DEF FollowData
<1> HIDE DEF r, t, old, new
<1>7. Covers(t.messages, new)
  <2>1. CASE IsMessage(r)
    BY <1>2, <1>3, <1>4, <1>6, <2>1, CoversAppend
  <2>2. CASE ~IsMessage(r)
    BY <1>3, <1>4, <1>6, <2>2
  <2> QED BY <2>1, <2>2
<1> QED BY <1>4, <1>5, <1>7 DEF FollowData, t, r, new

(* A catch-up goes on from what was read. *)
LEMMA CatchUpIsRight ==
    ASSUME LinesAre(path.lines), ReadUpTo \in Nat, NEW first \in Nat \ {0}, first <= ReadUpTo + 1,
           Available \in Nat, ReadUpTo <= Available, Available <= Len(path.lines),
           TailData(cache.data, path.lines, first, ReadUpTo)
    PROVE  TailData([CatchUp EXCEPT !.messages = Bounded(@)], path.lines, first, Available)
<1> DEFINE lines == path.lines
           k == ReadUpTo
           last == Available
           Reads(f, p) == f = [i \in k..p |-> IF i = k THEN cache.data ELSE Follow(f[i - 1], lines[i])]
           P == {p \in k..last : \E f : Reads(f, p)}
           state == CHOOSE f : Reads(f, last)
           Q == {p \in k..last : FollowData(state[p], lines, first, p)}
<1>0. Len(lines) \in Nat /\ LinesAre(lines)
  BY RecordTypes
<1>1. CatchUp = state[last]
  BY DEF CatchUp
<1>2. k \in Nat /\ last \in Nat /\ k \in Int /\ last \in Int /\ k <= last /\ last <= Len(lines) /\ first <= k + 1
  OBVIOUS
<1>3. TailData(cache.data, lines, first, k)
  OBVIOUS
<1> HIDE DEF lines, k, last
<1>4. \A p \in k..last : p \in P
  <2>1. k \in P
    <3> DEFINE f == [i \in k..k |-> cache.data]
    <3>1. \A i \in k..k : i = k
      BY <1>2
    <3>2. Reads(f, k)
      BY <3>1
    <3>3. \E f1 : Reads(f1, k)
      <4> HIDE DEF f, Reads
      <4> QED BY <3>2
    <3>4. k \in k..last
      BY <1>2
    <3> HIDE DEF f, Reads
    <3> QED BY <3>3, <3>4
  <2>2. ASSUME NEW p \in k..last, p < last, p \in P PROVE p + 1 \in P
    <3>1. PICK f : Reads(f, p)
      BY <2>2
    <3> DEFINE g == [i \in k..(p + 1) |-> IF i = p + 1 THEN Follow(f[p], lines[p + 1]) ELSE f[i]]
    <3>2. p \in Int /\ p + 1 \in k..last /\ (p + 1) - 1 = p /\ p + 1 # k /\ p \in k..(p + 1) /\ p # p + 1
      BY <1>2, <2>2
    <3>3. ASSUME NEW i \in k..(p + 1)
          PROVE  g[i] = IF i = k THEN cache.data ELSE Follow(g[i - 1], lines[i])
      <4>1. CASE i = p + 1
        <5>1. g[i] = Follow(f[p], lines[p + 1]) /\ g[p] = f[p]
          BY <3>2, <4>1
        <5> HIDE DEF g
        <5> QED BY <3>2, <4>1, <5>1
      <4>2. CASE i # p + 1
        <5>1. i \in k..p /\ (i # k => i - 1 \in k..p /\ i - 1 \in k..(p + 1) /\ i - 1 # p + 1)
          BY <1>2, <3>2, <4>2
        <5>2. g[i] = f[i] /\ (i # k => g[i - 1] = f[i - 1])
          BY <4>2, <5>1
        <5>3. f[i] = IF i = k THEN cache.data ELSE Follow(f[i - 1], lines[i])
          BY <3>1, <5>1
        <5> HIDE DEF g
        <5> QED BY <5>2, <5>3
      <4> QED BY <4>1, <4>2
    <3>4. Reads(g, p + 1)
      BY <3>3
    <3> QED BY <3>2, <3>4
  <2> HIDE DEF P
  <2> QED BY <1>2, <2>1, <2>2, Upwards
<1>5. last \in P
  <2> HIDE DEF P
  <2> QED BY <1>2, <1>4
<1>6. Reads(state, last)
  BY <1>5
<1> HIDE DEF state
<1>7. k \in Q
  <2>1. k \in k..last /\ k <= Len(lines)
    BY <1>0, <1>2
  <2>2. state[k] = cache.data
    BY <1>6, <2>1
  <2>3. MessagesOf(lines, first, k) \in Seq(Record)
    BY <1>0, <1>2, <2>1, MessagesAre
  <2>4. Covers(Bounded(MessagesOf(lines, first, k)), MessagesOf(lines, first, k))
    BY <2>3, BoundedCovers
  <2>5. FollowData(cache.data, lines, first, k)
    BY <1>3, <2>4 DEF TailData, FollowData
  <2> QED BY <2>1, <2>2, <2>5
<1>8. ASSUME NEW p \in k..last, p < last, p \in Q PROVE p + 1 \in Q
  <2>1. p \in Nat /\ p + 1 \in k..last /\ p + 1 # k /\ (p + 1) - 1 = p /\ p < Len(lines) /\ first <= p + 1
    BY <1>0, <1>2, <1>8
  <2>2. state[p + 1] = Follow(state[p], lines[p + 1])
    BY <1>6, <2>1
  <2>3. FollowData(state[p], lines, first, p)
    BY <1>8
  <2>4. FollowData(Follow(state[p], lines[p + 1]), lines, first, p + 1)
    BY <1>0, <2>1, <2>3, FollowKeeps
  <2> QED BY <2>1, <2>2, <2>4
<1>9. FollowData(CatchUp, lines, first, last)
  <2> HIDE DEF Q
  <2>1. \A p \in k..last : p \in Q
    BY <1>2, <1>7, <1>8, Upwards
  <2>2. last \in Q
    BY <1>2, <2>1
  <2> QED BY <1>1, <2>2 DEF Q
<1> DEFINE data == [CatchUp EXCEPT !.messages = Bounded(@)]
<1>10. /\ DOMAIN data = {"messages", "goal", "calls"} /\ data.messages = Bounded(CatchUp.messages)
       /\ data.goal = CatchUp.goal /\ data.calls = CatchUp.calls
  BY <1>9 DEF FollowData
<1> HIDE DEF data
<1>11. MessagesOf(lines, first, last) \in Seq(Record)
  BY <1>0, <1>2, MessagesAre
<1>12. Bounded(CatchUp.messages) = Bounded(MessagesOf(lines, first, last))
  BY <1>9, <1>11, BoundedOfCovered DEF FollowData
<1>13. GoalData(data, lines, first, last)
  BY <1>9, <1>10 DEF FollowData, GoalData
<1>14. TailData(data, lines, first, last)
  BY <1>10, <1>12, <1>13 DEF TailData
<1> QED BY <1>14 DEF data, lines, last

-----------------------------------------------------------------------------
(* The tail is right.                                                      *)

(* The data of a tail says something of the records it has read alone. *)
LEMMA MessagesOfTheSame ==
    ASSUME NEW lines, LinesAre(lines), NEW more, NEW first \in Nat \ {0}, NEW last \in Nat,
           last <= Len(lines), \A i \in 1..last : more[i] = lines[i]
    PROVE  MessagesOf(more, first, last) = MessagesOf(lines, first, last)
<1> DEFINE S == MessagesIn(lines, first, last)
           at == InOrder(S)
<1>1. \A i \in first..last : i \in 1..last
  OBVIOUS
<1>2. MessagesIn(more, first, last) = S
  BY <1>1 DEF MessagesIn
<1>3. S \in SUBSET (first..last)
  BY DEF MessagesIn
<1>4. at \in Seq(S)
  <2>1. first \in Int /\ last \in Int
    OBVIOUS
  <2> HIDE DEF S
  <2> QED BY <1>3, <2>1, InOrderElements
<1>5. \A j \in DOMAIN at : at[j] \in 1..last
  <2> HIDE DEF S, at
  <2>1. \A j \in DOMAIN at : at[j] \in S
    BY <1>4
  <2>2. \A i \in S : i \in first..last
    BY <1>3
  <2> QED BY <1>1, <2>1, <2>2
<1>6. MessagesOf(lines, first, last) = [j \in DOMAIN at |-> lines[at[j]]]
  BY DEF MessagesOf, MessagesIn
<1>7. MessagesOf(more, first, last) = [j \in DOMAIN InOrder(MessagesIn(more, first, last)) |-> more[InOrder(MessagesIn(more, first, last))[j]]]
  BY DEF MessagesOf, MessagesIn
<1>8. MessagesOf(more, first, last) = [j \in DOMAIN at |-> more[at[j]]]
  BY <1>2, <1>7
<1> HIDE DEF S, at
<1> QED BY <1>5, <1>6, <1>8

(* The goal too is said by the first records alone. *)
LEMMA TrueGoalTheSame ==
    ASSUME NEW lines, NEW more, NEW first \in Nat \ {0}, NEW last \in Nat,
           \A i \in 1..last : more[i] = lines[i]
    PROVE  /\ \A i \in first..last : Says(more, first, i) <=> Says(lines, first, i)
           /\ TrueGoal(more, first, last) = TrueGoal(lines, first, last)
<1>1. \A i \in first..last : i \in 1..last /\ \A j \in first..(i - 1) : j \in 1..last
  OBVIOUS
<1>2. \A i \in first..last : more[i] = lines[i] /\ \A j \in first..(i - 1) : more[j] = lines[j]
  BY <1>1
<1>3. \A i \in first..last : Says(more, first, i) <=> Says(lines, first, i)
  BY <1>2 DEF Says
<1>4. CASE \A j \in first..last : ~Says(lines, first, j)
  <2>1. \A j \in first..last : ~Says(more, first, j)
    BY <1>3, <1>4
  <2>2. TrueGoal(lines, first, last) = "unknown"
    BY <1>4, LastWord
  <2>3. TrueGoal(more, first, last) = "unknown"
    BY <2>1, LastWord
  <2> QED BY <1>3, <2>2, <2>3
<1>5. CASE \E j \in first..last : Says(lines, first, j)
  <2>1. PICK i \in first..last : Says(lines, first, i) /\ \A j \in (i + 1)..last : ~Says(lines, first, j)
    BY <1>5, LastWord
  <2>2. \A j \in (i + 1)..last : j \in first..last
    OBVIOUS
  <2>3. Says(more, first, i) /\ \A j \in (i + 1)..last : ~Says(more, first, j)
    BY <1>3, <2>1, <2>2
  <2>4. more[i] = lines[i] /\ \A j \in (i + 1)..last : more[j] = lines[j]
    BY <1>2, <2>2
  <2>5. TrueGoal(lines, first, last) =
             IF lines[i].kind = "goal" THEN "active"
             ELSE IF \E j \in (i + 1)..last : lines[j].kind = "user" THEN "none" ELSE "complete"
    BY <2>1, GoalIs
  <2>6. TrueGoal(more, first, last) =
             IF more[i].kind = "goal" THEN "active"
             ELSE IF \E j \in (i + 1)..last : more[j].kind = "user" THEN "none" ELSE "complete"
    BY <2>3, GoalIs
  <2> QED BY <1>3, <2>4, <2>5, <2>6
<1> QED BY <1>4, <1>5

(* So is all that a tail keeps. *)
LEMMA TailDataTheSame ==
    ASSUME NEW lines, LinesAre(lines), NEW more, NEW first \in Nat \ {0}, NEW last \in Nat,
           last <= Len(lines), \A i \in 1..last : more[i] = lines[i],
           NEW data, TailData(data, lines, first, last)
    PROVE  TailData(data, more, first, last)
<1>1. \A i \in first..last : i \in 1..last /\ \A j \in (i + 1)..last : j \in first..last
  OBVIOUS
<1>2. Straddled(more, last) <=> Straddled(lines, last)
  BY DEF Straddled
<1>3. MessagesOf(more, first, last) = MessagesOf(lines, first, last)
  BY MessagesOfTheSame
<1>4. /\ \A i \in first..last : Says(more, first, i) <=> Says(lines, first, i)
      /\ TrueGoal(more, first, last) = TrueGoal(lines, first, last)
  BY TrueGoalTheSame
<1>5. GoalData(data, lines, first, last)
  BY DEF TailData
<1>6. \A i \in first..last : more[i] = lines[i]
  BY <1>1
<1>7. GoalData(data, more, first, last)
  <2>1. \A c \in data.calls : \E i \in first..last : more[i].kind = "call" /\ more[i].n = c
    BY <1>5, <1>6 DEF GoalData
  <2>2. ASSUME ~Straddled(more, last)
        PROVE  /\ data.goal = TrueGoal(more, first, last)
               /\ \A i \in first..last : more[i].kind = "call" =>
                      more[i].n \in data.calls \/ \E x \in (i + 1)..last : Says(more, first, x)
    <3>1. /\ data.goal = TrueGoal(lines, first, last)
          /\ \A i \in first..last : lines[i].kind = "call" =>
                 lines[i].n \in data.calls \/ \E x \in (i + 1)..last : Says(lines, first, x)
      BY <1>2, <1>5, <2>2 DEF GoalData
    <3> QED BY <1>1, <1>4, <1>6, <3>1
  <2> QED BY <2>1, <2>2 DEF GoalData
<1> QED BY <1>3, <1>7 DEF TailData

(* What an empty state says of no records. *)
LEMMA EmptyTailIsRight ==
    ASSUME NEW lines
    PROVE  TailData(EmptyTail, lines, 1, 0)
<1>1. PICK z \in Nat : z = 0
  OBVIOUS
<1>2. MessagesOf(lines, z + 1, z) = <<>>
  BY NoMessages
<1>3. MessagesOf(lines, 1, 0) = <<>>
  BY <1>1, <1>2
<1>4. \A j \in 1..0 : FALSE
  OBVIOUS
<1>5. TrueGoal(lines, 1, 0) = "unknown"
  <2>1. 1 \in Nat \ {0} /\ 0 \in Nat
    OBVIOUS
  <2> QED BY <1>4, <2>1, LastWord
<1>6. /\ DOMAIN EmptyTail = {"messages", "goal", "calls"} /\ EmptyTail.messages = <<>>
      /\ EmptyTail.goal = "unknown" /\ EmptyTail.calls = {}
  BY DEF EmptyTail
<1>7. GoalData(EmptyTail, lines, 1, 0)
  BY <1>4, <1>5, <1>6 DEF GoalData
<1>8. Bounded(<<>>) = <<>>
  BY BoundedOfNothing
<1> QED BY <1>3, <1>6, <1>7, <1>8 DEF TailData

(* What a tail has read is right as long as it is still there. *)
LEMMA TailStays ==
    ASSUME FileInv, CacheInv, TailInv, cache' = cache, reader' = reader, StillThere
    PROVE  TailInv'
<1> SUFFICES ASSUME reader' = "tail", Current'
             PROVE  /\ cache'.from \in 1..(cache'.offset \div 2 + 1)
                    /\ TailData(cache'.data, path'.lines, cache'.from, cache'.offset \div 2)
  BY DEF TailInv
<1> DEFINE k == cache.offset \div 2
<1>1. Current /\ k \in 0..Len(path.lines) /\ \A i \in 1..k : path'.lines[i] = path.lines[i]
  BY DEF StillThere
<1>2. cache.from \in 1..(k + 1) /\ TailData(cache.data, path.lines, cache.from, k)
  BY <1>1 DEF TailInv
<1>3. LinesAre(path.lines) /\ Len(path.lines) \in Nat
  BY CacheFacts DEF FileInv
<1> HIDE DEF k
<1>4. k \in Nat /\ k <= Len(path.lines) /\ cache.from \in Nat \ {0}
  BY <1>1, <1>2, <1>3
<1>5. TailData(cache.data, path'.lines, cache.from, k)
  BY <1>1, <1>2, <1>3, <1>4, TailDataTheSame
<1> QED BY <1>2, <1>5 DEF k

(* A rebuild, and a catch-up. *)
LEMMA TailReadIsRight ==
    ASSUME FileInv, LookInv, CacheInv, TailInv, TailReads
    PROVE  TailInv'
<1>0. /\ reader = "tail" /\ look.step = "read" /\ path' = path
      /\ cache' = IF Rebuilds \/ look.size - cache.offset > MaxCatchup THEN Rebuilt ELSE CaughtUp
  BY DEF TailReads
<1>1. /\ Available \in 0..Len(path.lines) /\ Len(path.lines) \in Nat /\ look.id \in Nat
      /\ cache.offset \div 2 \in Nat /\ ReadUpTo = cache.offset \div 2 /\ path.gen \in Nat
      /\ LinesAre(path.lines)
  BY <1>0, ReadFacts, CacheFacts DEF ReadUpTo, FileInv
<1>2. CASE Rebuilds \/ look.size - cache.offset > MaxCatchup
  <2>1. cache' = Rebuilt
    BY <1>0, <1>2
  <2>2. cache'.offset = 2 * Len(path.lines)
    BY <2>1 DEF Rebuilt
  <2>3. cache'.offset \div 2 = Len(path.lines)
    <3>1. PICK n \in Nat : n = Len(path.lines)
      BY <1>1
    <3>2. (2 * n) \div 2 = n
      OBVIOUS
    <3> QED BY <2>2, <3>1, <3>2
  <2>4. /\ Rebuilt.from \in 1..(Len(path.lines) + 1)
        /\ TailData(Rebuilt.data, path.lines, Rebuilt.from, Len(path.lines))
    BY <1>1, RebuiltIsRight
  <2> HIDE DEF Rebuilt
  <2> QED BY <1>0, <2>1, <2>3, <2>4 DEF TailInv
<1>3. CASE ~(Rebuilds \/ look.size - cache.offset > MaxCatchup) /\ Available <= ReadUpTo
  <2>1. cache' = cache
    BY <1>0, <1>3 DEF CaughtUp
  <2> QED BY <1>0, <2>1 DEF TailInv, Current
<1>4. CASE ~(Rebuilds \/ look.size - cache.offset > MaxCatchup) /\ ~(Available <= ReadUpTo)
  <2>1. cache' = CaughtUp /\ ~Rebuilds
    BY <1>0, <1>4
  <2>2. /\ Available \in Nat /\ ReadUpTo \in Nat /\ ReadUpTo < Available /\ Available <= Len(path.lines)
        /\ cache.offset \div 2 < Available
    BY <1>1, <1>4
  <2>3. cache.id = look.id /\ cache.id # -1
    <3>1. cache.id = look.id
      BY <2>1 DEF Rebuilds
    <3> QED BY <1>1, <3>1
  <2>4. /\ cache'.offset = 2 * Available /\ cache'.gen = GenFrom(cache.gen) /\ cache'.from = cache.from
        /\ cache'.data = [CatchUp EXCEPT !.messages = Bounded(@)]
    BY <1>0, <2>1, <2>2, CaughtUpIs
  <2>5. ASSUME Current' PROVE Current
    <3>1. cache'.offset # 0
      BY <2>2, <2>4
    <3>2. GenFrom(cache.gen) = path.gen
      BY <1>0, <2>4, <2>5, <3>1 DEF Current
    <3>3. cache.gen = path.gen
      BY <1>1, <3>2 DEF GenFrom
    <3> QED BY <2>3, <3>3 DEF Current
  <2>6. ASSUME Current
        PROVE  /\ cache.from \in 1..(Available + 1)
               /\ TailData([CatchUp EXCEPT !.messages = Bounded(@)], path.lines, cache.from, Available)
    <3>1. cache.from \in 1..(ReadUpTo + 1) /\ TailData(cache.data, path.lines, cache.from, ReadUpTo)
      BY <1>0, <1>1, <2>6 DEF TailInv
    <3>2. cache.from \in Nat \ {0} /\ cache.from <= ReadUpTo + 1 /\ cache.from \in 1..(Available + 1)
      BY <2>2, <3>1
    <3>3. ReadUpTo <= Available
      BY <2>2
    <3> QED BY <1>1, <2>2, <3>1, <3>2, <3>3, CatchUpIsRight
  <2>7. cache'.offset \div 2 = Available
    <3>1. PICK n \in Nat : n = Available
      BY <2>2
    <3>2. (2 * n) \div 2 = n
      OBVIOUS
    <3> QED BY <2>4, <3>1, <3>2
  <2> QED BY <1>0, <2>4, <2>5, <2>6, <2>7 DEF TailInv
<1> QED BY <1>2, <1>3, <1>4

(* A look that fails. *)
LEMMA TailFailIsRight ==
    ASSUME FileInv, TailInv, TailFails
    PROVE  TailInv'
<1>0. /\ path' = path /\ reader' = reader
      /\ \/ cache' = [id |-> look.id, offset |-> 0, gen |-> GenNow, from |-> 1, data |-> EmptyTail]
         \/ cache' = cache
  BY DEF TailFails
<1>1. CASE cache' = cache
  BY <1>0, <1>1 DEF TailInv, Current
<1>2. CASE cache' = [id |-> look.id, offset |-> 0, gen |-> GenNow, from |-> 1, data |-> EmptyTail]
  <2>1. cache'.offset = 0 /\ cache'.from = 1 /\ cache'.data = EmptyTail
    BY <1>2
  <2>2. 0 \div 2 = 0 /\ 1 \in 1..(0 + 1)
    OBVIOUS
  <2>3. TailData(EmptyTail, path.lines, 1, 0)
    BY EmptyTailIsRight
  <2> QED BY <1>0, <2>1, <2>2, <2>3 DEF TailInv
<1> QED BY <1>0, <1>1, <1>2

(* Every step keeps it. *)
LEMMA TailStep == IndexReadersInv /\ TailInv /\ [RolloutNext]_rolloutVars => TailInv'
<1> SUFFICES ASSUME IndexReadersInv, TailInv, [RolloutNext]_rolloutVars PROVE TailInv'
  OBVIOUS
<1> USE DEF IndexReadersInv
<1>1. CASE WritesPart
  <2>1. cache' = cache /\ reader' = reader
    BY <1>1 DEF WritesPart
  <2> QED BY <1>1, <2>1, WritesPartKeeps, TailStays
<1>2. ASSUME NEW kind \in KindsOf[reader], WritesRecord(kind) PROVE TailInv'
  <2>1. cache' = cache /\ reader' = reader
    BY <1>2 DEF WritesRecord
  <2> QED BY <1>2, <2>1, WritesRecordKeeps, TailStays
<1>3. CASE Replaces
  <2>1. cache' = cache /\ reader' = reader
    BY <1>3 DEF Replaces
  <2> QED BY <1>3, <2>1, ReplacesKeeps, TailStays
<1>4. ASSUME NEW k \in 0..(MaxWritten - 1), Cuts(k) PROVE TailInv'
  <2>1. cache' = cache /\ reader' = reader
    BY <1>4 DEF Cuts
  <2>2. k \in Nat
    BY LimitsArePositive
  <2> QED BY <1>4, <2>1, <2>2, CutsKeeps, TailStays
<1>5. CASE Evicts
  BY <1>5, EvictsKeeps DEF TailInv
<1>6. ASSUME cache' = cache, path' = path, reader' = reader PROVE TailInv'
  BY <1>6 DEF TailInv, Current
<1>7. ASSUME reader' # "tail" PROVE TailInv'
  BY <1>7 DEF TailInv
<1>8. ASSUME NEW ask, Looks(ask) PROVE TailInv'
  BY <1>6, <1>8 DEF Looks
<1>9. CASE TailReads
  BY <1>9, TailReadIsRight
<1>10. CASE TailFails
  BY <1>10, TailFailIsRight
<1>11. CASE ActivityReads
  BY <1>7, <1>11 DEF ActivityReads
<1>12. ASSUME NEW last, ActivityFails(last) PROVE TailInv'
  BY <1>7, <1>12 DEF ActivityFails
<1>13. CASE IndexReads
  BY <1>7, <1>13 DEF IndexReads
<1>14. ASSUME NEW last, IndexFails(last) PROVE TailInv'
  BY <1>7, <1>14 DEF IndexFails
<1>15. CASE Serves
  BY <1>6, <1>15 DEF Serves
<1>16. ASSUME NEW ask, WebServes(ask) PROVE TailInv'
  BY <1>6, <1>16 DEF WebServes
<1>17. CASE UNCHANGED rolloutVars
  BY <1>6, <1>17 DEF rolloutVars
<1> QED BY <1>1, <1>2, <1>3, <1>4, <1>5, <1>8, <1>9, <1>10, <1>11, <1>12, <1>13, <1>14, <1>15, <1>16, <1>17
        DEF RolloutNext, AsksPage

(* After a look during which the file was still, the transcript has the    *)
(* messages and the goal of the whole file: codex_rollout_state's          *)
(* catch-ups and its backward rebuilds come to the same, whatever the      *)
(* file, its cuts, its replacements and the failed reads made it start     *)
(* from.                                                                   *)
THEOREM TailIsTrue == RolloutSpec => []TailIsRight
<1>1. RolloutInit => TailInv
  <2> SUFFICES ASSUME RolloutInit PROVE TailInv
    OBVIOUS
  <2>1. cache.id = -1
    BY DEF RolloutInit, NoCache
  <2> QED BY <2>1 DEF TailInv, Current
<1>2. RolloutSpec => []TailInv
  BY <1>1, TailStep, ReadersFitTheirFile, PTL DEF RolloutSpec
<1>3. IndexReadersInv /\ TailInv => TailIsRight
  <2> SUFFICES ASSUME IndexReadersInv, TailInv, reader = "tail", still, blurred = {}
               PROVE  /\ Whole
                      /\ cache.data.messages = Bounded(MessagesOf(path.lines, cache.from, Len(path.lines)))
                      /\ \/ Straddled(path.lines, Len(path.lines))
                         \/ cache.data.goal = TrueGoal(path.lines, cache.from, Len(path.lines))
    BY DEF TailIsRight
  <2>1. Whole
    BY DEF IndexReadersInv, CacheInv
  <2>2. cache.gen = path.gen /\ cache.offset = 2 * Len(path.lines)
    BY <2>1 DEF Whole
  <2>3. cache.gen # -1
    BY <2>2, CacheFacts DEF IndexReadersInv
  <2>4. cache.id # -1
    BY <2>3 DEF IndexReadersInv, CacheInv, NoCache
  <2>5. Current
    BY <2>2, <2>4 DEF Current
  <2>6. cache.offset \div 2 = Len(path.lines)
    <3>1. PICK n \in Nat : n = Len(path.lines)
      BY CacheFacts DEF IndexReadersInv
    <3>2. (2 * n) \div 2 = n
      OBVIOUS
    <3> QED BY <2>2, <3>1, <3>2
  <2>7. TailData(cache.data, path.lines, cache.from, Len(path.lines))
    BY <2>5, <2>6 DEF TailInv
  <2> QED BY <2>1, <2>7 DEF TailData, GoalData
<1> QED BY <1>2, <1>3, ReadersFitTheirFile, PTL

-----------------------------------------------------------------------------
(* The pages of a conversation.                                            *)

(* A revision of the present content of the file: a state that has met a   *)
(* cut carries the generation it was reset at.                             *)
PresentRev(rev) == rev[1] = path.id /\ (path.cut => rev[2] = path.gen)

CursorIs(cursor) ==
    \/ cursor = NoCursor
    \/ DOMAIN cursor = {"rev", "before"} /\ cursor.before \in Nat \ {0}

AskIs(ask) ==
    /\ CursorIs(ask.cursor)
    /\ ask.around \in Int
    /\ ask.around >= 0 => ask.cursor = NoCursor

(* What the browser holds: the cursor for older turns is that of its first *)
(* turn.                                                                   *)
HeldInv ==
    /\ DOMAIN held = {"rev", "total", "turns", "older"}
    /\ held.total \in Nat
    /\ held.rev = <<>> => held.turns = <<>> /\ held.older = NoCursor
    /\ \A i \in DOMAIN held.turns : i \in Nat \ {0}
    /\ CursorIs(held.older)
    /\ held.older # NoCursor =>
           /\ held.older.before + 1 \in DOMAIN held.turns
           /\ \A i \in DOMAIN held.turns : held.older.before < i

(* A look of the index: its copy is that of the cache, and what it has     *)
(* seen of the file is no older than the cache and the pages.              *)
PageLookInv ==
    /\ look.step = "page" =>
           /\ reader = "index"
           /\ {"ask", "gen", "offset", "rev", "turns"} \subseteq DOMAIN look
           /\ cache.id # -1
           /\ look.gen = cache.gen /\ look.offset = cache.offset
           /\ look.rev = cache.data.rev /\ look.turns = cache.data.turns
    /\ look.step = "read" => {"ask"} \subseteq DOMAIN look
    /\ look.step # "none" => AskIs(look.ask)
    /\ reader = "web" => look.step = "none"
    /\ reader = "index" /\ look.step = "read" =>
           /\ cache.id <= look.id
           /\ cache.gen = path.gen => cache.offset <= look.size /\ look.id = path.id
           /\ held.rev # <<>> => held.rev[1] <= look.id

(* The revisions of the index and of the pages. *)
RevInv ==
    reader = "index" =>
        /\ cache.id # -1 =>
               /\ cache.data.rev \in Nat \X Nat
               /\ cache.data.rev[1] = cache.id /\ cache.data.rev[2] <= path.gen
               /\ cache.data.turns \in Seq(Seq(Nat))
        /\ held.rev # <<>> =>
               held.rev \in Nat \X Nat /\ held.rev[1] <= path.id /\ held.rev[2] <= path.gen
        /\ blurred = {} =>
               /\ path.cut => cache.id = path.id
               /\ cache.id # -1 => (PresentRev(cache.data.rev) <=> cache.gen = path.gen)
               /\ cache.id # -1 /\ cache.gen # path.gen /\ held.rev # <<>> => ~PresentRev(held.rev)

(* The records of a turn. *)
Text(lines, turn) == [j \in 1..Len(turn) |-> lines[turn[j]].n]

(* Pages of the present content are those of the file. *)
HeldRight(lines, turns) ==
    \A i \in DOMAIN turns :
        /\ i \in 1..Len(TurnsOf(lines, Len(lines)))
        /\ turns[i] \in Seq(Nat)
        /\ IsPrefix(turns[i], Text(lines, TurnsOf(lines, Len(lines))[i]))

PagesInv ==
    /\ reader = "index" /\ blurred = {} /\ ~spoiled /\ held.rev # <<>> /\ PresentRev(held.rev) =>
           HeldRight(path.lines, held.turns)
    /\ reader = "web" =>
           \A i \in DOMAIN held.turns : i <= Len(held.rev) /\ held.turns[i] = held.rev[i]

(* All numbers up to one, in order. *)
LEMMA InOrderOfAll ==
    ASSUME NEW n \in Nat
    PROVE  InOrder(1..n) = [j \in 1..n |-> j]
<1> DEFINE All(k) == [j \in 1..k |-> j]
           P == {k \in 0..n : InOrder(1..k) = All(k)}
<1>1. 0 \in P
  <2>1. 1..0 = {}
    OBVIOUS
  <2>2. All(0) = <<>>
    OBVIOUS
  <2>3. InOrder(1..0) = All(0)
    BY <2>1, <2>2, InOrderOfNothing
  <2> QED BY <2>3
<1>2. ASSUME NEW k \in 0..n, k < n, k \in P PROVE k + 1 \in P
  <2>1. k \in Nat /\ k + 1 \in 0..n /\ 1 \in Nat
    BY <1>2
  <2>2. 1..(k + 1) = (1..k) \cup {k + 1}
    BY <2>1
  <2>3. 1..k \in SUBSET (1..k)
    OBVIOUS
  <2>4. InOrder((1..k) \cup {k + 1}) = Append(InOrder(1..k), k + 1)
    BY <2>1, <2>3, LastInOrder
  <2>5. Append(All(k), k + 1) = All(k + 1)
    BY <2>1
  <2> QED BY <1>2, <2>1, <2>2, <2>4, <2>5
<1>3. \A k \in 0..n : k \in P
  <2>1. 0 \in Int /\ n \in Int
    OBVIOUS
  <2> HIDE DEF P
  <2> QED BY <1>1, <1>2, <2>1, Upwards
<1>4. n \in 0..n
  OBVIOUS
<1> QED BY <1>3, <1>4

(* Prefixes of sequences. *)
LEMMA PrefixIs ==
    ASSUME NEW S, NEW s \in Seq(S), NEW t \in Seq(S)
    PROVE  IsPrefix(s, t) <=> Len(s) <= Len(t) /\ \A i \in 1..Len(s) : s[i] = t[i]
<1>1. Len(s) \in Nat /\ Len(t) \in Nat
  OBVIOUS
<1>2. ASSUME Len(s) <= Len(t)
      PROVE  /\ SubSeq(s, 1, Len(s)) = [i \in 1..Len(s) |-> s[i]]
             /\ SubSeq(t, 1, Len(s)) = [i \in 1..Len(s) |-> t[i]]
  <2>1. \A u \in Seq(S) : Len(s) <= Len(u) => SubSeq(u, 1, Len(s)) = [i \in 1..Len(s) |-> u[i]]
    <3> TAKE u \in Seq(S)
    <3> HAVE Len(s) <= Len(u)
    <3> DEFINE v == SubSeq(u, 1, Len(s))
               w == [i \in 1..Len(s) |-> u[i]]
    <3>1. \A i \in 1..Len(s) : u[i] \in S
      OBVIOUS
    <3>2. w \in [1..Len(s) -> S]
      BY <3>1
    <3>3. w \in Seq(S) /\ Len(w) = Len(s)
      <4> HIDE DEF w
      <4> QED BY <1>1, <3>2, FunctionIsSeq
    <3>4. v \in Seq(S) /\ Len(v) = Len(s) /\ \A i \in 1..Len(s) : v[i] = u[i]
      BY <1>1
    <3>5. \A i \in 1..Len(v) : v[i] = w[i]
      BY <3>4
    <3> HIDE DEF v, w
    <3>6. v = w
      BY <3>3, <3>4, <3>5, SeqEqual
    <3> QED BY <3>6 DEF v, w
  <2> QED BY <1>1, <1>2, <2>1
<1>3. ASSUME IsPrefix(s, t) PROVE Len(s) <= Len(t) /\ \A i \in 1..Len(s) : s[i] = t[i]
  <2>1. Len(s) <= Len(t) /\ SubSeq(s, 1, Len(s)) = SubSeq(t, 1, Len(s))
    BY <1>3 DEF IsPrefix
  <2>2. [i \in 1..Len(s) |-> s[i]] = [i \in 1..Len(s) |-> t[i]]
    BY <1>2, <2>1
  <2>3. ASSUME NEW i \in 1..Len(s) PROVE s[i] = t[i]
    <3>1. [j \in 1..Len(s) |-> s[j]][i] = s[i] /\ [j \in 1..Len(s) |-> t[j]][i] = t[i]
      OBVIOUS
    <3> QED BY <2>2, <3>1
  <2> QED BY <2>1, <2>3
<1>4. ASSUME Len(s) <= Len(t), \A i \in 1..Len(s) : s[i] = t[i] PROVE IsPrefix(s, t)
  <2>1. [i \in 1..Len(s) |-> s[i]] = [i \in 1..Len(s) |-> t[i]]
    BY <1>4
  <2> QED BY <1>2, <1>4, <2>1 DEF IsPrefix
<1> QED BY <1>3, <1>4

(* A prefix of a prefix is one. *)
LEMMA PrefixesChain ==
    ASSUME NEW S, NEW s \in Seq(S), NEW t \in Seq(S), NEW u \in Seq(S), IsPrefix(s, t), IsPrefix(t, u)
    PROVE  IsPrefix(s, u)
<1>1. Len(s) \in Nat /\ Len(t) \in Nat /\ Len(u) \in Nat
  OBVIOUS
<1>2. Len(s) <= Len(t) /\ \A i \in 1..Len(s) : s[i] = t[i]
  BY PrefixIs
<1>3. Len(t) <= Len(u) /\ \A i \in 1..Len(t) : t[i] = u[i]
  BY PrefixIs
<1>4. \A i \in 1..Len(s) : i \in 1..Len(t)
  BY <1>1, <1>2
<1>5. Len(s) <= Len(u) /\ \A i \in 1..Len(s) : s[i] = u[i]
  BY <1>1, <1>2, <1>3, <1>4
<1> QED BY <1>5, PrefixIs

-----------------------------------------------------------------------------
(* The texts of turns.                                                     *)

(* The positions of a turn are those of messages that are there. *)
LEMMA TurnsAreOfMessages ==
    ASSUME NEW lines, LinesAre(lines), NEW last \in Nat, last <= Len(lines),
           NEW k \in 1..Len(TurnsOf(lines, last))
    PROVE  LET turn == TurnsOf(lines, last)[k]
           IN  /\ turn \in Seq(1..last) /\ Len(turn) \in Nat
               /\ \A j \in 1..Len(turn) : turn[j] \in 1..last /\ turn[j] <= Len(lines) /\ IsMessage(lines[turn[j]])
               /\ Text(lines, turn) \in Seq(Nat) /\ Len(Text(lines, turn)) = Len(turn)
<1> DEFINE S == InTurn(lines, last, k)
           turn == TurnsOf(lines, last)[k]
<1>1. turn = InOrder(S)
  BY TurnsAreSeqs
<1>2. S \in SUBSET (1..last)
  BY DEF InTurn
<1>3. turn \in Seq(S)
  <2>1. 1 \in Int /\ last \in Int
    OBVIOUS
  <2> HIDE DEF S
  <2> QED BY <1>1, <1>2, <2>1, InOrderElements
<1>4. \A i \in S : IsMessage(lines[i])
  BY DEF InTurn
<1> HIDE DEF turn, S
<1>5. turn \in Seq(1..last) /\ Len(turn) \in Nat
  <2> DEFINE V == 1..last
  <2>1. S \subseteq V
    BY <1>2
  <2> HIDE DEF V
  <2>2. turn \in Seq(V)
    BY <1>3, <2>1, SeqMonotonic
  <2>3. Len(turn) \in Nat
    BY <1>3
  <2> QED BY <2>2, <2>3 DEF V
<1>6. Len(lines) \in Nat /\ \A i \in 1..Len(lines) : lines[i].n \in Nat
  BY RecordTypes
<1>7. \A j \in 1..Len(turn) : turn[j] \in S
  BY <1>3
<1>8. \A j \in 1..Len(turn) : turn[j] \in 1..last /\ turn[j] <= Len(lines) /\ turn[j] \in 1..Len(lines) /\ IsMessage(lines[turn[j]])
  <2>1. \A i \in 1..last : i <= Len(lines) /\ i \in 1..Len(lines)
    BY <1>6
  <2>2. \A i \in S : i \in 1..last
    BY <1>2
  <2> QED BY <1>4, <1>7, <2>1, <2>2
<1>9. Text(lines, turn) \in [1..Len(turn) -> Nat]
  BY <1>6, <1>8 DEF Text
<1>10. Text(lines, turn) \in Seq(Nat) /\ Len(Text(lines, turn)) = Len(turn)
  BY <1>5, <1>9, FunctionIsSeq
<1> QED BY <1>5, <1>8, <1>10 DEF turn

(* Nothing of such a turn is passed over. *)
LEMMA TextIs ==
    ASSUME LinesAre(path.lines), NEW last \in Nat, last <= Len(path.lines),
           NEW k \in 1..Len(TurnsOf(path.lines, last))
    PROVE  TextOf(TurnsOf(path.lines, last)[k]) = Text(path.lines, TurnsOf(path.lines, last)[k])
<1> DEFINE turn == TurnsOf(path.lines, last)[k]
           S == {j \in DOMAIN turn : turn[j] <= Len(path.lines) /\ IsMessage(path.lines[turn[j]])}
<1>1. /\ turn \in Seq(1..last) /\ Len(turn) \in Nat
      /\ \A j \in 1..Len(turn) : turn[j] <= Len(path.lines) /\ IsMessage(path.lines[turn[j]])
  BY TurnsAreOfMessages
<1>2. TextOf(turn) = [j \in DOMAIN InOrder(S) |-> path.lines[turn[InOrder(S)[j]]].n]
  BY DEF TextOf
<1>3. DOMAIN turn = 1..Len(turn)
  <2> HIDE DEF turn
  <2> QED BY <1>1
<1>4. S = 1..Len(turn)
  BY <1>1, <1>3
<1> HIDE DEF turn, S
<1>5. InOrder(S) = [j \in 1..Len(turn) |-> j]
  BY <1>1, <1>4, InOrderOfAll
<1>6. TextOf(turn) = [j \in 1..Len(turn) |-> path.lines[turn[j]].n]
  BY <1>2, <1>5
<1> QED BY <1>6 DEF Text, turn

(* A sequence that begins with another. *)
Extends(new, old) == Len(old) <= Len(new) /\ \A j \in 1..Len(old) : new[j] = old[j]

(* A further record leaves every turn as it is, or at the front of what it *)
(* becomes.                                                                *)
LEMMA TurnGrowsStep ==
    ASSUME NEW lines, NEW last \in Nat, NEW k \in 1..Len(TurnsOf(lines, last))
    PROVE  /\ k \in 1..Len(TurnsOf(lines, last + 1))
           /\ Extends(TurnsOf(lines, last + 1)[k], TurnsOf(lines, last)[k])
<1> DEFINE S == InTurn(lines, last, k)
           T == InTurn(lines, last + 1, k)
           old == TurnsOf(lines, last)[k]
           new == TurnsOf(lines, last + 1)[k]
<1>1. last + 1 \in Nat /\ last \in 0..(last + 1)
  OBVIOUS
<1>2. Len(TurnsOf(lines, last)) <= Len(TurnsOf(lines, last + 1)) /\ Len(TurnsOf(lines, last + 1)) \in Nat /\ Len(TurnsOf(lines, last)) \in Nat
  <2>1. Cardinality(Questions(lines, last)) <= Cardinality(Questions(lines, last + 1))
    BY <1>1, QuestionsOnlyGrow
  <2> QED BY <1>1, <2>1, TurnsAreSeqs, QuestionsAreCounted
<1>3. k \in 1..Len(TurnsOf(lines, last + 1))
  BY <1>2
<1>4. old = InOrder(S) /\ new = InOrder(T)
  BY <1>1, <1>3, TurnsAreSeqs
<1>5. 1..(last + 1) = (1..last) \cup {last + 1}
  BY <1>1
<1>6. T = S \/ T = S \cup {last + 1}
  BY <1>5 DEF InTurn
<1>7. S \in SUBSET (1..last)
  BY DEF InTurn
<1>8. old \in Seq(S)
  <2>1. 1 \in Int /\ last \in Int
    OBVIOUS
  <2> HIDE DEF S
  <2> QED BY <1>4, <1>7, <2>1, InOrderElements
<1>9. T = S \cup {last + 1} => new = Append(old, last + 1)
  <2>1. 1 \in Nat
    OBVIOUS
  <2> HIDE DEF S, T, old, new
  <2> QED BY <1>4, <1>7, <2>1, LastInOrder
<1> HIDE DEF S, T, old, new
<1>10. Len(old) <= Len(new) /\ \A j \in 1..Len(old) : new[j] = old[j]
  <2>1. CASE T = S
    <3>1. new = old /\ Len(old) \in Nat
      BY <1>4, <1>8, <2>1
    <3> QED BY <3>1
  <2>2. CASE T = S \cup {last + 1}
    BY <1>8, <1>9, <2>2
  <2> QED BY <1>6, <2>1, <2>2
<1> QED BY <1>3, <1>10 DEF Extends, old, new

(* So do further records. *)
LEMMA TextsGrow ==
    ASSUME NEW lines, LinesAre(lines), NEW first \in Nat, NEW last \in Nat, first <= last, last <= Len(lines),
           NEW k \in 1..Len(TurnsOf(lines, first))
    PROVE  /\ k \in 1..Len(TurnsOf(lines, last))
           /\ Text(lines, TurnsOf(lines, last)[k]) \in Seq(Nat)
           /\ IsPrefix(Text(lines, TurnsOf(lines, first)[k]), Text(lines, TurnsOf(lines, last)[k]))
<1> DEFINE Turn(i) == TurnsOf(lines, i)[k]
           P == {i \in first..last : /\ k \in 1..Len(TurnsOf(lines, i))
                                     /\ IsPrefix(Text(lines, Turn(first)), Text(lines, Turn(i)))}
<1>0. Len(lines) \in Nat /\ first <= Len(lines)
  BY RecordTypes
<1>1. ASSUME NEW i \in first..last, k \in 1..Len(TurnsOf(lines, i))
      PROVE  /\ Turn(i) \in Seq(1..i) /\ Len(Turn(i)) \in Nat
             /\ Text(lines, Turn(i)) \in Seq(Nat) /\ Len(Text(lines, Turn(i))) = Len(Turn(i))
  <2>1. i \in Nat /\ i <= Len(lines)
    BY <1>0, <1>1
  <2> QED BY <1>1, <2>1, TurnsAreOfMessages
<1>2. first \in P
  <2>1. first \in first..last
    OBVIOUS
  <2>2. Text(lines, Turn(first)) \in Seq(Nat)
    BY <1>1, <2>1
  <2>3. IsPrefix(Text(lines, Turn(first)), Text(lines, Turn(first)))
    <3> DEFINE t == Text(lines, Turn(first))
    <3>1. t \in Seq(Nat)
      BY <2>2
    <3> HIDE DEF t
    <3>2. Len(t) <= Len(t)
      BY <3>1
    <3>3. IsPrefix(t, t)
      BY <3>1, <3>2, PrefixIs
    <3> QED BY <3>3 DEF t
  <2> QED BY <2>1, <2>3
<1>3. ASSUME NEW i \in first..last, i < last, i \in P PROVE i + 1 \in P
  <2>1. i \in Nat /\ i + 1 \in first..last /\ first \in first..last
    BY <1>3
  <2>2. k \in 1..Len(TurnsOf(lines, i)) /\ IsPrefix(Text(lines, Turn(first)), Text(lines, Turn(i)))
    BY <1>3
  <2>3. /\ k \in 1..Len(TurnsOf(lines, i + 1))
        /\ Extends(Turn(i + 1), Turn(i))
    <3>1. PICK n \in Nat : n = i
      BY <2>1
    <3>2. k \in 1..Len(TurnsOf(lines, n))
      BY <2>2, <3>1
    <3>3. /\ k \in 1..Len(TurnsOf(lines, n + 1))
          /\ Extends(TurnsOf(lines, n + 1)[k], TurnsOf(lines, n)[k])
      BY <3>2, TurnGrowsStep
    <3> QED BY <3>1, <3>3
  <2>4. /\ Text(lines, Turn(i)) \in Seq(Nat) /\ Len(Text(lines, Turn(i))) = Len(Turn(i))
        /\ Len(Turn(i)) \in Nat
    BY <1>1, <2>2
  <2>5. /\ Text(lines, Turn(i + 1)) \in Seq(Nat) /\ Len(Text(lines, Turn(i + 1))) = Len(Turn(i + 1))
        /\ Len(Turn(i + 1)) \in Nat
    BY <1>1, <2>1, <2>3
  <2>6. Text(lines, Turn(first)) \in Seq(Nat)
    BY <1>1, <2>1
  <2>7. \A j \in 1..Len(Turn(i)) : Text(lines, Turn(i))[j] = Text(lines, Turn(i + 1))[j]
    <3> DEFINE s == Turn(i)
               t == Turn(i + 1)
    <3>1. \A j \in 1..Len(s) : t[j] = s[j] /\ j \in 1..Len(t)
      BY <2>3, <2>4, <2>5 DEF Extends
    <3> HIDE DEF s, t
    <3>2. \A j \in 1..Len(s) : Text(lines, s)[j] = Text(lines, t)[j]
      BY <3>1 DEF Text
    <3> QED BY <3>2 DEF s, t
  <2>8. IsPrefix(Text(lines, Turn(i)), Text(lines, Turn(i + 1)))
    <3> HIDE DEF Turn
    <3> QED BY <2>3, <2>4, <2>5, <2>7, PrefixIs DEF Extends
  <2>9. IsPrefix(Text(lines, Turn(first)), Text(lines, Turn(i + 1)))
    <3> HIDE DEF Turn
    <3> QED BY <2>2, <2>4, <2>5, <2>6, <2>8, PrefixesChain
  <2> QED BY <2>1, <2>3, <2>9
<1>4. last \in P
  <2>1. first \in Int /\ last \in Int /\ last \in first..last
    OBVIOUS
  <2> HIDE DEF P
  <2>2. \A i \in first..last : i \in P
    BY <1>2, <1>3, <2>1, Upwards
  <2> QED BY <2>1, <2>2
<1>5. last \in first..last
  OBVIOUS
<1> QED BY <1>1, <1>4, <1>5

-----------------------------------------------------------------------------
(* Windows and pages.                                                      *)

(* A window lies in the conversation and holds the turn asked for. *)
WindowIn(w, ask, total) ==
    /\ w.start \in Nat /\ w.end \in Nat
    /\ w.start <= w.end /\ w.end <= total
    /\ w.start > 0 => w.start < w.end
    /\ ask.around >= 0 => w.start <= ask.around /\ ask.around < w.end

(* The window that is asked for is one. *)
LEMMA WindowIs ==
    ASSUME NEW ask, AskIs(ask), NEW total \in Nat, ~(ask.around >= total)
    PROVE  WindowIn(Window(ask, total), ask, total)
<1> DEFINE half == PageLimit \div 2
           around == Most(0, ask.around - half)
           end == CASE ask.around >= 0 -> Least(total, around + PageLimit)
                    [] ask.around < 0 /\ ask.cursor = NoCursor -> total
                    [] OTHER -> Least(total, ask.cursor.before)
           w == Window(ask, total)
<1>1. PageLimit \in Nat \ {0}
  BY LimitsArePositive
<1>2. half \in Nat /\ half < PageLimit
  BY <1>1
<1>3. w.start = Most(0, end - PageLimit) /\ w.end = end
  BY DEF Window
<1>4. ask.around \in Int
  BY DEF AskIs
<1> HIDE DEF half, w
<1>5. /\ end \in Nat /\ end <= total
      /\ ask.around >= 0 => ask.around < end /\ end - PageLimit <= ask.around
  <2>1. CASE ask.around >= 0
    <3> HIDE DEF around
    <3>1. end = Least(total, around + PageLimit)
      BY <1>4, <2>1
    <3> HIDE DEF end
    <3> USE DEF around
    <3>2. around \in Nat /\ around <= ask.around /\ ask.around < around + PageLimit
      BY <1>1, <1>2, <1>4, <2>1 DEF Most
    <3> HIDE DEF around
    <3>3. ask.around < total /\ total \in Nat
      BY <1>4
    <3> QED BY <1>1, <1>4, <2>1, <3>1, <3>2, <3>3 DEF Least
  <2>2. CASE ~(ask.around >= 0) /\ ask.cursor = NoCursor
    BY <1>4, <2>2
  <2>3. CASE ~(ask.around >= 0) /\ ask.cursor # NoCursor
    <3>1. end = Least(total, ask.cursor.before)
      BY <2>3
    <3>2. ask.cursor.before \in Nat
      BY <2>3 DEF AskIs, CursorIs
    <3> HIDE DEF end
    <3> QED BY <2>3, <3>1, <3>2 DEF Least
  <2> QED BY <2>1, <2>2, <2>3
<1> HIDE DEF end
<1>6. /\ w.start \in Nat /\ w.start <= end /\ w.end = end /\ (w.start > 0 => w.start < end)
      /\ ask.around >= 0 => w.start <= ask.around
  <2>1. CASE 0 > end - PageLimit
    <3>1. w.start = 0
      BY <1>3, <2>1 DEF Most
    <3> QED BY <1>3, <1>4, <1>5, <3>1
  <2>2. CASE ~(0 > end - PageLimit)
    <3>1. w.start = end - PageLimit
      BY <1>3, <2>2 DEF Most
    <3> QED BY <1>1, <1>3, <1>4, <1>5, <2>2, <3>1
  <2> QED BY <2>1, <2>2
<1> QED BY <1>5, <1>6 DEF WindowIn, w

(* And so is what is left of it without a turn at its end. *)
LEMMA DropKeeps ==
    ASSUME NEW ask, AskIs(ask), NEW total \in Nat, NEW turns,
           NEW w, w = [start |-> w.start, end |-> w.end], WindowIn(w, ask, total), w.end - w.start > 1
    PROVE  LET d == Drop(turns, w, ask)
           IN  WindowIn(d, ask, total) /\ d = [start |-> d.start, end |-> d.end]
<1> DEFINE d == Drop(turns, w, ask)
           old == ask.around < 0 \/ ask.around - w.start >= w.end - 1 - ask.around
<1>1. /\ ask.around \in Int /\ w.start \in Nat /\ w.end \in Nat /\ w.end <= total
      /\ ask.around >= 0 => w.start <= ask.around /\ ask.around < w.end
  BY DEF AskIs, WindowIn
<1>2. CASE old
  <2>1. d = [start |-> w.start + 1, end |-> w.end]
    BY <1>2 DEF Drop
  <2>2. d.start = w.start + 1 /\ d.end = w.end
    BY <2>1
  <2> HIDE DEF d
  <2>3. WindowIn(d, ask, total)
    BY <1>1, <1>2, <2>2 DEF WindowIn
  <2> QED BY <2>1, <2>2, <2>3 DEF d
<1>3. CASE ~old
  <2>1. d = [start |-> w.start, end |-> w.end - 1]
    BY <1>3 DEF Drop
  <2>2. d.start = w.start /\ d.end = w.end - 1
    BY <2>1
  <2> HIDE DEF d
  <2>3. WindowIn(d, ask, total)
    BY <1>1, <1>3, <2>2 DEF WindowIn
  <2> QED BY <2>1, <2>2, <2>3 DEF d
<1> QED BY <1>2, <1>3

(* However heavy its turns are, a page keeps the turn asked for. *)
LEMMA TrimKeeps ==
    ASSUME NEW ask, AskIs(ask), NEW turns, Len(turns) \in Nat, ~OutOfRange(ask, turns)
    PROVE  WindowIn(Trim(turns, ask), ask, Len(turns))
<1> DEFINE total == Len(turns)
           Fit(w) == IF w.end - w.start > 1 /\ Weight(turns, w) > PageBudget THEN Drop(turns, w, ask) ELSE w
           Trims(f, p) == f = [k \in 0..p |-> Fit(IF k = 0 THEN Window(ask, total) ELSE f[k - 1])]
           trimmed == CHOOSE f : Trims(f, PageLimit)
           P == {p \in 0..PageLimit : \E f : Trims(f, p)}
           Good(w) == WindowIn(w, ask, total) /\ w = [start |-> w.start, end |-> w.end]
           Q == {p \in 0..PageLimit : Good(trimmed[p])}
<1>1. PageLimit \in Nat /\ 0 \in Int /\ PageLimit \in Int
  BY LimitsArePositive
<1>2. Trim(turns, ask) = trimmed[PageLimit]
  BY DEF Trim
<1>3. Good(Window(ask, total))
  <2>1. ~(ask.around >= total)
    BY DEF OutOfRange
  <2>2. Window(ask, total) = [start |-> Window(ask, total).start, end |-> Window(ask, total).end]
    BY DEF Window
  <2> QED BY <2>1, <2>2, WindowIs
<1>4. ASSUME NEW w, Good(w) PROVE Good(Fit(w))
  <2>1. CASE w.end - w.start > 1 /\ Weight(turns, w) > PageBudget
    <3>1. Fit(w) = Drop(turns, w, ask)
      BY <2>1
    <3> QED BY <1>4, <2>1, <3>1, DropKeeps
  <2>2. CASE ~(w.end - w.start > 1 /\ Weight(turns, w) > PageBudget)
    BY <1>4, <2>2
  <2> QED BY <2>1, <2>2
<1> HIDE DEF Fit, Good
<1>5. \A p \in 0..PageLimit : p \in P
  <2>1. 0 \in P
    <3> DEFINE f == [k \in 0..0 |-> Fit(Window(ask, total))]
    <3>1. \A k \in 0..0 : k = 0
      OBVIOUS
    <3>2. Trims(f, 0)
      BY <3>1
    <3>3. \E f1 : Trims(f1, 0)
      <4> HIDE DEF f, Trims
      <4> QED BY <3>2
    <3>4. 0 \in 0..PageLimit
      BY <1>1
    <3> HIDE DEF f, Trims
    <3> QED BY <3>3, <3>4
  <2>2. ASSUME NEW p \in 0..PageLimit, p < PageLimit, p \in P PROVE p + 1 \in P
    <3>1. PICK f : Trims(f, p)
      BY <2>2
    <3> DEFINE g == [k \in 0..(p + 1) |-> IF k = p + 1 THEN Fit(f[p]) ELSE f[k]]
    <3>2. p \in Nat /\ p + 1 \in 0..PageLimit /\ (p + 1) - 1 = p /\ p + 1 # 0 /\ p \in 0..(p + 1) /\ p # p + 1
      BY <1>1, <2>2
    <3>3. ASSUME NEW k \in 0..(p + 1)
          PROVE  g[k] = Fit(IF k = 0 THEN Window(ask, total) ELSE g[k - 1])
      <4>1. CASE k = p + 1
        <5>1. g[k] = Fit(f[p]) /\ g[p] = f[p]
          BY <3>2, <4>1
        <5> HIDE DEF g
        <5> QED BY <3>2, <4>1, <5>1
      <4>2. CASE k # p + 1
        <5>1. k \in 0..p /\ (k # 0 => k - 1 \in 0..p /\ k - 1 \in 0..(p + 1) /\ k - 1 # p + 1)
          BY <3>2, <4>2
        <5>2. g[k] = f[k] /\ (k # 0 => g[k - 1] = f[k - 1])
          BY <4>2, <5>1
        <5>3. f[k] = Fit(IF k = 0 THEN Window(ask, total) ELSE f[k - 1])
          BY <3>1, <5>1
        <5> HIDE DEF g
        <5> QED BY <5>2, <5>3
      <4> QED BY <4>1, <4>2
    <3>4. Trims(g, p + 1)
      BY <3>3
    <3> QED BY <3>2, <3>4
  <2> HIDE DEF P
  <2> QED BY <1>1, <2>1, <2>2, Upwards
<1>6. PageLimit \in 0..PageLimit
  BY <1>1
<1>7. Trims(trimmed, PageLimit)
  <2>1. PageLimit \in P
    <3> HIDE DEF P
    <3> QED BY <1>5, <1>6
  <2> QED BY <2>1
<1> HIDE DEF trimmed
<1>8. 0 \in Q
  <2>1. 0 \in 0..PageLimit
    BY <1>1
  <2>2. trimmed[0] = Fit(Window(ask, total))
    BY <1>7, <2>1
  <2> QED BY <1>3, <1>4, <2>1, <2>2
<1>9. ASSUME NEW p \in 0..PageLimit, p < PageLimit, p \in Q PROVE p + 1 \in Q
  <2>1. p + 1 \in 0..PageLimit /\ p + 1 # 0 /\ (p + 1) - 1 = p
    BY <1>1, <1>9
  <2>2. trimmed[p + 1] = Fit(trimmed[p])
    BY <1>7, <2>1
  <2> QED BY <1>4, <1>9, <2>1, <2>2
<1>10. Good(trimmed[PageLimit])
  <2> HIDE DEF Q
  <2>1. \A p \in 0..PageLimit : p \in Q
    BY <1>1, <1>8, <1>9, Upwards
  <2>2. PageLimit \in Q
    BY <1>6, <2>1
  <2> QED BY <2>2 DEF Q
<1> QED BY <1>2, <1>10 DEF Good

(* A page is a window of the turns it is made of. *)
PageFits(page, ask, rev, turns) ==
    /\ page.rev = rev /\ page.total = Len(turns)
    /\ page.start \in Nat /\ page.end \in Nat /\ page.end <= Len(turns)
    /\ DOMAIN page.turns = (page.start + 1)..page.end
    /\ \A i \in DOMAIN page.turns : page.turns[i] = turns[i]
    /\ CursorIs(page.older)
    /\ page.older # NoCursor => page.older.before = page.start /\ page.start + 1 \in DOMAIN page.turns
    /\ ask.around >= 0 => ask.around + 1 \in DOMAIN page.turns

(* What is cut to the budget is such a page. *)
LEMMA PageIs ==
    ASSUME NEW ask, AskIs(ask), NEW rev, NEW turns, Len(turns) \in Nat, ~OutOfRange(ask, turns)
    PROVE  PageFits(Page(ask, rev, turns), ask, rev, turns)
<1> DEFINE w == Trim(turns, ask)
           page == Page(ask, rev, turns)
           older == IF w.start > 0 THEN [rev |-> rev, before |-> w.start] ELSE NoCursor
<1>1. WindowIn(w, ask, Len(turns))
  BY TrimKeeps
<1>2. page = [rev |-> rev, total |-> Len(turns), start |-> w.start, end |-> w.end,
              turns |-> [i \in (w.start + 1)..w.end |-> turns[i]], older |-> older]
  BY DEF Page
<1> HIDE DEF w
<1>3. /\ w.start \in Nat /\ w.end \in Nat /\ w.start <= w.end /\ w.end <= Len(turns)
      /\ w.start > 0 => w.start + 1 \in (w.start + 1)..w.end
  BY <1>1 DEF WindowIn
<1>4. CursorIs(older)
  BY <1>3 DEF CursorIs
<1>5. older # NoCursor => older.before = w.start /\ w.start > 0
  OBVIOUS
<1>6. ask.around >= 0 => ask.around + 1 \in (w.start + 1)..w.end
  BY <1>1, <1>3 DEF WindowIn, AskIs
<1> HIDE DEF older, page
<1>7. /\ page.rev = rev /\ page.total = Len(turns) /\ page.start = w.start /\ page.end = w.end
      /\ page.turns = [i \in (w.start + 1)..w.end |-> turns[i]] /\ page.older = older
  BY <1>2
<1>8. DOMAIN page.turns = (w.start + 1)..w.end /\ \A i \in DOMAIN page.turns : page.turns[i] = turns[i]
  BY <1>7
<1> QED BY <1>3, <1>4, <1>5, <1>6, <1>7, <1>8 DEF PageFits, page

(* The turns of a page that joins others are its own, and those of the     *)
(* others if they are of its revision.                                     *)
JoinedTurns(rev, turns) ==
    \A i \in DOMAIN held'.turns :
        \/ i \in 1..Len(turns) /\ held'.turns[i] = turns[i]
        \/ i \in DOMAIN held.turns /\ held.rev = rev /\ held'.turns[i] = held.turns[i]

(* mergePage joins a page in this way, and its cursor still fits. *)
LEMMA MergeIs ==
    ASSUME HeldInv, NEW ask, NEW rev, NEW turns, Len(turns) \in Nat, rev = <<>> => Len(turns) = 0,
           NEW page, PageFits(page, ask, rev, turns), held' = Merge(page)
    PROVE  /\ HeldInv' /\ held'.rev = rev
           /\ DOMAIN page.turns \subseteq DOMAIN held'.turns
           /\ JoinedTurns(rev, turns)
<1> DEFINE old == IF held.rev \in {<<>>, page.rev} THEN held ELSE NoPages
           merged == [i \in DOMAIN old.turns \cup DOMAIN page.turns |->
                         IF i \in DOMAIN page.turns THEN page.turns[i] ELSE old.turns[i]]
           first == \A i \in DOMAIN merged : page.start < i
           older == IF first THEN page.older ELSE old.older
<1>1. held' = [rev |-> page.rev, total |-> page.total, turns |-> merged, older |-> older]
  BY DEF Merge
<1>2. /\ page.rev = rev /\ page.total = Len(turns) /\ page.start \in Nat /\ page.end \in Nat /\ page.end <= Len(turns)
      /\ DOMAIN page.turns = (page.start + 1)..page.end
      /\ \A i \in DOMAIN page.turns : page.turns[i] = turns[i]
      /\ CursorIs(page.older)
      /\ page.older # NoCursor => page.older.before = page.start /\ page.start + 1 \in DOMAIN page.turns
  BY DEF PageFits
<1>3. /\ \A i \in DOMAIN old.turns : i \in Nat \ {0}
      /\ CursorIs(old.older)
      /\ old.older # NoCursor => /\ old.older.before + 1 \in DOMAIN old.turns
                                 /\ \A i \in DOMAIN old.turns : old.older.before < i
      /\ \A i \in DOMAIN old.turns : i \in DOMAIN held.turns /\ held.rev = rev /\ old.turns[i] = held.turns[i]
      /\ rev = <<>> => old.turns = <<>> /\ old.older = NoCursor
  <2>1. CASE held.rev \in {<<>>, page.rev}
    <3>1. old = held
      BY <2>1
    <3>2. held.rev = <<>> => DOMAIN held.turns = {}
      BY DEF HeldInv
    <3> HIDE DEF old
    <3> QED BY <1>2, <2>1, <3>1, <3>2 DEF HeldInv
  <2>2. CASE ~(held.rev \in {<<>>, page.rev})
    <3>1. old = NoPages
      BY <2>2
    <3>2. old.turns = <<>> /\ old.older = NoCursor
      BY <3>1 DEF NoPages
    <3>3. DOMAIN old.turns = {}
      BY <3>2
    <3> HIDE DEF old
    <3> QED BY <3>2, <3>3 DEF CursorIs
  <2> QED BY <2>1, <2>2
<1> HIDE DEF old
<1>4. DOMAIN merged = DOMAIN old.turns \cup DOMAIN page.turns
  OBVIOUS
<1>5. \A i \in DOMAIN page.turns : i \in Nat \ {0} /\ i \in 1..Len(turns) /\ page.start < i
  BY <1>2
<1>6. \A i \in DOMAIN merged :
         \/ i \in 1..Len(turns) /\ merged[i] = turns[i]
         \/ i \in DOMAIN held.turns /\ held.rev = rev /\ merged[i] = held.turns[i]
  <2> TAKE i \in DOMAIN merged
  <2>1. CASE i \in DOMAIN page.turns
    BY <1>2, <1>5, <2>1
  <2>2. CASE i \notin DOMAIN page.turns
    BY <1>3, <2>2
  <2> QED BY <2>1, <2>2
<1>7. rev = <<>> => merged = <<>> /\ DOMAIN merged = {}
  <2> HAVE rev = <<>>
  <2>1. DOMAIN old.turns = {}
    BY <1>3
  <2>2. DOMAIN page.turns = {}
    BY <1>2
  <2>3. DOMAIN merged = {}
    BY <2>1, <2>2
  <2>4. merged = <<>>
    BY <2>1, <2>2
  <2> QED BY <2>3, <2>4
<1>8. \A i \in DOMAIN merged : i \in Nat \ {0}
  BY <1>3, <1>4, <1>5
<1> HIDE DEF merged
<1>9. /\ CursorIs(older)
      /\ older # NoCursor => older.before + 1 \in DOMAIN merged /\ \A i \in DOMAIN merged : older.before < i
      /\ rev = <<>> => older = NoCursor
  <2>1. CASE first
    <3>1. older = page.older
      BY <2>1
    <3>2. rev = <<>> => page.older = NoCursor
      BY <1>2, <1>4, <1>7
    <3> QED BY <1>2, <1>4, <2>1, <3>1, <3>2
  <2>2. CASE ~first
    <3>1. older = old.older
      BY <2>2
    <3>2. PICK j \in DOMAIN merged : ~(page.start < j)
      BY <2>2
    <3>3. j \in DOMAIN old.turns /\ j <= page.start /\ j \in Nat
      BY <1>2, <1>4, <1>5, <1>8, <3>2
    <3> HIDE DEF older, first
    <3>4. ASSUME older # NoCursor
          PROVE  older.before + 1 \in DOMAIN merged /\ \A i \in DOMAIN merged : older.before < i
      <4>1. /\ older.before \in Nat /\ older.before < j /\ older.before + 1 \in DOMAIN merged
            /\ \A i \in DOMAIN old.turns : older.before < i
        BY <1>3, <1>4, <3>1, <3>3, <3>4 DEF CursorIs
      <4>2. \A i \in DOMAIN page.turns : older.before < i
        BY <1>2, <1>5, <3>3, <4>1
      <4> QED BY <1>4, <4>1, <4>2
    <3> QED BY <1>3, <3>1, <3>4
  <2> QED BY <2>1, <2>2
<1> HIDE DEF older, first
<1>10. /\ DOMAIN held' = {"rev", "total", "turns", "older"}
       /\ held'.rev = rev /\ held'.total = Len(turns) /\ held'.turns = merged /\ held'.older = older
  BY <1>1, <1>2
<1>11. HeldInv'
  BY <1>7, <1>8, <1>9, <1>10 DEF HeldInv
<1>12. JoinedTurns(rev, turns)
  BY <1>6, <1>10 DEF JoinedTurns
<1> QED BY <1>4, <1>10, <1>11, <1>12

-----------------------------------------------------------------------------
(* The turns of the index, right or not.                                   *)

(* A record added to turns leaves turns. *)
LEMMA AddKeepsTurns ==
    ASSUME NEW turns \in Seq(Seq(Nat)), NEW i \in Nat
    PROVE  Add(turns, i) \in Seq(Seq(Nat))
<1> DEFINE r == path.lines[i]
           T == Seq(Nat)
<1>1. CASE r.kind = "user"
  <2>1. Add(turns, i) = Append(turns, <<i>>)
    BY <1>1 DEF Add
  <2>2. <<i>> \in T
    OBVIOUS
  <2> HIDE DEF T
  <2>3. turns \in Seq(T)
    BY DEF T
  <2>4. Append(turns, <<i>>) \in Seq(T)
    BY <2>2, <2>3
  <2> QED BY <2>1, <2>4 DEF T
<1>2. CASE r.kind = "assistant" /\ turns # <<>>
  <2> DEFINE n == Len(turns)
             t == Append(turns[n], i)
             more == [turns EXCEPT ![n] = t]
  <2>1. Add(turns, i) = more
    BY <1>2 DEF Add
  <2>2. n \in Nat /\ n \in 1..n /\ DOMAIN turns = 1..n /\ \A j \in 1..n : turns[j] \in T
    <3> HIDE DEF T
    <3>1. turns \in Seq(T)
      BY DEF T
    <3> QED BY <1>2, <3>1
  <2> HIDE DEF n
  <2>3. t \in T
    BY <2>2
  <2> HIDE DEF t, T
  <2>4. more \in [1..n -> T]
    BY <2>2, <2>3
  <2>5. more \in Seq(T)
    <3> HIDE DEF more
    <3> QED BY <2>2, <2>4, FunctionIsSeq
  <2> QED BY <2>1, <2>5 DEF T
<1>3. CASE r.kind # "user" /\ ~(r.kind = "assistant" /\ turns # <<>>)
  BY <1>3 DEF Add
<1> QED BY <1>1, <1>2, <1>3

(* Whatever a look goes on from, it leaves turns. *)
LEMMA TurnsAreTurns ==
    ASSUME NEW s, {"offset", "data"} \subseteq DOMAIN s, {"turns"} \subseteq DOMAIN s.data,
           s.offset \div 2 \in Nat, NEW last \in Nat, s.offset \div 2 <= last,
           s.data.turns \in Seq(Seq(Nat))
    PROVE  WithTurns(s, last).data.turns \in Seq(Seq(Nat))
<1> DEFINE first == s.offset \div 2
           T == Seq(Seq(Nat))
           start == s.data.turns
           Reads(f, p) == f = [i \in first..p |-> IF i = first THEN start ELSE Add(f[i - 1], i)]
           turns == CHOOSE f : Reads(f, last)
           P == {p \in first..last : \E f : Reads(f, p)}
           Q == {p \in first..last : turns[p] \in T}
<1>1. WithTurns(s, last) = [s EXCEPT !.data.turns = turns[last]]
  BY DEF WithTurns
<1>2. WithTurns(s, last).data.turns = turns[last]
  <2> HIDE DEF turns
  <2> QED BY <1>1
<1>3. first \in Nat /\ first \in Int /\ last \in Int /\ first <= last /\ start \in T
  OBVIOUS
<1> HIDE DEF first, start, T
<1>4. \A p \in first..last : p \in P
  <2>1. first \in P
    <3> DEFINE f == [i \in first..first |-> start]
    <3>1. \A i \in first..first : i = first
      BY <1>3
    <3>2. Reads(f, first)
      BY <3>1
    <3>3. \E f1 : Reads(f1, first)
      <4> HIDE DEF f, Reads
      <4> QED BY <3>2
    <3>4. first \in first..last
      BY <1>3
    <3> HIDE DEF f, Reads
    <3> QED BY <3>3, <3>4
  <2>2. ASSUME NEW p \in first..last, p < last, p \in P PROVE p + 1 \in P
    <3>1. PICK f : Reads(f, p)
      BY <2>2
    <3> DEFINE g == [i \in first..(p + 1) |-> IF i = p + 1 THEN Add(f[p], p + 1) ELSE f[i]]
    <3>2. p \in Nat /\ p + 1 \in first..last /\ (p + 1) - 1 = p /\ p + 1 # first /\ p \in first..(p + 1) /\ p # p + 1
      BY <1>3, <2>2
    <3>3. ASSUME NEW i \in first..(p + 1)
          PROVE  g[i] = IF i = first THEN start ELSE Add(g[i - 1], i)
      <4>1. CASE i = p + 1
        <5>1. g[i] = Add(f[p], p + 1) /\ g[p] = f[p]
          BY <3>2, <4>1
        <5> HIDE DEF g
        <5> QED BY <3>2, <4>1, <5>1
      <4>2. CASE i # p + 1
        <5>1. i \in first..p /\ (i # first => i - 1 \in first..p /\ i - 1 \in first..(p + 1) /\ i - 1 # p + 1)
          BY <1>3, <3>2, <4>2
        <5>2. g[i] = f[i] /\ (i # first => g[i - 1] = f[i - 1])
          BY <4>2, <5>1
        <5>3. f[i] = IF i = first THEN start ELSE Add(f[i - 1], i)
          BY <3>1, <5>1
        <5> HIDE DEF g
        <5> QED BY <5>2, <5>3
      <4> QED BY <4>1, <4>2
    <3>4. Reads(g, p + 1)
      BY <3>3
    <3>5. \E f1 : Reads(f1, p + 1)
      <4> HIDE DEF g, Reads
      <4> QED BY <3>4
    <3> HIDE DEF g, Reads
    <3> QED BY <3>2, <3>5
  <2> HIDE DEF P
  <2> QED BY <1>3, <2>1, <2>2, Upwards
<1>5. last \in first..last /\ first \in first..last
  BY <1>3
<1>6. Reads(turns, last)
  <2>1. last \in P
    <3> HIDE DEF P
    <3> QED BY <1>4, <1>5
  <2> QED BY <2>1
<1> HIDE DEF turns
<1>7. first \in Q
  BY <1>3, <1>5, <1>6
<1>8. ASSUME NEW p \in first..last, p < last, p \in Q PROVE p + 1 \in Q
  <2>1. p + 1 \in first..last /\ p + 1 # first /\ (p + 1) - 1 = p /\ p + 1 \in Nat
    BY <1>3, <1>8
  <2>2. turns[p + 1] = Add(turns[p], p + 1)
    BY <1>6, <2>1
  <2>3. Add(turns[p], p + 1) \in T
    BY <1>8, <2>1, AddKeepsTurns DEF T
  <2> QED BY <2>1, <2>2, <2>3
<1>9. last \in Q
  <2> HIDE DEF Q
  <2>1. \A p \in first..last : p \in Q
    BY <1>3, <1>7, <1>8, Upwards
  <2> QED BY <1>5, <2>1
<1> QED BY <1>2, <1>9 DEF T

-----------------------------------------------------------------------------
(* What is held under the steps of the file.                               *)
HistoryInv == HeldInv /\ PageLookInv /\ RevInv /\ PagesInv

(* Turns that are those of a file are those of it when it has grown. *)
LEMMA HeldRightGrows ==
    ASSUME NEW lines, NEW more, LinesAre(lines), LinesAre(more), Len(lines) <= Len(more),
           \A i \in 1..Len(lines) : more[i] = lines[i],
           NEW turns, HeldRight(lines, turns)
    PROVE  HeldRight(more, turns)
<1> DEFINE first == Len(lines)
           last == Len(more)
<1>1. first \in Nat /\ last \in Nat
  BY RecordTypes
<1>2. TurnsOf(more, first) = TurnsOf(lines, first)
  BY <1>1, TurnsOfTheSame
<1>3. ASSUME NEW i \in DOMAIN turns
      PROVE  /\ i \in 1..Len(TurnsOf(more, last))
             /\ turns[i] \in Seq(Nat)
             /\ IsPrefix(turns[i], Text(more, TurnsOf(more, last)[i]))
  <2> DEFINE turn == TurnsOf(lines, first)[i]
  <2>1. /\ i \in 1..Len(TurnsOf(lines, first)) /\ turns[i] \in Seq(Nat)
        /\ IsPrefix(turns[i], Text(lines, turn))
    BY DEF HeldRight
  <2>2. /\ Text(lines, turn) \in Seq(Nat) /\ Len(turn) \in Nat
        /\ \A j \in 1..Len(turn) : turn[j] \in 1..first
    <3>1. PICK n \in Nat : n = first
      BY <1>1
    <3>2. n <= Len(lines) /\ i \in 1..Len(TurnsOf(lines, n))
      BY <2>1, <3>1
    <3>3. /\ Text(lines, TurnsOf(lines, n)[i]) \in Seq(Nat) /\ Len(TurnsOf(lines, n)[i]) \in Nat
          /\ \A j \in 1..Len(TurnsOf(lines, n)[i]) : TurnsOf(lines, n)[i][j] \in 1..n
      BY <3>2, TurnsAreOfMessages
    <3> QED BY <3>1, <3>3
  <2>3. Text(more, turn) = Text(lines, turn)
    <3> HIDE DEF turn
    <3> QED BY <2>2 DEF Text
  <2>4. /\ i \in 1..Len(TurnsOf(more, last))
        /\ Text(more, TurnsOf(more, last)[i]) \in Seq(Nat)
        /\ IsPrefix(Text(more, TurnsOf(more, first)[i]), Text(more, TurnsOf(more, last)[i]))
    <3>1. i \in 1..Len(TurnsOf(more, first))
      BY <1>2, <2>1
    <3> QED BY <1>1, <3>1, TextsGrow
  <2>5. IsPrefix(Text(lines, turn), Text(more, TurnsOf(more, last)[i]))
    BY <1>2, <2>3, <2>4
  <2> DEFINE u == Text(more, TurnsOf(more, last)[i])
             t == Text(lines, turn)
  <2>6. u \in Seq(Nat) /\ t \in Seq(Nat) /\ IsPrefix(turns[i], t) /\ IsPrefix(t, u) /\ turns[i] \in Seq(Nat)
    BY <2>1, <2>2, <2>4, <2>5
  <2> HIDE DEF u, t
  <2>7. IsPrefix(turns[i], u)
    BY <2>6, PrefixesChain
  <2> QED BY <2>1, <2>4, <2>7 DEF u
<1> QED BY <1>3 DEF HeldRight

(* A look that is disturbed keeps what it has seen. *)
LEMMA DisturbedLook ==
    ASSUME LookInv, PageLookInv, look' = [look EXCEPT !.quiet = FALSE]
    PROVE  /\ look'.step = look.step /\ DOMAIN look' = DOMAIN look
           /\ look.step = "page" =>
                  /\ look'.gen = look.gen /\ look'.offset = look.offset
                  /\ look'.rev = look.rev /\ look'.turns = look.turns
           /\ look.step # "none" => look'.ask = look.ask
           /\ look.step = "read" => look'.id = look.id /\ look'.size = look.size
<1>1. {"step", "quiet"} \subseteq DOMAIN look /\ look.step \in {"none", "read", "page"}
  BY DEF LookInv
<1>2. \A x \in DOMAIN look : x # "quiet" => look'[x] = look[x]
  OBVIOUS
<1>3. look.step = "page" => {"ask", "gen", "offset", "rev", "turns"} \subseteq DOMAIN look
  BY DEF PageLookInv
<1>4. look.step = "read" => {"id", "size", "ask"} \subseteq DOMAIN look
  BY DEF PageLookInv, LookInv
<1> QED BY <1>1, <1>2, <1>3, <1>4

(* The file grows. *)
LEMMA PagesOfAGrownFile ==
    ASSUME FileInv, FileInv', LookInv, HistoryInv,
           look' = [look EXCEPT !.quiet = FALSE], cache' = cache, held' = held, reader' = reader,
           spoiled' = spoiled, blurred \subseteq blurred',
           path'.id = path.id, path'.gen = path.gen, path'.cut = path.cut,
           Len(path.lines) <= Len(path'.lines), \A i \in 1..Len(path.lines) : path'.lines[i] = path.lines[i]
    PROVE  HistoryInv'
<1> USE DEF HistoryInv
<1>1. HeldInv'
  BY DEF HeldInv
<1>2. PageLookInv'
  BY DisturbedLook DEF PageLookInv
<1>3. blurred' = {} => blurred = {}
  OBVIOUS
<1>4. RevInv'
  <2>1. reader' = "index" /\ cache'.id # -1 =>
            /\ cache'.data.rev \in Nat \X Nat
            /\ cache'.data.rev[1] = cache'.id /\ cache'.data.rev[2] <= path'.gen
            /\ cache'.data.turns \in Seq(Seq(Nat))
    BY DEF RevInv
  <2>2. reader' = "index" /\ held'.rev # <<>> =>
            held'.rev \in Nat \X Nat /\ held'.rev[1] <= path'.id /\ held'.rev[2] <= path'.gen
    BY DEF RevInv
  <2>3. PresentRev(cache.data.rev)' <=> PresentRev(cache.data.rev)
    BY DEF PresentRev
  <2>4. PresentRev(held.rev)' <=> PresentRev(held.rev)
    BY DEF PresentRev
  <2> QED BY <1>3, <2>1, <2>2, <2>3, <2>4 DEF RevInv
<1>5. PagesInv'
  <2>1. PresentRev(held.rev)' <=> PresentRev(held.rev)
    BY DEF PresentRev
  <2>2. HeldRight(path.lines, held.turns) => HeldRight(path'.lines, held.turns)
    BY HeldRightGrows DEF FileInv
  <2>3. HeldRight(path.lines, held.turns)' <=> HeldRight(path'.lines, held.turns)
    BY DEF HeldRight
  <2> QED BY <1>3, <2>1, <2>2, <2>3 DEF PagesInv
<1> QED BY <1>1, <1>2, <1>4, <1>5

(* What it had is taken back: no revision is that of what it has now. *)
LEMMA PagesOfAnotherContent ==
    ASSUME FileInv, FileInv', LookInv, CacheInv, HistoryInv,
           look' = [look EXCEPT !.quiet = FALSE], cache' = cache, held' = held, reader' = reader,
           path'.gen = path.gen + 1,
           \/ path'.id = path.id /\ path'.cut /\ (blurred' = {} => cache.id = path.id)
           \/ path'.id = path.id + 1 /\ ~path'.cut
    PROVE  HistoryInv'
<1> USE DEF HistoryInv
<1>0. path.id \in Nat /\ path.gen \in Nat /\ cache.id \in (-1)..path.id /\ cache.gen \in (-1)..path.gen
  BY DEF FileInv, CacheInv
<1>1. HeldInv'
  BY DEF HeldInv
<1>2. cache.gen # path'.gen
  BY <1>0
<1>3. PageLookInv'
  BY <1>2, DisturbedLook DEF PageLookInv
<1>4. ASSUME reader = "index"
      PROVE  /\ held.rev # <<>> => held.rev \in Nat \X Nat /\ held.rev[1] <= path'.id /\ held.rev[2] <= path'.gen
             /\ held.rev # <<>> => ~PresentRev(held.rev)'
  <2> SUFFICES ASSUME held.rev # <<>>
               PROVE  held.rev \in Nat \X Nat /\ held.rev[1] <= path'.id /\ held.rev[2] <= path'.gen /\ ~PresentRev(held.rev)'
    OBVIOUS
  <2>1. held.rev \in Nat \X Nat /\ held.rev[1] <= path.id /\ held.rev[2] <= path.gen
    BY <1>4 DEF RevInv
  <2>2. held.rev[1] \in Nat /\ held.rev[2] \in Nat
    BY <2>1
  <2> QED BY <1>0, <2>1, <2>2 DEF PresentRev
<1>5. ASSUME reader = "index", cache.id # -1
      PROVE  /\ cache.data.rev \in Nat \X Nat /\ cache.data.rev[1] = cache.id /\ cache.data.rev[2] <= path'.gen
             /\ cache.data.turns \in Seq(Seq(Nat))
             /\ ~PresentRev(cache.data.rev)'
  <2>1. /\ cache.data.rev \in Nat \X Nat /\ cache.data.rev[1] = cache.id /\ cache.data.rev[2] <= path.gen
        /\ cache.data.turns \in Seq(Seq(Nat))
    BY <1>5 DEF RevInv
  <2>2. cache.data.rev[1] \in Nat /\ cache.data.rev[2] \in Nat
    BY <2>1
  <2> QED BY <1>0, <2>1, <2>2 DEF PresentRev
<1>6. RevInv'
  BY <1>2, <1>4, <1>5 DEF RevInv
<1>7. PagesInv'
  BY <1>4 DEF PagesInv
<1> QED BY <1>1, <1>3, <1>6, <1>7

(* The state of the path is pushed out. *)
LEMMA PagesOfAnEviction ==
    ASSUME FileInv, HistoryInv, Evicts
    PROVE  HistoryInv'
<1> USE DEF HistoryInv
<1>0. /\ cache' = NoCache /\ look' = look /\ look.step = "none" /\ path' = path /\ reader' = reader /\ held' = held
      /\ spoiled' = (spoiled /\ held # NoPages) /\ blurred' = blurred \cup (IF path.cut THEN {"revision"} ELSE {})
  BY DEF Evicts
<1>1. cache'.id = -1
  BY <1>0 DEF NoCache
<1>2. blurred' = {} => blurred = {} /\ ~path.cut
  <2>1. path.cut => "revision" \in blurred'
    BY <1>0
  <2> QED BY <1>0, <2>1
<1>3. HeldInv'
  BY <1>0 DEF HeldInv
<1>4. PageLookInv'
  BY <1>0 DEF PageLookInv
<1>5. RevInv'
  BY <1>0, <1>1, <1>2 DEF RevInv
<1>6. held.rev # <<>> /\ ~spoiled' => ~spoiled
  <2>1. NoPages.rev = <<>>
    BY DEF NoPages
  <2>2. held.rev # <<>> => held # NoPages
    BY <2>1
  <2> QED BY <1>0, <2>2
<1>7. PagesInv'
  BY <1>0, <1>2, <1>6 DEF PagesInv, HeldRight, PresentRev
<1> QED BY <1>3, <1>4, <1>5, <1>7

(* A step of a reader without pages, that leaves no look. *)
LEMMA PagesOfOtherReaders ==
    ASSUME HistoryInv, reader \in {"tail", "activity"}, reader' = reader, held' = held, look' = NoLook
    PROVE  HistoryInv'
<1>1. look'.step = "none"
  BY DEF NoLook
<1>2. HeldInv'
  BY DEF HeldInv, HistoryInv
<1>3. PageLookInv'
  BY <1>1 DEF PageLookInv
<1>4. RevInv' /\ PagesInv'
  BY DEF RevInv, PagesInv
<1> QED BY <1>2, <1>3, <1>4 DEF HistoryInv

(* A look begins. *)
LEMMA PagesOfALook ==
    ASSUME FileInv, LookInv, CacheInv, HistoryInv, NEW ask, AskIs(ask), reader # "web", Looks(ask)
    PROVE  HistoryInv'
<1> USE DEF HistoryInv
<1>0. /\ look' = [step |-> "read", quiet |-> TRUE, id |-> path.id, size |-> Size(path), ask |-> ask]
      /\ reader' = reader /\ path' = path /\ cache' = cache /\ held' = held /\ blurred' = blurred /\ spoiled' = spoiled
  BY DEF Looks
<1>1. /\ look'.step = "read" /\ look'.id = path.id /\ look'.size = Size(path) /\ look'.ask = ask
      /\ "ask" \in DOMAIN look'
  BY <1>0
<1>2. HeldInv' /\ RevInv' /\ PagesInv'
  BY <1>0 DEF HeldInv, RevInv, PagesInv, PresentRev, HeldRight
<1>3. cache.id <= path.id /\ (cache.gen = path.gen => cache.offset <= Size(path))
  <2>1. path.id \in Nat /\ Len(path.lines) \in Nat /\ path.torn \in BOOLEAN
    BY CacheFacts
  <2>2. 2 * Len(path.lines) <= Size(path) /\ Size(path) \in Int
    <3>1. CASE path.torn
      BY <2>1, <3>1 DEF Size
    <3>2. CASE ~path.torn
      BY <2>1, <3>2 DEF Size
    <3> QED BY <2>1, <3>1, <3>2
  <2>3. cache.offset \in Int
    BY DEF CacheInv
  <2> QED BY <2>1, <2>2, <2>3 DEF CacheInv
<1>4. reader = "index" /\ held.rev # <<>> => held.rev[1] <= path.id
  BY DEF RevInv
<1>5. PageLookInv'
  BY <1>0, <1>1, <1>3, <1>4 DEF PageLookInv
<1> QED BY <1>2, <1>5

(* The index reads: it goes on from its state, or starts anew. *)
LEMMA PagesOfARead ==
    ASSUME FileInv, LookInv, CacheInv, IndexInv, HistoryInv, reader = "index", look.step = "read",
           path' = path, reader' = reader, held' = held, blurred' = blurred,
           look' = Paging(cache', look.quiet),
           cache'.id = look.id, cache'.data.rev = IndexBase.data.rev, cache'.data.turns \in Seq(Seq(Nat)),
           \/ cache'.gen = GenNow /\ (Rebuilds \/ cache.offset \div 2 < Available)
           \/ cache'.gen = cache.gen /\ ~Rebuilds
           \/ "content" \in blurred,
           ~spoiled' => ~spoiled \/ (Rebuilds /\ cache.id # -1)
    PROVE  HistoryInv'
<1> USE DEF HistoryInv
<1>0. /\ path.id \in Nat /\ path.gen \in Nat /\ look.id \in Nat /\ look.id <= path.id
      /\ cache.id \in (-1)..path.id /\ cache.id <= look.id
  BY ReadFacts, CacheFacts DEF CacheInv, PageLookInv
<1>1. HeldInv'
  BY DEF HeldInv
<1>2. /\ look'.step = "page" /\ look'.ask = look.ask /\ look'.gen = cache'.gen /\ look'.offset = cache'.offset
      /\ look'.rev = cache'.data.rev /\ look'.turns = cache'.data.turns
      /\ {"ask", "gen", "offset", "rev", "turns"} \subseteq DOMAIN look'
  BY DEF Paging
<1>3. AskIs(look.ask)
  BY DEF PageLookInv
<1>4. PageLookInv'
  BY <1>0, <1>2, <1>3 DEF PageLookInv
<1>5. GenNow = path.gen <=> look.id = path.id
  BY <1>0 DEF GenNow
<1>6. CASE Rebuilds
  <2> DEFINE salt == IF cache.id = -1 THEN 0 ELSE path.gen
             rev == <<look.id, salt>>
  <2>1. cache'.data.rev = rev
    BY <1>6 DEF IndexBase, FreshIndex
  <2>2. salt \in Nat /\ salt <= path.gen /\ (cache.id # -1 => salt = path.gen)
    BY <1>0
  <2> HIDE DEF salt
  <2>3. rev \in Nat \X Nat /\ rev[1] = look.id /\ rev[2] = salt
    BY <1>0, <2>2
  <2> HIDE DEF rev
  <2>4. blurred = {} => cache'.gen = GenNow
    BY <1>6
  <2>5. blurred = {} /\ path.cut => look.id = path.id /\ cache.id # -1
    BY <1>0 DEF RevInv
  <2>6. held.rev # <<>> => held.rev \in Nat \X Nat /\ held.rev[1] <= look.id
    BY DEF RevInv, PageLookInv
  <2>7. held.rev # <<>> /\ look.id # path.id => held.rev[1] # path.id
    <3>1. held.rev # <<>> => held.rev[1] \in Nat
      BY <2>6
    <3> QED BY <1>0, <2>6, <3>1
  <2>8. RevInv'
    <3>1. cache'.id # -1 => /\ cache'.data.rev \in Nat \X Nat
                            /\ cache'.data.rev[1] = cache'.id /\ cache'.data.rev[2] <= path.gen
                            /\ cache'.data.turns \in Seq(Seq(Nat))
      BY <2>1, <2>2, <2>3
    <3>2. held.rev # <<>> => held.rev \in Nat \X Nat /\ held.rev[1] <= path.id /\ held.rev[2] <= path.gen
      BY DEF RevInv
    <3>3. ASSUME blurred = {}
          PROVE  /\ path.cut => cache'.id = path.id
                 /\ PresentRev(cache'.data.rev) <=> cache'.gen = path.gen
                 /\ cache'.gen # path.gen /\ held.rev # <<>> => ~PresentRev(held.rev)
      BY <1>5, <2>1, <2>2, <2>3, <2>4, <2>5, <2>7, <3>3 DEF PresentRev
    <3> QED BY <3>1, <3>2, <3>3 DEF RevInv, PresentRev
  <2>9. ASSUME blurred = {}, cache.id # -1, held.rev # <<>> PROVE ~PresentRev(held.rev)
    <3>1. cache.gen # path.gen
      <4>1. ASSUME cache.gen = path.gen PROVE FALSE
        <5>1. cache.offset <= look.size /\ look.id = path.id /\ cache.id = path.id
          BY <4>1 DEF PageLookInv, CacheInv
        <5>2. look.size \in Nat /\ cache.offset \in Int
          BY ReadFacts DEF CacheInv
        <5> QED BY <1>6, <5>1, <5>2 DEF Rebuilds
      <4> QED BY <4>1
    <3> QED BY <2>9, <3>1 DEF RevInv
  <2>10. PagesInv'
    <3>1. blurred = {} /\ ~spoiled' /\ held.rev # <<>> /\ PresentRev(held.rev) => ~spoiled
      BY <2>9
    <3> QED BY <3>1 DEF PagesInv, PresentRev, HeldRight
  <2> QED BY <1>1, <1>4, <2>8, <2>10
<1>7. CASE ~Rebuilds
  <2>1. cache'.data.rev = cache.data.rev /\ cache.id = look.id /\ cache.id # -1
    BY <1>0, <1>7 DEF IndexBase, Rebuilds
  <2>2. ASSUME blurred = {} PROVE cache'.gen = path.gen <=> cache.gen = path.gen
    <3>1. CASE cache'.gen = cache.gen
      BY <3>1
    <3>2. CASE cache'.gen = GenNow /\ cache.offset \div 2 < Available
      <4>1. GenFrom(cache.gen) = GenNow
        <5>1. Available > cache.offset \div 2
          BY <3>2, ReadFacts, CacheFacts
        <5> QED BY <1>7, <2>2, <5>1, GoesOnGen
      <4>2. -1 # path.gen
        BY <1>0
      <4> QED BY <3>2, <4>1, <4>2 DEF GenFrom
    <3> QED BY <1>7, <2>2, <3>1, <3>2
  <2>3. RevInv'
    <3>1. cache'.id # -1 => /\ cache'.data.rev \in Nat \X Nat
                            /\ cache'.data.rev[1] = cache'.id /\ cache'.data.rev[2] <= path.gen
                            /\ cache'.data.turns \in Seq(Seq(Nat))
      BY <2>1 DEF RevInv
    <3>2. held.rev # <<>> => held.rev \in Nat \X Nat /\ held.rev[1] <= path.id /\ held.rev[2] <= path.gen
      BY DEF RevInv
    <3>3. ASSUME blurred = {}
          PROVE  /\ path.cut => cache'.id = path.id
                 /\ PresentRev(cache'.data.rev) <=> cache'.gen = path.gen
                 /\ cache'.gen # path.gen /\ held.rev # <<>> => ~PresentRev(held.rev)
      BY <2>1, <2>2, <3>3 DEF RevInv
    <3> QED BY <3>1, <3>2, <3>3 DEF RevInv, PresentRev
  <2>4. PagesInv'
    BY <1>7 DEF PagesInv, PresentRev, HeldRight
  <2> QED BY <1>1, <1>4, <2>3, <2>4
<1> QED BY <1>6, <1>7

(* A look of the index, whether its read goes through or fails half way. *)
LEMMA PagesOfIndexReads ==
    ASSUME FileInv, LookInv, CacheInv, IndexInv, HistoryInv,
           IndexReads \/ \E last \in Nat : IndexFails(last)
    PROVE  HistoryInv'
<1> DEFINE s == IndexBase
           k == s.offset \div 2
           gen == IF s.offset = 0 THEN GenNow ELSE GenFrom(s.gen)
<1>0. /\ reader = "index" /\ look.step = "read" /\ path' = path /\ reader' = reader /\ held' = held
      /\ blurred' = blurred /\ look' = Paging(cache', look.quiet)
      /\ ~spoiled' => ~spoiled \/ (Rebuilds /\ cache.id # -1)
  BY DEF IndexReads, IndexFails
<1>1. /\ DOMAIN s = {"id", "offset", "gen", "from", "data"} /\ DOMAIN s.data = {"rev", "turns"}
      /\ s.id = look.id /\ k \in Nat /\ s.offset = 2 * k
      /\ Rebuilds => s.offset = 0 /\ s.gen = GenNow /\ s.data.turns = TurnsOf(path.lines, 0)
      /\ ~Rebuilds => s = cache /\ cache.id = look.id /\ cache.id # -1
  BY <1>0, IndexBaseIs
<1>2. Available \in 0..Len(path.lines) /\ Available \in Nat
  <2>1. Available \in 0..Len(path.lines)
    BY <1>0, ReadFacts
  <2> QED BY <2>1
<1>3. s.data.turns \in Seq(Seq(Nat))
  <2>1. CASE Rebuilds
    <3>1. s.data.turns = <<>>
      BY <1>1, <2>1, TurnsOfNothing
    <3> QED BY <3>1
  <2>2. CASE ~Rebuilds
    BY <1>0, <1>1, <2>2 DEF HistoryInv, RevInv
  <2> QED BY <2>1, <2>2
<1>4. Positions(s) = (k + 1)..Available
  BY DEF Positions
<1> HIDE DEF s
<1>5. CASE cache' = s
  <2>1. \/ cache'.gen = GenNow /\ Rebuilds
        \/ cache'.gen = cache.gen /\ ~Rebuilds
    BY <1>1, <1>5
  <2>2. cache'.id = look.id /\ cache'.data.rev = IndexBase.data.rev /\ cache'.data.turns \in Seq(Seq(Nat))
    BY <1>1, <1>3, <1>5 DEF s
  <2> QED BY <1>0, <2>1, <2>2, PagesOfARead
<1>6. ASSUME NEW last \in Nat, last \in Positions(s), NEW offset,
             \/ cache' = [WithTurns(s, last) EXCEPT !.gen = gen]
             \/ cache' = [WithTurns(s, last) EXCEPT !.offset = offset, !.gen = gen]
      PROVE  HistoryInv'
  <2>1. k < Available /\ k <= last
    BY <1>1, <1>2, <1>4, <1>6
  <2>2. WithTurns(s, last).data.turns \in Seq(Seq(Nat))
    BY <1>1, <1>3, <2>1, TurnsAreTurns
  <2> HIDE DEF gen
  <2>3. /\ DOMAIN WithTurns(s, last) = {"id", "offset", "gen", "from", "data"}
        /\ WithTurns(s, last).id = s.id /\ WithTurns(s, last).data.rev = s.data.rev
    BY <1>1 DEF WithTurns
  <2>4. /\ cache'.id = look.id /\ cache'.data.rev = IndexBase.data.rev /\ cache'.data.turns \in Seq(Seq(Nat))
        /\ cache'.gen = gen
    BY <1>1, <1>6, <2>2, <2>3 DEF s
  <2>5. gen = GenNow \/ (gen = -1 /\ "content" \in blurred)
    <3>1. k < Available /\ (Rebuilds => s.offset = 0) /\ (~Rebuilds => s = cache)
      BY <1>1, <2>1
    <3> QED BY <1>0, <3>1, BaseGen DEF gen
  <2>6. Rebuilds \/ cache.offset \div 2 < Available
    BY <1>1, <2>1
  <2> QED BY <1>0, <2>4, <2>5, <2>6, PagesOfARead
<1>7. CASE IndexReads
  <2>1. cache' = Indexed(s)
    BY <1>7 DEF IndexReads, s
  <2>2. CASE Positions(s) = {}
    BY <1>5, <2>1, <2>2 DEF Indexed
  <2>3. CASE Positions(s) # {}
    <3>1. Available \in Positions(s)
      BY <1>1, <1>2, <1>4, <2>3
    <3>2. WithTurns(s, Available).gen = s.gen /\ DOMAIN WithTurns(s, Available) = {"id", "offset", "gen", "from", "data"}
      BY <1>1 DEF WithTurns
    <3>3. cache' = [WithTurns(s, Available) EXCEPT !.offset = 2 * Available, !.gen = gen]
      BY <2>1, <2>3, <3>2 DEF Indexed
    <3> HIDE DEF gen
    <3> QED BY <1>2, <1>6, <3>1, <3>3
  <2> QED BY <2>2, <2>3
<1>8. CASE \E last \in Nat : IndexFails(last)
  <2>1. PICK last \in Nat : IndexFails(last)
    BY <1>8
  <2>2. last \in Positions(s) /\ cache' = [WithTurns(s, last) EXCEPT !.gen = IF s.offset = 0 THEN GenNow ELSE GenFrom(@)]
    BY <2>1 DEF IndexFails, s
  <2>3. WithTurns(s, last).gen = s.gen /\ DOMAIN WithTurns(s, last) = {"id", "offset", "gen", "from", "data"}
    BY <1>1 DEF WithTurns
  <2>4. cache' = [WithTurns(s, last) EXCEPT !.gen = gen]
    BY <2>2, <2>3
  <2> HIDE DEF gen
  <2> QED BY <1>6, <2>2, <2>4
<1> QED BY <1>7, <1>8

-----------------------------------------------------------------------------
(* Answers.                                                                *)

(* A page starts the pages over, or joins them, or changes nothing. *)
Joined(ask, rev, turns) ==
    /\ held'.rev = rev
    /\ ask.around >= 0 => ask.around + 1 \in DOMAIN held'.turns
    /\ JoinedTurns(rev, turns)

(* That is all an answer does. *)
LEMMA AnswersAre ==
    ASSUME HeldInv, NEW ask, AskIs(ask), NEW rev, NEW turns, Len(turns) \in Nat, rev = <<>> => Len(turns) = 0,
           Answers(ask, rev, turns)
    PROVE  /\ HeldInv'
           /\ \/ held' = NoPages /\ ~(ask.around >= 0)
              \/ held' = held
              \/ Joined(ask, rev, turns)
<1>1. CASE Expired(ask, rev)
  <2>1. held' = NoPages
    BY <1>1 DEF Answers
  <2>2. ~(ask.around >= 0)
    BY <1>1 DEF Expired, AskIs
  <2>3. /\ DOMAIN held' = {"rev", "total", "turns", "older"}
        /\ held'.rev = <<>> /\ held'.total = 0 /\ held'.turns = <<>> /\ held'.older = NoCursor
    BY <2>1 DEF NoPages
  <2>4. DOMAIN held'.turns = {}
    BY <2>3
  <2>5. HeldInv'
    BY <2>3, <2>4 DEF HeldInv, CursorIs
  <2> QED BY <2>1, <2>2, <2>5
<1>2. CASE ~Expired(ask, rev) /\ OutOfRange(ask, turns)
  <2>1. held' = held
    BY <1>2 DEF Answers
  <2> QED BY <2>1 DEF HeldInv
<1>3. CASE ~Expired(ask, rev) /\ ~OutOfRange(ask, turns)
  <2> DEFINE page == Page(ask, rev, turns)
  <2>1. held' = Merge(page)
    BY <1>3 DEF Answers
  <2>2. PageFits(page, ask, rev, turns)
    BY <1>3, PageIs
  <2> HIDE DEF page
  <2>3. /\ HeldInv' /\ held'.rev = rev
        /\ DOMAIN page.turns \subseteq DOMAIN held'.turns
        /\ JoinedTurns(rev, turns)
    BY <2>1, <2>2, MergeIs
  <2>4. ask.around >= 0 => ask.around + 1 \in DOMAIN held'.turns
    BY <2>2, <2>3 DEF PageFits
  <2> QED BY <2>3, <2>4 DEF Joined
<1> QED BY <1>1, <1>2, <1>3

(* What a look of the present content serves is right. *)
LEMMA ServedTurnsAreRight ==
    ASSUME LinesAre(path.lines), NEW last \in Nat, last <= Len(path.lines),
           NEW turns, DOMAIN turns = 1..Len(TurnsOf(path.lines, last)),
           \A i \in DOMAIN turns : turns[i] = TextOf(TurnsOf(path.lines, last)[i])
    PROVE  HeldRight(path.lines, turns)
<1>1. Len(path.lines) \in Nat
  BY RecordTypes
<1>2. ASSUME NEW i \in DOMAIN turns
      PROVE  /\ i \in 1..Len(TurnsOf(path.lines, Len(path.lines)))
             /\ turns[i] \in Seq(Nat)
             /\ IsPrefix(turns[i], Text(path.lines, TurnsOf(path.lines, Len(path.lines))[i]))
  <2>1. i \in 1..Len(TurnsOf(path.lines, last))
    OBVIOUS
  <2>2. turns[i] = Text(path.lines, TurnsOf(path.lines, last)[i])
    BY <2>1, TextIs
  <2>3. Text(path.lines, TurnsOf(path.lines, last)[i]) \in Seq(Nat)
    BY <2>1, TurnsAreOfMessages
  <2>4. PICK n \in Nat : n = Len(path.lines)
    BY <1>1
  <2>5. last <= n /\ n <= Len(path.lines)
    BY <2>4
  <2>6. /\ i \in 1..Len(TurnsOf(path.lines, n))
        /\ IsPrefix(Text(path.lines, TurnsOf(path.lines, last)[i]), Text(path.lines, TurnsOf(path.lines, n)[i]))
    BY <2>1, <2>5, TextsGrow
  <2> QED BY <2>2, <2>3, <2>4, <2>6
<1> QED BY <1>2 DEF HeldRight

(* A page of a rollout. *)
LEMMA ServesKeeps ==
    ASSUME FileInv, CacheInv, IndexInv, HistoryInv, Serves
    PROVE  /\ HistoryInv' /\ reader = "index"
           /\ held' # held /\ blurred = {} /\ ~spoiled /\ look.gen = path.gen =>
                  /\ HeldRight(path.lines, held'.turns)
                  /\ look.ask.around >= 0 => look.ask.around + 1 \in DOMAIN held'.turns
<1> USE DEF HistoryInv
<1> DEFINE turns == [i \in DOMAIN look.turns |-> TextOf(look.turns[i])]
           ask == look.ask
           rev == look.rev
<1>0. /\ look.step = "page" /\ Answers(ask, rev, turns) /\ look' = NoLook
      /\ reader' = reader /\ path' = path /\ cache' = cache /\ blurred' = blurred /\ spoiled' = spoiled
  BY DEF Serves
<1>1. /\ reader = "index" /\ cache.id # -1 /\ look.gen = cache.gen
      /\ rev = cache.data.rev /\ look.turns = cache.data.turns /\ AskIs(ask)
  BY <1>0 DEF PageLookInv
<1>2. /\ rev \in Nat \X Nat /\ rev[1] = cache.id /\ rev[2] <= path.gen
      /\ look.turns \in Seq(Seq(Nat))
      /\ blurred = {} => (PresentRev(rev) <=> cache.gen = path.gen)
  BY <1>1 DEF RevInv
<1>3. DOMAIN turns = 1..Len(look.turns) /\ Len(turns) = Len(look.turns) /\ Len(turns) \in Nat
  <2> DEFINE n == Len(look.turns)
             V == {turns[i] : i \in 1..n}
  <2>1. n \in Nat /\ DOMAIN look.turns = 1..n
    BY <1>2
  <2>2. turns \in [1..n -> V]
    BY <2>1
  <2> HIDE DEF turns, n, V
  <2>3. turns \in Seq(V) /\ Len(turns) = n
    BY <2>1, <2>2, FunctionIsSeq
  <2> QED BY <2>1, <2>2, <2>3 DEF n
<1>4. ASSUME ~spoiled, cache.gen = path.gen PROVE HeldRight(path.lines, turns)
  <2>1. Current
    BY <1>1, <1>4 DEF Current
  <2>2. PICK last \in Nat : last = cache.offset \div 2 /\ last <= Len(path.lines)
    <3>1. cache.offset \div 2 \in 0..Len(path.lines) /\ Len(path.lines) \in Nat
      BY <2>1, CacheFacts
    <3> DEFINE k == cache.offset \div 2
    <3> HIDE DEF k
    <3>2. k \in Nat /\ k <= Len(path.lines)
      BY <3>1 DEF k
    <3> QED BY <3>2 DEF k
  <2>3. look.turns = TurnsOf(path.lines, last)
    BY <1>1, <1>4, <2>1, <2>2 DEF IndexInv
  <2>4. DOMAIN turns = 1..Len(TurnsOf(path.lines, last))
    BY <1>3, <2>3
  <2>5. \A i \in DOMAIN turns : turns[i] = TextOf(TurnsOf(path.lines, last)[i])
    BY <2>3
  <2> HIDE DEF turns
  <2> QED BY <2>2, <2>4, <2>5, ServedTurnsAreRight DEF FileInv
<1> HIDE DEF turns, ask, rev
<1>5. rev # <<>>
  <2>1. PICK a \in Nat, b \in Nat : rev = <<a, b>>
    BY <1>2
  <2> QED BY <2>1
<1>6. /\ HeldInv'
      /\ \/ held' = NoPages /\ ~(ask.around >= 0)
         \/ held' = held
         \/ Joined(ask, rev, turns)
  BY <1>0, <1>1, <1>3, <1>5, AnswersAre
<1>7. ASSUME Joined(ask, rev, turns), blurred = {}, ~spoiled, cache.gen = path.gen
      PROVE  HeldRight(path.lines, held'.turns)
  <2>1. HeldRight(path.lines, turns)
    BY <1>4, <1>7
  <2>2. held.rev = rev => HeldRight(path.lines, held.turns)
    BY <1>1, <1>2, <1>5, <1>7 DEF PagesInv
  <2>3. \A i \in DOMAIN held'.turns :
           \/ i \in 1..Len(turns) /\ held'.turns[i] = turns[i]
           \/ i \in DOMAIN held.turns /\ held.rev = rev /\ held'.turns[i] = held.turns[i]
    BY <1>7 DEF Joined, JoinedTurns
  <2>4. \A i \in 1..Len(turns) : i \in DOMAIN turns
    BY <1>3
  <2> QED BY <2>1, <2>2, <2>3, <2>4 DEF HeldRight
<1>8. held' = NoPages => held'.rev = <<>> /\ DOMAIN held'.turns = {}
  BY DEF NoPages
<1>9. PageLookInv'
  <2>1. look'.step = "none"
    BY <1>0 DEF NoLook
  <2> QED BY <1>0, <2>1 DEF PageLookInv
<1>10. RevInv'
  <2>1. cache.id <= path.id
    BY CacheFacts DEF CacheInv
  <2>2. held'.rev # <<>> => /\ held'.rev \in Nat \X Nat /\ held'.rev[1] <= path.id /\ held'.rev[2] <= path.gen
                            /\ blurred = {} /\ cache.gen # path.gen => ~PresentRev(held'.rev)
    <3>1. CASE held' = NoPages
      BY <1>8, <3>1
    <3>2. CASE held' = held
      BY <1>1, <3>2 DEF RevInv
    <3>3. CASE Joined(ask, rev, turns)
      <4>1. held'.rev = rev
        BY <3>3 DEF Joined
      <4> QED BY <1>2, <2>1, <4>1
    <3> QED BY <1>6, <3>1, <3>2, <3>3
  <2>3. /\ cache.data.rev \in Nat \X Nat /\ cache.data.rev[1] = cache.id /\ cache.data.rev[2] <= path.gen
        /\ cache.data.turns \in Seq(Seq(Nat))
        /\ blurred = {} => /\ path.cut => cache.id = path.id
                           /\ PresentRev(cache.data.rev) <=> cache.gen = path.gen
    BY <1>1 DEF RevInv
  <2> QED BY <1>0, <2>2, <2>3 DEF RevInv, PresentRev
<1>11. PagesInv'
  <2>1. blurred = {} /\ ~spoiled /\ held'.rev # <<>> /\ PresentRev(held'.rev) => HeldRight(path.lines, held'.turns)
    <3>1. CASE held' = NoPages
      BY <1>8, <3>1
    <3>2. CASE held' = held
      BY <1>1, <3>2 DEF PagesInv
    <3>3. CASE Joined(ask, rev, turns)
      <4>1. held'.rev = rev
        BY <3>3 DEF Joined
      <4> QED BY <1>2, <1>7, <3>3, <4>1
    <3> QED BY <1>6, <3>1, <3>2, <3>3
  <2>2. reader' # "web"
    BY <1>0, <1>1
  <2> QED BY <1>0, <2>1, <2>2 DEF PagesInv, PresentRev, HeldRight
<1>12. ASSUME held' # held, blurred = {}, ~spoiled, look.gen = path.gen
       PROVE  HeldRight(path.lines, held'.turns) /\ (ask.around >= 0 => ask.around + 1 \in DOMAIN held'.turns)
  <2>1. CASE held' = NoPages /\ ~(ask.around >= 0)
    BY <1>8, <2>1 DEF HeldRight
  <2>2. CASE Joined(ask, rev, turns)
    <3>1. HeldRight(path.lines, held'.turns)
      BY <1>1, <1>7, <1>12, <2>2
    <3> QED BY <2>2, <3>1 DEF Joined
  <2> QED BY <1>6, <1>12, <2>1, <2>2
<1> QED BY <1>1, <1>6, <1>9, <1>10, <1>11, <1>12 DEF ask

(* The turns of an App Server actor. *)
LEMMA WebTurnsAre ==
    ASSUME FileInv
    PROVE  /\ Len(WebTurns) \in Nat /\ DOMAIN WebTurns = 1..Len(WebTurns)
           /\ \A k \in 1..Len(WebTurns) : IsPrefix(WebTurns[k], WebTurns[k])
<1> DEFINE S == TurnStarts(path.lines)
           starts == InOrder(S)
           last == Len(path.lines)
           n == Len(starts)
           to(k) == IF k = n THEN last ELSE starts[k + 1] - 1
           web(k) == [j \in 1..(to(k) - starts[k] + 1) |-> path.lines[starts[k] + j - 1].n]
<1>1. WebTurns = [k \in DOMAIN starts |-> web(k)]
  BY DEF WebTurns
<1>2. last \in Nat /\ DOMAIN path.lines = 1..last
  BY RecordTypes DEF FileInv
<1>3. S \in SUBSET (1..last)
  BY <1>2 DEF TurnStarts
<1>4. starts \in Seq(S)
  <2>1. 1 \in Int /\ last \in Int
    BY <1>2
  <2> HIDE DEF S, last
  <2> QED BY <1>3, <2>1, InOrderElements
<1>5. n \in Nat /\ DOMAIN starts = 1..n /\ \A k \in 1..n : starts[k] \in 1..last /\ starts[k] \in Int
  <2> HIDE DEF S, starts
  <2>1. n \in Nat /\ DOMAIN starts = 1..n /\ \A k \in 1..n : starts[k] \in S
    BY <1>4
  <2>2. \A i \in S : i \in 1..last /\ i \in Int
    BY <1>2, <1>3
  <2> QED BY <2>1, <2>2
<1> HIDE DEF S, starts, last, n
<1>6. ASSUME NEW k \in 1..n PROVE IsPrefix(web(k), web(k))
  <2> DEFINE m == to(k) - starts[k] + 1
             at(j) == path.lines[starts[k] + j - 1].n
             V == {at(j) : j \in 1..m}
             s == [j \in 1..m |-> at(j)]
  <2>1. m \in Int
    <3>1. to(k) \in Int
      <4>1. CASE k = n
        BY <1>2, <4>1
      <4>2. CASE k # n
        <5>1. k + 1 \in 1..n
          BY <1>5, <4>2
        <5> QED BY <1>5, <4>2, <5>1
      <4> QED BY <4>1, <4>2
    <3> HIDE DEF to
    <3> QED BY <1>5, <3>1
  <2>2. PICK l \in Nat : 1..m = 1..l
    <3> HIDE DEF m
    <3>1. CASE m >= 0
      BY <2>1, <3>1
    <3>2. CASE ~(m >= 0)
      <4>1. 1..m = 1..0
        BY <2>1, <3>2
      <4> QED BY <4>1
    <3> QED BY <3>1, <3>2
  <2> HIDE DEF m, at
  <2>3. s \in [1..l -> V]
    BY <2>2
  <2> HIDE DEF V
  <2>4. s \in Seq(V)
    <3> HIDE DEF s
    <3> QED BY <2>3, FunctionIsSeq
  <2> HIDE DEF s
  <2>5. Len(s) <= Len(s) /\ \A i \in 1..Len(s) : s[i] = s[i]
    BY <2>4
  <2>6. IsPrefix(s, s)
    BY <2>4, <2>5, PrefixIs
  <2> QED BY <2>6 DEF s, at, m
<1>7. Len(WebTurns) = n /\ DOMAIN WebTurns = 1..n
  <2> DEFINE W == {WebTurns[k] : k \in 1..n}
  <2> HIDE DEF web
  <2>1. WebTurns \in [1..n -> W]
    BY <1>1, <1>5
  <2> HIDE DEF W
  <2>2. Len(WebTurns) = n
    BY <1>5, <2>1, FunctionIsSeq
  <2> QED BY <1>1, <1>5, <2>2
<1>8. \A k \in 1..n : WebTurns[k] = web(k)
  <2> HIDE DEF web
  <2> QED BY <1>1, <1>5
<1> HIDE DEF web
<1> QED BY <1>5, <1>6, <1>7, <1>8

(* A page of an App Server session. *)
LEMMA WebServesKeeps ==
    ASSUME FileInv, HistoryInv, NEW ask, WebServes(ask)
    PROVE  /\ HistoryInv' /\ reader = "web"
           /\ held' # held =>
                  \A i \in DOMAIN held'.turns : i <= Len(WebTurns) /\ IsPrefix(held'.turns[i], WebTurns[i])
<1> USE DEF HistoryInv
<1>0. /\ reader = "web" /\ Wants(ask) /\ Answers(ask, WebTurns, WebTurns)
      /\ reader' = reader /\ path' = path /\ cache' = cache /\ look' = look
      /\ blurred' = blurred /\ spoiled' = spoiled
  BY DEF WebServes
<1>1. AskIs(ask)
  BY <1>0 DEF Wants, Latest, AskIs, CursorIs, HeldInv
<1>2. /\ Len(WebTurns) \in Nat /\ \A k \in 1..Len(WebTurns) : IsPrefix(WebTurns[k], WebTurns[k])
  BY WebTurnsAre
<1>3. WebTurns = <<>> => Len(WebTurns) = 0
  OBVIOUS
<1>4. /\ HeldInv'
      /\ \/ held' = NoPages /\ ~(ask.around >= 0)
         \/ held' = held
         \/ Joined(ask, WebTurns, WebTurns)
  BY <1>0, <1>1, <1>2, <1>3, AnswersAre
<1>5. PageLookInv'
  BY <1>0 DEF PageLookInv
<1>6. RevInv'
  BY <1>0 DEF RevInv
<1>7. held' = NoPages => DOMAIN held'.turns = {}
  BY DEF NoPages
<1>8. \A i \in DOMAIN held.turns : i \in Nat /\ i # 0 /\ i <= Len(held.rev) /\ held.turns[i] = held.rev[i]
  BY <1>0 DEF HeldInv, PagesInv
<1>9. ASSUME Joined(ask, WebTurns, WebTurns)
      PROVE  \A i \in DOMAIN held'.turns : i \in 1..Len(WebTurns) /\ held'.turns[i] = WebTurns[i] /\ held'.rev = WebTurns
  BY <1>2, <1>8, <1>9 DEF Joined, JoinedTurns
<1>10. PagesInv'
  <2>1. \A i \in DOMAIN held'.turns : i <= Len(held'.rev) /\ held'.turns[i] = held'.rev[i]
    BY <1>2, <1>4, <1>7, <1>8, <1>9
  <2> QED BY <1>0, <2>1 DEF PagesInv
<1>11. ASSUME held' # held
       PROVE  \A i \in DOMAIN held'.turns : i <= Len(WebTurns) /\ IsPrefix(held'.turns[i], WebTurns[i])
  BY <1>2, <1>4, <1>7, <1>9, <1>11
<1> QED BY <1>0, <1>4, <1>5, <1>6, <1>10, <1>11

-----------------------------------------------------------------------------
(* The pages of a conversation are of one conversation.                    *)

(* What the browser asks for. *)
LEMMA WantsIs == ASSUME HeldInv, NEW ask, Wants(ask) PROVE AskIs(ask)
BY DEF Wants, Latest, AskIs, CursorIs, HeldInv

(* Nothing is held yet. *)
LEMMA InitialPages == RolloutInit => HistoryInv
<1> SUFFICES ASSUME RolloutInit PROVE HistoryInv
  OBVIOUS
<1>1. /\ path = [id |-> 0, gen |-> 0, lines |-> <<>>, torn |-> FALSE, cut |-> FALSE]
      /\ cache.id = -1 /\ look.step = "none" /\ held = NoPages
  BY DEF RolloutInit, NoCache, NoLook
<1>2. /\ DOMAIN held = {"rev", "total", "turns", "older"}
      /\ held.rev = <<>> /\ held.total = 0 /\ held.turns = <<>> /\ held.older = NoCursor /\ DOMAIN held.turns = {}
  BY <1>1 DEF NoPages
<1>3. HeldInv
  BY <1>2 DEF HeldInv, CursorIs
<1>4. PageLookInv
  BY <1>1 DEF PageLookInv
<1>5. RevInv
  BY <1>1, <1>2 DEF RevInv
<1>6. PagesInv
  BY <1>2 DEF PagesInv
<1> QED BY <1>3, <1>4, <1>5, <1>6 DEF HistoryInv

(* Every step but an answer keeps the pages, and what is known of them. *)
LEMMA PagesStay ==
    ASSUME IndexReadersInv, IndexReadersInv', HistoryInv, [RolloutNext]_rolloutVars,
           ~Serves, ~\E ask \in Asking : WebServes(ask)
    PROVE  HistoryInv' /\ held' = held
<1> USE DEF IndexReadersInv
<1>1. CASE WritesPart
  <2>1. /\ path' = [path EXCEPT !.torn = TRUE] /\ cache' = cache /\ blurred' = blurred /\ held' = held
        /\ reader' = reader /\ spoiled' = spoiled /\ look' = [look EXCEPT !.quiet = FALSE]
    BY <1>1 DEF WritesPart, Changes
  <2>2. /\ path'.id = path.id /\ path'.gen = path.gen /\ path'.cut = path.cut /\ path'.lines = path.lines
        /\ Len(path.lines) \in Nat
    BY <2>1, CacheFacts DEF FileInv
  <2> QED BY <2>1, <2>2, PagesOfAGrownFile
<1>2. ASSUME NEW kind \in KindsOf[reader], WritesRecord(kind) PROVE HistoryInv' /\ held' = held
  <2>1. /\ cache' = cache /\ blurred \subseteq blurred' /\ held' = held
        /\ reader' = reader /\ spoiled' = spoiled /\ look' = [look EXCEPT !.quiet = FALSE]
    BY <1>2 DEF WritesRecord, Changes
  <2>2. /\ path'.id = path.id /\ path'.gen = path.gen
        /\ Len(path'.lines) = Len(path.lines) + 1
        /\ \A i \in 1..Len(path.lines) : path'.lines[i] = path.lines[i]
    BY <1>2, WrittenLines
  <2>3. path'.cut = path.cut
    BY <1>2 DEF WritesRecord, FileInv
  <2>4. Len(path.lines) <= Len(path'.lines)
    BY <2>2, CacheFacts
  <2> QED BY <2>1, <2>2, <2>3, <2>4, PagesOfAGrownFile
<1>3. CASE Replaces
  <2>1. /\ path' = [id |-> path.id + 1, gen |-> path.gen + 1, lines |-> <<>>, torn |-> FALSE, cut |-> FALSE]
        /\ cache' = cache /\ held' = held /\ reader' = reader /\ look' = [look EXCEPT !.quiet = FALSE]
    BY <1>3 DEF Replaces, Changes
  <2>2. path'.id = path.id + 1 /\ path'.gen = path.gen + 1 /\ ~path'.cut
    BY <2>1
  <2> QED BY <2>1, <2>2, PagesOfAnotherContent
<1>4. ASSUME NEW k \in 0..(MaxWritten - 1), Cuts(k) PROVE HistoryInv' /\ held' = held
  <2>1. /\ path' = [path EXCEPT !.gen = @ + 1, !.lines = SubSeq(@, 1, k), !.torn = FALSE, !.cut = TRUE]
        /\ cache' = cache /\ held' = held /\ reader' = reader /\ look' = [look EXCEPT !.quiet = FALSE]
        /\ (IF cache.id # path.id THEN {"revision"} ELSE {}) \subseteq blurred'
    BY <1>4 DEF Cuts, Changes
  <2>2. path'.id = path.id /\ path'.gen = path.gen + 1 /\ path'.cut
    BY <2>1 DEF FileInv
  <2>3. blurred' = {} => cache.id = path.id
    BY <2>1
  <2> QED BY <2>1, <2>2, <2>3, PagesOfAnotherContent
<1>5. CASE Evicts
  BY <1>5, PagesOfAnEviction DEF Evicts
<1>6. CASE reader \in {"tail", "activity"} /\ Looks(Latest)
  <2>1. AskIs(Latest)
    BY DEF Latest, AskIs, CursorIs
  <2>2. held' = held
    BY <1>6 DEF Looks
  <2> QED BY <1>6, <2>1, <2>2, PagesOfALook
<1>7. ASSUME NEW ask, reader = "index", AsksPage(ask) PROVE HistoryInv' /\ held' = held
  <2>1. AskIs(ask) /\ Looks(ask)
    BY <1>7, WantsIs DEF AsksPage, HistoryInv
  <2>2. held' = held
    BY <2>1 DEF Looks
  <2> QED BY <1>7, <2>1, <2>2, PagesOfALook
<1>8. CASE TailReads \/ TailFails \/ ActivityReads \/ \E last \in 1..MaxWritten : ActivityFails(last)
  <2>1. reader \in {"tail", "activity"} /\ reader' = reader /\ held' = held /\ look' = NoLook
    BY <1>8 DEF TailReads, TailFails, ActivityReads, ActivityFails, Done
  <2> QED BY <2>1, PagesOfOtherReaders
<1>9. CASE IndexReads \/ \E last \in 1..MaxWritten : IndexFails(last)
  <2>1. \A last \in 1..MaxWritten : last \in Nat
    BY LimitsArePositive
  <2>2. held' = held
    BY <1>9 DEF IndexReads, IndexFails
  <2>3. IndexReads \/ \E last \in Nat : IndexFails(last)
    BY <1>9, <2>1
  <2> QED BY <2>2, <2>3, PagesOfIndexReads
<1>10. CASE UNCHANGED rolloutVars
  <2>1. /\ reader' = reader /\ path' = path /\ cache' = cache /\ look' = look /\ held' = held
        /\ blurred' = blurred /\ spoiled' = spoiled
    BY <1>10 DEF rolloutVars
  <2>2. HeldInv' /\ PageLookInv'
    BY <2>1 DEF HeldInv, PageLookInv, HistoryInv
  <2>3. RevInv' /\ PagesInv'
    BY <2>1 DEF RevInv, PagesInv, PresentRev, HeldRight, HistoryInv
  <2> QED BY <2>1, <2>2, <2>3 DEF HistoryInv
<1> QED BY <1>1, <1>2, <1>3, <1>4, <1>5, <1>6, <1>7, <1>8, <1>9, <1>10 DEF RolloutNext

(* The cursor for older turns joins on to the first that is held. *)
OlderJoins ==
    held.older # NoCursor =>
        held.older.before = (CHOOSE i \in DOMAIN held.turns : \A j \in DOMAIN held.turns : i <= j) - 1

(* What is held says that it does. *)
LEMMA OlderJoinsOn == HeldInv => OlderJoins
<1> SUFFICES ASSUME HeldInv, held.older # NoCursor
             PROVE  held.older.before = (CHOOSE i \in DOMAIN held.turns : \A j \in DOMAIN held.turns : i <= j) - 1
  BY DEF OlderJoins
<1> DEFINE D == DOMAIN held.turns
           b == held.older.before
           first == CHOOSE i \in D : \A j \in D : i <= j
<1>1. b \in Nat /\ b + 1 \in D /\ \A i \in D : i \in Nat /\ b < i
  BY DEF HeldInv, CursorIs
<1> HIDE DEF D, b
<1>2. \A j \in D : b + 1 <= j
  BY <1>1
<1>3. first \in D /\ \A j \in D : first <= j
  BY <1>1, <1>2
<1> HIDE DEF first
<1>4. b = first - 1
  BY <1>1, <1>3
<1> QED BY <1>4 DEF first, b, D

(* So it does after a step. *)
LEMMA OlderStillJoinsOn == HeldInv' => OlderJoins'
BY OlderJoinsOn, PTL

(* An answer shows one conversation. *)
LEMMA AnswersShowOne ==
    ASSUME IndexReadersInv, IndexReadersInv', HistoryInv, Serves \/ \E ask \in Asking : WebServes(ask)
    PROVE  /\ HistoryInv'
           /\ held' # held /\ blurred = {} /\ ~spoiled /\ (reader = "index" => look.gen = path.gen) =>
                  /\ OneConversation
                  /\ reader = "index" /\ look.ask.around >= 0 => look.ask.around + 1 \in DOMAIN held'.turns
<1> USE DEF IndexReadersInv
<1>1. HeldInv' =>
          (held'.older # NoCursor =>
              held'.older.before = (CHOOSE i \in DOMAIN held'.turns : \A j \in DOMAIN held'.turns : i <= j) - 1)
  BY OlderStillJoinsOn DEF OlderJoins
<1>2. CASE Serves
  <2>1. /\ HistoryInv' /\ reader = "index"
        /\ held' # held /\ blurred = {} /\ ~spoiled /\ look.gen = path.gen =>
               /\ HeldRight(path.lines, held'.turns)
               /\ look.ask.around >= 0 => look.ask.around + 1 \in DOMAIN held'.turns
    BY <1>2, ServesKeeps
  <2>2. ASSUME HeldRight(path.lines, held'.turns) PROVE OneConversation
    <3> DEFINE turns == [k \in DOMAIN TrueTurns |-> TextOf(TrueTurns[k])]
               last == Len(path.lines)
    <3>1. PICK n \in Nat : n = last /\ n <= Len(path.lines)
      BY CacheFacts
    <3>2. /\ TrueTurns = TurnsOf(path.lines, n)
          /\ Len(TrueTurns) \in Nat /\ DOMAIN TrueTurns = 1..Len(TrueTurns)
      <4>1. TrueTurns = TurnsOf(path.lines, n)
        BY <3>1 DEF TrueTurns
      <4>2. TurnsOf(path.lines, n) \in Seq(Seq(1..n))
        BY TurnsAreSeqs
      <4> DEFINE V == Seq(1..n)
      <4> HIDE DEF V
      <4>3. TrueTurns \in Seq(V)
        BY <4>1, <4>2 DEF V
      <4> QED BY <4>1, <4>3
    <3>3. \A k \in 1..Len(TrueTurns) : TextOf(TrueTurns[k]) = Text(path.lines, TrueTurns[k])
      BY <3>1, <3>2, TextIs DEF FileInv
    <3>4. DOMAIN turns = 1..Len(TrueTurns) /\ \A k \in 1..Len(TrueTurns) : turns[k] = Text(path.lines, TrueTurns[k])
      BY <3>2, <3>3
    <3>5. Len(turns) = Len(TrueTurns)
      <4> DEFINE m == Len(TrueTurns)
                 V == {turns[k] : k \in 1..m}
      <4>1. m \in Nat
        BY <3>2
      <4>2. turns \in [1..m -> V]
        BY <3>2
      <4> HIDE DEF turns, V, m
      <4>3. Len(turns) = m
        BY <4>1, <4>2, FunctionIsSeq
      <4> QED BY <4>3 DEF m
    <3>6. \A i \in DOMAIN held'.turns :
             /\ i \in 1..Len(TrueTurns)
             /\ IsPrefix(held'.turns[i], Text(path.lines, TrueTurns[i]))
      BY <2>2, <3>1, <3>2 DEF HeldRight
    <3> HIDE DEF turns
    <3>7. \A i \in DOMAIN held'.turns : i <= Len(turns) /\ IsPrefix(held'.turns[i], turns[i])
      BY <3>2, <3>4, <3>5, <3>6
    <3>8. reader # "web"
      BY <2>1
    <3> QED BY <1>1, <2>1, <3>7, <3>8 DEF OneConversation, turns, HistoryInv
  <2> QED BY <2>1, <2>2
<1>3. ASSUME NEW ask \in Asking, WebServes(ask)
      PROVE  HistoryInv' /\ reader = "web" /\ (held' # held => OneConversation)
  <2>1. /\ HistoryInv' /\ reader = "web"
        /\ held' # held =>
               \A i \in DOMAIN held'.turns : i <= Len(WebTurns) /\ IsPrefix(held'.turns[i], WebTurns[i])
    BY <1>3, WebServesKeeps
  <2> QED BY <1>1, <2>1 DEF OneConversation, HistoryInv
<1> QED BY <1>2, <1>3

(* What a browser holds of a conversation is one conversation: however its *)
(* pages are cut, asked for and answered, and whatever becomes of the file *)
(* in between, codex_history_page and mergePage give turns of the present  *)
(* file, each up to where it had grown, a cursor for what comes before the *)
(* first, and the turn it jumped to.                                       *)
THEOREM HistoryIsOne == RolloutSpec => HistoryIsOneConversation
<1>1. RolloutInit => HistoryInv
  BY InitialPages
<1>2. IndexReadersInv /\ IndexReadersInv' /\ HistoryInv /\ [RolloutNext]_rolloutVars => HistoryInv'
  BY PagesStay, AnswersShowOne
<1>3. IndexReadersInv /\ IndexReadersInv' /\ HistoryInv /\ [RolloutNext]_rolloutVars =>
        [held' # held /\ blurred = {} /\ ~spoiled /\ (reader = "index" => look.gen = path.gen)
           => /\ OneConversation
              /\ reader = "index" /\ look.ask.around >= 0 => look.ask.around + 1 \in DOMAIN held'.turns]_rolloutVars
  BY PagesStay, AnswersShowOne
<1> QED BY <1>1, <1>2, <1>3, ReadersFitTheirFile, PTL DEF RolloutSpec, HistoryIsOneConversation
=============================================================================
