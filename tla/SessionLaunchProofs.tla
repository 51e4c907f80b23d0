------------------------ MODULE SessionLaunchProofs ------------------------
(***************************************************************************)
(* For any number of names, threads, launch ids and limits: the two        *)
(* backends keep their names, threads and launch ids apart, no two         *)
(* sessions are for one thread, the running limit is kept, and a restart   *)
(* of the Owner loses no web session.                                      *)
(***************************************************************************)
EXTENDS SessionLaunch, FiniteSetTheorems, WellFoundedInduction, TLAPS

USE NoneAssumption, BoundsAssumption

-----------------------------------------------------------------------------
(* Names.                                                                  *)

(* While a name is free, the next name is a free one. *)
LEMMA NextNameIsFree == ASSUME NEW used, Names \ used # {} PROVE NextName(used) \in Names \ used
<1> DEFINE R == OpToRel(<, Nat)
<1>1. Names \ used \subseteq Nat
  BY DEF Names
<1>2. IsWellFoundedOn(R, Nat)
  BY NatLessThanWellFounded
<1>3. \A m, n \in Nat : m < n => <<m, n>> \in R
  BY DEF OpToRel
<1> HIDE DEF R
<1>4. PICK n \in Names \ used : \A m \in Names \ used : ~(<<m, n>> \in R)
  BY <1>1, <1>2, WFMin
<1>5. \A m \in Names \ used : ~(m < n)
  BY <1>1, <1>3, <1>4
<1>6. \A m \in Names \ used : n <= m
  BY <1>1, <1>5
<1>7. QED BY <1>6 DEF NextName

-----------------------------------------------------------------------------
(* Types.                                                                  *)

(* What an answer adds to the registry. *)
LEMMA AddsType ==
    ASSUME TypeOK, NEW o \in Operations, NEW isLate \in BOOLEAN, Adds(o, isLate)
    PROVE  web' \in [Names -> Records \cup {None}] /\ known' \subseteq Threads
<1>1. PICK t \in Answer(o) :
          /\ web' = [web EXCEPT ![o.name] = [thread |-> t, launch |-> o.launch, late |-> isLate]]
          /\ known' = known \cup {t}
  BY DEF Adds
<1>2. t \in Threads
  BY DEF Answer, Operations
<1>3. [thread |-> t, launch |-> o.launch, late |-> isLate] \in Records
  BY <1>2 DEF Records, Operations
<1>4. QED BY <1>1, <1>2, <1>3 DEF TypeOK

(* What a start does. *)
LEMMA StartsType ==
    ASSUME TypeOK, NEW t \in Threads \cup {None}, NEW l \in Launches \cup {None}, Starts(t, l)
    PROVE  tmux' \in [Names -> Sessions \cup {None}] /\ op' \in Operations \cup {None}
<1>1. PICK gone \in SUBSET IdleShells, limit \in Limits :
        LET used == Reserved(Terminals \ gone, WebNames) IN
        /\ used # Names
        /\ tmux' = [n \in Names |-> IF n \in gone THEN None ELSE tmux[n]]
        /\ op' = IF Room(limit)
                  THEN [step |-> "create", name |-> NextName(used), thread |-> t, launch |-> l, limit |-> limit]
                  ELSE None
  BY DEF Starts
<1>2. NextName(Reserved(Terminals \ gone, WebNames)) \in Names
  BY <1>1, NextNameIsFree DEF Reserved, Terminals, WebNames
<1>3. tmux' \in [Names -> Sessions \cup {None}]
  BY <1>1 DEF TypeOK
<1>4. CASE Room(limit)
  BY <1>1, <1>2, <1>3, <1>4 DEF Operations, Steps
<1>5. CASE ~Room(limit)
  BY <1>1, <1>3, <1>5
<1>6. QED BY <1>4, <1>5

(* What a web start does. *)
LEMMA AsksType ==
    ASSUME TypeOK, NEW t \in Threads \cup {None}, NEW l \in Launches \cup {None}, Asks(t, l)
    PROVE  op' \in Operations
<1> DEFINE used == Reserved(WebNames, Terminals)
<1>1. NextName(used) \in Names
  BY NextNameIsFree DEF Asks, Reserved, Terminals, WebNames
<1>2. QED BY <1>1 DEF Asks, Operations, Steps

(* An operation goes on. *)
LEMMA OpStepType == ASSUME NEW o \in Operations, NEW step \in Steps PROVE [o EXCEPT !.step = step] \in Operations
BY DEF Operations

(* What happens to a session gives a session. *)
LEMMA SessionTypes ==
    ASSUME NEW s \in Sessions, NEW u \in Threads \cup {None}
    PROVE  /\ [s EXCEPT !.managed = TRUE] \in Sessions
           /\ [s EXCEPT !.whole = TRUE, !.recorded = u] \in Sessions
           /\ [s EXCEPT !.prog = "shell", !.aim = None] \in Sessions
           /\ [s EXCEPT !.prog = "codex", !.aim = None, !.thread = u] \in Sessions
           /\ [s EXCEPT !.recorded = u] \in Sessions
<1>1. [s EXCEPT !.managed = TRUE] \in Sessions BY DEF Sessions
<1>2. [s EXCEPT !.whole = TRUE, !.recorded = u] \in Sessions BY DEF Sessions
<1>3. [s EXCEPT !.prog = "shell", !.aim = None] \in Sessions BY DEF Sessions
<1>4. [s EXCEPT !.prog = "codex", !.aim = None, !.thread = u] \in Sessions BY DEF Sessions
<1>5. [s EXCEPT !.recorded = u] \in Sessions BY DEF Sessions
<1>6. QED BY <1>1, <1>2, <1>3, <1>4, <1>5

(* So does what happens to its Codex. *)
LEMMA CodexTypes ==
    ASSUME NEW s \in Sessions
    PROVE  /\ [s EXCEPT !.open = TRUE] \in Sessions
           /\ [s EXCEPT !.open = FALSE, !.behind = None] \in Sessions
           /\ [s EXCEPT !.prog = "shell", !.thread = None, !.open = FALSE, !.behind = None] \in Sessions
<1>1. [s EXCEPT !.open = TRUE] \in Sessions BY DEF Sessions
<1>2. [s EXCEPT !.open = FALSE, !.behind = None] \in Sessions BY DEF Sessions
<1>3. [s EXCEPT !.prog = "shell", !.thread = None, !.open = FALSE, !.behind = None] \in Sessions BY DEF Sessions
<1>4. QED BY <1>1, <1>2, <1>3

(* Every step keeps the types. *)
LEMMA TypeStep == TypeOK /\ [Next]_vars => TypeOK'
<1> SUFFICES ASSUME TypeOK, [Next]_vars PROVE TypeOK'
  OBVIOUS
<1>o. op # None => op \in Operations
  BY DEF TypeOK
<1>s. \A n \in Names : tmux[n] # None => tmux[n] \in Sessions
  BY DEF TypeOK
<1>1. ASSUME NEW l \in Launches, NewTerminal(l) PROVE TypeOK'
  BY <1>1, StartsType DEF NewTerminal, TypeOK
<1>2. ASSUME NEW l \in Launches, NewWeb(l) PROVE TypeOK'
  BY <1>2, AsksType DEF NewWeb, Asks, TypeOK
<1>3. ASSUME NEW t \in Threads, ResumeTerminal(t) PROVE TypeOK'
  BY <1>3, StartsType DEF ResumeTerminal, TypeOK
<1>4. ASSUME NEW t \in Threads, ResumeWeb(t) PROVE TypeOK'
  BY <1>4, AsksType DEF ResumeWeb, Asks, TypeOK
<1>5. CASE NewTmuxSession
  <2>1. op \in Operations
    BY <1>5, <1>o DEF NewTmuxSession
  <2>2. NewSession \in Sessions
    BY <2>1 DEF NewSession, Sessions, Operations
  <2>3. op' \in Operations \cup {None}
    BY <1>5, <2>1, OpStepType DEF NewTmuxSession, GoesOn, Steps
  <2>4. tmux' \in [Names -> Sessions \cup {None}]
    BY <1>5, <2>2 DEF NewTmuxSession, TypeOK
  <2>5. QED BY <1>5, <2>3, <2>4 DEF NewTmuxSession, TypeOK
<1>6. ASSUME NEW step, NEW then \in Steps \cup {"done"}, NEW labelled,
             op # None /\ tmux[op.name] # None => labelled \in Sessions,
             Label(step, then, labelled)
      PROVE  TypeOK'
  <2>1. op' \in Operations \cup {None}
    BY <1>6, <1>o, OpStepType DEF Label
  <2>2. tmux' \in [Names -> Sessions \cup {None}]
    BY <1>6 DEF Label, TypeOK
  <2>3. QED BY <1>6, <2>1, <2>2 DEF Label, TypeOK
<1>n. op # None => op.name \in Names /\ op.launch \in Launches \cup {None} /\ op.thread \in Threads \cup {None}
  BY <1>o DEF Operations
<1>7. CASE MarkManaged
  <2>1. op # None /\ tmux[op.name] # None => [tmux[op.name] EXCEPT !.managed = TRUE] \in Sessions
    BY <1>n, <1>s, SessionTypes
  <2>2. QED BY <1>7, <1>6, <2>1 DEF MarkManaged, Steps
<1>8. CASE LabelLaunch
  <2>1. op # None /\ tmux[op.name] # None => tmux[op.name].launch \in Launches \cup {None}
    BY <1>n, <1>s DEF Sessions
  <2>2. op # None /\ tmux[op.name] # None =>
            [tmux[op.name] EXCEPT !.launch = IF op.launch # None THEN op.launch ELSE @] \in Sessions
    BY <2>1, <1>n, <1>s DEF Sessions
  <2>3. QED BY <1>8, <1>6, <2>2 DEF LabelLaunch, Steps
<1>9. CASE RecordThread
  <2> DEFINE t == IF op.thread # None THEN op.thread ELSE tmux[op.name].recorded
  <2>1. op # None /\ tmux[op.name] # None => t \in Threads \cup {None} /\ tmux[op.name] \in Sessions
    BY <1>n, <1>s DEF Sessions
  <2> HIDE DEF t
  <2>2. op # None /\ tmux[op.name] # None => [tmux[op.name] EXCEPT !.whole = TRUE, !.recorded = t] \in Sessions
    BY <2>1, SessionTypes
  <2> USE DEF t
  <2>3. QED BY <1>9, <1>6, <2>2 DEF RecordThread, Steps
<1>10. CASE WebStarts
  BY <1>10, <1>o, AddsType DEF WebStarts, TypeOK
<1>11. CASE WebFails \/ WebTimesOut
  BY <1>11 DEF WebFails, WebTimesOut, TypeOK
<1>12. ASSUME NEW n \in Names, CloseWeb(n) PROVE TypeOK'
  BY <1>12 DEF CloseWeb, TypeOK
<1>13. CASE LateAnswer
  BY <1>13, AddsType DEF LateAnswer, TypeOK
<1>14. CASE CancelLands \/ KillSession
  BY <1>14 DEF CancelLands, KillSession, TypeOK
<1>15. CASE OwnerRestarts
  <2>1. web' \in [Names -> Records \cup {None}]
    BY <1>15 DEF OwnerRestarts, TypeOK, Conflicts, WebNames
  <2>2. QED BY <1>15, <2>1 DEF OwnerRestarts, TypeOK
<1>16. ASSUME NEW n \in Names, ClosesTerminal(n) PROVE TypeOK'
  BY <1>16 DEF ClosesTerminal, TypeOK
<1>17. ASSUME NEW n \in Names, Terminal(n) PROVE TypeOK'
  <2>1. ASSUME NEW s \in Sessions, Pane(n, s), known' \subseteq Threads PROVE TypeOK'
    BY <2>1 DEF Pane, TypeOK
  <2>2. known \subseteq Threads
    BY DEF TypeOK
  <2>3. CASE CodexStarts(n)
    <3>1. tmux[n] \in Sessions /\ tmux[n].aim \in Threads \cup {None}
      BY <2>3, <1>s DEF CodexStarts, Sessions
    <3>2. /\ [tmux[n] EXCEPT !.prog = "shell", !.aim = None] \in Sessions
          /\ [tmux[n] EXCEPT !.prog = "codex", !.aim = None, !.thread = tmux[n].aim] \in Sessions
      BY <3>1, SessionTypes
    <3>3. QED BY <2>1, <2>2, <2>3, <3>2 DEF CodexStarts
  <2>4. CASE NewThread(n)
    <3>1. tmux[n] \in Sessions
      BY <2>4, <1>s DEF NewThread
    <3>2. PICK t \in Threads \ known :
              /\ Pane(n, [tmux[n] EXCEPT !.thread = t, !.open = TRUE, !.behind = IF tmux[n].open THEN tmux[n].thread ELSE @])
              /\ known' = known \cup {t}
      BY <2>4 DEF NewThread
    <3>3. [tmux[n] EXCEPT !.thread = t, !.open = TRUE, !.behind = IF tmux[n].open THEN tmux[n].thread ELSE @] \in Sessions
      BY <3>1 DEF Sessions
    <3>4. QED BY <2>1, <2>2, <3>2, <3>3
  <2>5. CASE OpensRollout(n)
    BY <2>1, <2>2, <2>5, <1>s, CodexTypes DEF OpensRollout
  <2>6. CASE ClosesRollouts(n)
    BY <2>1, <2>2, <2>6, <1>s, CodexTypes DEF ClosesRollouts
  <2>7. CASE Quits(n)
    BY <2>1, <2>2, <2>7, <1>s, CodexTypes DEF Quits
  <2>8. CASE Observes(n)
    <3>1. tmux[n] \in Sessions /\ tmux[n].thread \in Threads \cup {None}
      BY <2>8, <1>s DEF Observes, Sessions
    <3>2. [tmux[n] EXCEPT !.recorded = tmux[n].thread] \in Sessions
      BY <3>1 DEF Sessions
    <3>3. QED BY <2>1, <2>2, <2>8, <3>2 DEF Observes
  <2>9. CASE OpensByHand(n)
    BY <2>9 DEF OpensByHand, TypeOK, Sessions
  <2>10. QED BY <1>17, <2>3, <2>4, <2>5, <2>6, <2>7, <2>8, <2>9 DEF Terminal
<1>18. CASE UNCHANGED vars
  BY <1>18 DEF vars, TypeOK
<1>19. QED
  BY <1>1, <1>2, <1>3, <1>4, <1>5, <1>7, <1>8, <1>9, <1>10, <1>11, <1>12, <1>13, <1>14, <1>15, <1>16, <1>17, <1>18
  DEF Next, Lock, Beside

(* Every variable keeps its type. *)
THEOREM TypeCorrect == Spec => []TypeOK
<1>1. Init => TypeOK
  BY DEF Init, TypeOK
<1>2. QED BY <1>1, TypeStep, PTL DEF Spec

-----------------------------------------------------------------------------
(* A restart of the Owner moves records one to one to free names.          *)

(* Each record after a restart is one from before: src says of which name. *)
LEMMA RestartMoves ==
    ASSUME TypeOK, OwnerRestarts
    PROVE  \E src \in [Names -> Names] :
               /\ \A n \in Names : web'[n] # None => web'[n] = web[src[n]]
               /\ \A n, m \in Names : web'[n] # None /\ web'[m] # None /\ src[n] = src[m] => n = m
               /\ \A m \in WebNames : \E n \in Names : web'[n] = web[m]
               /\ \A n \in Names : web'[n] # None => tmux'[n] = None
<1>1. PICK new \in [Conflicts -> Names] :
          /\ Renaming(new)
          /\ web' = [n \in Names |->
                       IF \E k \in Conflicts : new[k] = n
                       THEN web[CHOOSE k \in Conflicts : new[k] = n]
                       ELSE IF n \in Conflicts THEN None ELSE web[n]]
  BY DEF OwnerRestarts
<1>2. Conflicts \subseteq Names /\ Conflicts = WebNames \cap Terminals
  BY DEF Conflicts, WebNames
<1>3. \A k, m \in Conflicts : new[k] = new[m] => k = m
  BY <1>1 DEF Renaming
<1>4. \A k \in Conflicts : new[k] \in Names /\ new[k] \notin Terminals /\ new[k] \notin WebNames
  BY <1>1 DEF Renaming, Reserved
<1>5. \A k \in Conflicts : (CHOOSE j \in Conflicts : new[j] = new[k]) = k
  BY <1>3
<1> DEFINE src == [n \in Names |-> IF \E k \in Conflicts : new[k] = n THEN CHOOSE k \in Conflicts : new[k] = n ELSE n]
<1>6. \A k \in Conflicts : web'[new[k]] = web[k] /\ src[new[k]] = k
  BY <1>1, <1>4, <1>5
<1>7. \A n \in Names : (\A k \in Conflicts : new[k] # n) => src[n] = n /\ web'[n] = IF n \in Conflicts THEN None ELSE web[n]
  BY <1>1
<1>8. src \in [Names -> Names]
  BY <1>2, <1>6, <1>7
<1>9. ASSUME NEW n \in Names, web'[n] # None PROVE web'[n] = web[src[n]]
  <2>1. CASE \E k \in Conflicts : new[k] = n
    BY <1>6, <2>1
  <2>2. CASE \A k \in Conflicts : new[k] # n
    BY <1>7, <1>9, <2>2
  <2>3. QED BY <2>1, <2>2
<1>10. ASSUME NEW n \in Names, NEW m \in Names, web'[n] # None, web'[m] # None, src[n] = src[m] PROVE n = m
  <2>1. CASE \E k \in Conflicts : new[k] = n
    <3>1. src[n] \in Conflicts /\ new[src[n]] = n
      BY <1>6, <2>1
    <3>2. \E k \in Conflicts : new[k] = m
      BY <1>7, <1>10, <3>1
    <3>3. QED BY <1>6, <1>10, <3>1, <3>2
  <2>2. CASE \A k \in Conflicts : new[k] # n
    <3>1. src[n] = n /\ n \notin Conflicts
      BY <1>7, <1>10, <2>2
    <3>2. \A k \in Conflicts : new[k] # m
      BY <1>6, <1>10, <3>1
    <3>3. QED BY <1>7, <1>10, <3>1, <3>2
  <2>3. QED BY <2>1, <2>2
<1>11. ASSUME NEW m \in WebNames PROVE \E n \in Names : web'[n] = web[m]
  <2>1. CASE m \in Conflicts
    BY <1>4, <1>6, <2>1
  <2>2. CASE m \notin Conflicts
    <3>1. m \in Names /\ \A k \in Conflicts : new[k] # m
      BY <1>4 DEF WebNames
    <3>2. QED BY <1>7, <2>2, <3>1
  <2>3. QED BY <2>1, <2>2
<1>12. ASSUME NEW n \in Names, web'[n] # None PROVE tmux'[n] = None
  <2>1. tmux' = tmux
    BY DEF OwnerRestarts
  <2>2. CASE \E k \in Conflicts : new[k] = n
    BY <1>4, <2>1, <2>2 DEF Terminals
  <2>3. CASE \A k \in Conflicts : new[k] # n
    BY <1>2, <1>7, <1>12, <2>1, <2>3 DEF Terminals, WebNames
  <2>4. QED BY <2>2, <2>3
<1> HIDE DEF src
<1>13. QED BY <1>8, <1>9, <1>10, <1>11, <1>12

(* A restart takes the names apart and loses no web session. *)
THEOREM RestartsKeepThreads == Spec => RestartKeepsThreads
<1>1. ASSUME TypeOK, OwnerRestarts PROVE ThreadsOnWeb' = ThreadsOnWeb /\ Conflicts' = {}
  <2>1. PICK src \in [Names -> Names] :
               /\ \A n \in Names : web'[n] # None => web'[n] = web[src[n]]
               /\ \A m \in WebNames : \E n \in Names : web'[n] = web[m]
               /\ \A n \in Names : web'[n] # None => tmux'[n] = None
    BY <1>1, RestartMoves
  <2>2. Conflicts' = {}
    BY <2>1 DEF Conflicts, WebNames, Terminals
  <2>3. \A n \in Names : web'[n] # None => src[n] \in WebNames /\ web'[n].thread = web[src[n]].thread
    BY <2>1 DEF WebNames
  <2>4. ThreadsOnWeb' \subseteq ThreadsOnWeb
    BY <2>3 DEF ThreadsOnWeb, WebNames
  <2>5. ASSUME NEW m \in WebNames PROVE web[m].thread \in ThreadsOnWeb'
    <3>1. PICK n \in Names : web'[n] = web[m]
      BY <2>1
    <3>2. n \in WebNames'
      BY <3>1 DEF WebNames
    <3>3. QED BY <3>1, <3>2 DEF ThreadsOnWeb
  <2>6. ThreadsOnWeb \subseteq ThreadsOnWeb'
    BY <2>5 DEF ThreadsOnWeb
  <2>7. QED BY <2>2, <2>4, <2>6
<1>2. TypeOK /\ [Next]_vars => [OwnerRestarts => ThreadsOnWeb' = ThreadsOnWeb /\ Conflicts' = {}]_vars
  BY <1>1
<1>3. QED BY <1>2, TypeCorrect, PTL DEF Spec, RestartKeepsThreads

-----------------------------------------------------------------------------
(* What a step does to the session of a name: it is made, by the start of  *)
(* that name or by a person, or it stays the same session; a person's has  *)
(* no Codex, and only the start of its name manages or labels it.          *)

Made(n) ==
    /\ tmux[n] = None
    /\ \/ op # None /\ op.step = "create" /\ op.name = n /\ NewTmuxSession /\ tmux'[n] = NewSession
       \/ /\ tmux'[n].hand /\ tmux'[n].prog = "shell" /\ ~tmux'[n].managed /\ ~tmux'[n].whole
          /\ tmux'[n].launch = None

Stayed(n) ==
    /\ tmux[n] # None
    /\ tmux'[n].hand = tmux[n].hand
    /\ tmux'[n].prog # "shell" => tmux[n].prog # "shell"
    /\ tmux'[n].managed = tmux[n].managed \/ (op # None /\ op.step = "manage" /\ op.name = n /\ MarkManaged)
    /\ \/ tmux'[n].launch = tmux[n].launch
       \/ op # None /\ op.step = "label" /\ op.name = n /\ LabelLaunch /\ tmux'[n].launch = op.launch

(* Every step does one of the two. *)
LEMMA SessionSteps == ASSUME TypeOK, [Next]_vars, NEW n \in Names, tmux'[n] # None PROVE Made(n) \/ Stayed(n)
<1> USE DEF Stayed
<1>s. tmux[n] # None => tmux[n] \in Sessions
  BY DEF TypeOK
<1>t. tmux \in [Names -> Sessions \cup {None}]
  BY DEF TypeOK
<1>o. op # None => op \in Operations /\ op.name \in Names
  BY DEF TypeOK, Operations
<1>1. ASSUME NEW t, NEW l, Starts(t, l) PROVE Stayed(n)
  BY <1>1, <1>t DEF Starts
<1>2. CASE NewTmuxSession
  <2>1. CASE tmux[op.name] # None \/ op.name # n
    BY <1>2, <1>o, <1>t, <2>1 DEF NewTmuxSession
  <2>2. CASE tmux[op.name] = None /\ op.name = n
    BY <1>2, <1>t, <2>2 DEF NewTmuxSession, Made
  <2>3. QED BY <2>1, <2>2
<1>3. CASE MarkManaged
  <2>1. CASE op.name = n /\ tmux[n] # None
    BY <1>3, <1>s, <1>t, <2>1 DEF MarkManaged, Label, Sessions
  <2>2. CASE op.name # n \/ tmux[n] = None
    BY <1>3, <1>o, <1>t, <2>2 DEF MarkManaged, Label
  <2>3. QED BY <2>1, <2>2
<1>4. CASE LabelLaunch
  <2>1. CASE op.name = n /\ tmux[n] # None
    BY <1>4, <1>s, <1>t, <2>1 DEF LabelLaunch, Label, Sessions
  <2>2. CASE op.name # n \/ tmux[n] = None
    BY <1>4, <1>o, <1>t, <2>2 DEF LabelLaunch, Label
  <2>3. QED BY <2>1, <2>2
<1>5. CASE RecordThread
  <2>1. CASE op.name = n /\ tmux[n] # None
    BY <1>5, <1>s, <1>t, <2>1 DEF RecordThread, Label, Sessions
  <2>2. CASE op.name # n \/ tmux[n] = None
    BY <1>5, <1>o, <1>t, <2>2 DEF RecordThread, Label
  <2>3. QED BY <2>1, <2>2
<1>6. CASE KillSession
  BY <1>6, <1>t DEF KillSession, TypeOK
<1>7. ASSUME NEW m \in Names, Terminal(m) PROVE Made(n) \/ Stayed(n)
  <2>1. CASE m # n
    BY <1>7, <1>t, <2>1 DEF Terminal, CodexStarts, NewThread, OpensRollout, ClosesRollouts, Quits, Observes, OpensByHand, Pane
  <2>2. CASE m = n /\ OpensByHand(n)
    BY <1>t, <2>2 DEF OpensByHand, Made
  <2>3. CASE m = n /\ ~OpensByHand(n)
    <3>1. tmux[n] \in Sessions
      BY <1>7, <1>s, <2>3 DEF Terminal, CodexStarts, NewThread, OpensRollout, ClosesRollouts, Quits, Observes
    <3>2. CASE CodexStarts(n)
      BY <1>t, <3>1, <3>2 DEF CodexStarts, Pane, Sessions
    <3>3. CASE NewThread(n)
      BY <1>t, <3>1, <3>3 DEF NewThread, Pane, Sessions
    <3>4. CASE OpensRollout(n)
      BY <1>t, <3>1, <3>4 DEF OpensRollout, Pane, Sessions
    <3>5. CASE ClosesRollouts(n)
      BY <1>t, <3>1, <3>5 DEF ClosesRollouts, Pane, Sessions
    <3>6. CASE Quits(n)
      BY <1>t, <3>1, <3>6 DEF Quits, Pane, Sessions
    <3>7. CASE Observes(n)
      BY <1>t, <3>1, <3>7 DEF Observes, Pane, Sessions
    <3>8. QED BY <1>7, <2>3, <3>2, <3>3, <3>4, <3>5, <3>6, <3>7 DEF Terminal
  <2>4. QED BY <2>1, <2>2, <2>3
<1>8. CASE UNCHANGED tmux
  BY <1>8
<1>9. QED
  BY <1>1, <1>2, <1>3, <1>4, <1>5, <1>6, <1>7, <1>8
  DEF Next, Lock, Beside, NewTerminal, NewWeb, ResumeTerminal, ResumeWeb, Asks, WebStarts, WebFails, WebTimesOut,
      CloseWeb, LateAnswer, CancelLands, OwnerRestarts, ClosesTerminal, vars

(* The holder of the lock goes on, ends, or another begins. *)
OpStays == op' = None \/ op' = op

(* What begins has a free name; what goes on keeps its name, thread, launch *)
(* id and limit.                                                            *)
LEMMA OpSteps ==
    ASSUME TypeOK, [Next]_vars, op' # None
    PROVE  \/ op' = op
           \/ op = None /\ op'.step = "create" /\ web' = web /\ late' = late /\ known' = known
                /\ op'.name \in Names /\ op'.name \notin WebNames /\ tmux'[op'.name] = None
                /\ \E limit \in Limits : op'.limit = limit /\ Room(limit)
                /\ \/ op'.thread = None /\ \E l \in Launches : op'.launch = l /\ NotLaunched(l)
                   \/ op'.launch = None /\ \E t \in known : op'.thread = t /\ ResumeTerminal(t)
           \/ op = None /\ op'.step = "rpc" /\ late = None /\ UNCHANGED <<tmux, web, late, known>>
                /\ op'.name \in Names /\ web[op'.name] = None /\ tmux[op'.name] = None
                /\ \/ op'.thread = None /\ \E l \in Launches : op'.launch = l /\ NewWeb(l)
                   \/ op'.launch = None /\ \E t \in known : op'.thread = t /\ ResumeWeb(t)
           \/ op # None /\ UNCHANGED <<web, late, known>>
                /\ op'.name = op.name /\ op'.thread = op.thread /\ op'.launch = op.launch
                /\ \/ op.step = "create" /\ op'.step = "manage" /\ NewTmuxSession
                   \/ op.step = "manage" /\ op'.step = "label" /\ MarkManaged
                   \/ op.step = "label" /\ op'.step = "record" /\ LabelLaunch
<1>o. op # None => op \in Operations /\ op.step \in Steps
  BY DEF TypeOK, Operations
<1>1. ASSUME NEW t \in Threads \cup {None}, NEW l \in Launches \cup {None}, Starts(t, l)
      PROVE  /\ op'.step = "create" /\ op'.name \in Names /\ op'.name \notin WebNames /\ tmux'[op'.name] = None
             /\ op'.thread = t /\ op'.launch = l /\ \E limit \in Limits : op'.limit = limit /\ Room(limit)
  <2>1. PICK gone \in SUBSET IdleShells, limit \in Limits :
          LET used == Reserved(Terminals \ gone, WebNames) IN
          /\ used # Names
          /\ tmux' = [n \in Names |-> IF n \in gone THEN None ELSE tmux[n]]
          /\ op' = IF Room(limit)
                  THEN [step |-> "create", name |-> NextName(used), thread |-> t, launch |-> l, limit |-> limit]
                  ELSE None
    BY <1>1 DEF Starts
  <2> DEFINE used == Reserved(Terminals \ gone, WebNames)
  <2>2. NextName(used) \in Names \ used
    BY <2>1, NextNameIsFree DEF Reserved, Terminals, WebNames
  <2>3. tmux'[NextName(used)] = None
    BY <2>1, <2>2 DEF Reserved, Terminals
  <2>4. Room(limit)
    BY <2>1
  <2>5. op' = [step |-> "create", name |-> NextName(used), thread |-> t, launch |-> l, limit |-> limit]
    BY <2>1, <2>4
  <2> HIDE DEF used
  <2>6. NextName(used) \notin WebNames
    BY <2>2 DEF used, Reserved
  <2>7. QED BY <2>2, <2>3, <2>4, <2>5, <2>6
<1>2. ASSUME NEW t \in Threads \cup {None}, NEW l \in Launches \cup {None}, Asks(t, l)
      PROVE  /\ op'.step = "rpc" /\ op'.name \in Names /\ web[op'.name] = None /\ tmux[op'.name] = None
             /\ op'.thread = t /\ op'.launch = l /\ op = None /\ late = None /\ UNCHANGED <<tmux, web, late, known>>
  <2> DEFINE used == Reserved(WebNames, Terminals)
  <2>1. NextName(used) \in Names \ used
    BY <1>2, NextNameIsFree DEF Asks, Reserved, Terminals, WebNames
  <2>2. op' = [step |-> "rpc", name |-> NextName(used), thread |-> t, launch |-> l, limit |-> 0]
    BY <1>2 DEF Asks
  <2>3. web[NextName(used)] = None /\ tmux[NextName(used)] = None
    BY <2>1 DEF Reserved, WebNames, Terminals
  <2> HIDE DEF used
  <2>4. QED BY <1>2, <2>1, <2>2, <2>3 DEF Asks
<1>3. ASSUME NEW l \in Launches, NewTerminal(l) PROVE op = None /\ UNCHANGED <<web, late, known>> /\ NotLaunched(l) /\ Starts(None, l)
  BY <1>3 DEF NewTerminal
<1>4. ASSUME NEW t \in Threads, ResumeTerminal(t) PROVE op = None /\ UNCHANGED <<web, late, known>> /\ t \in known /\ Starts(t, None)
  BY <1>4 DEF ResumeTerminal
<1>5. ASSUME NEW l \in Launches, NewWeb(l) PROVE Asks(None, l)
  BY <1>5 DEF NewWeb
<1>6. ASSUME NEW t \in Threads, ResumeWeb(t) PROVE Asks(t, None) /\ t \in known
  BY <1>6 DEF ResumeWeb
<1>7. CASE NewTmuxSession
  BY <1>7, <1>o DEF NewTmuxSession, GoesOn, Operations
<1>8. CASE MarkManaged
  BY <1>8, <1>o DEF MarkManaged, Label, Operations
<1>9. CASE LabelLaunch
  BY <1>9, <1>o DEF LabelLaunch, Label, Operations
<1>10. CASE OpStays
  BY <1>10 DEF OpStays
<1>11. OpStays \/ (\E l \in Launches : NewTerminal(l) \/ NewWeb(l)) \/ (\E t \in Threads : ResumeTerminal(t) \/ ResumeWeb(t))
           \/ NewTmuxSession \/ MarkManaged \/ LabelLaunch
  BY DEF Next, Lock, Beside, Terminal, OpStays, RecordThread, Label, WebStarts, WebFails, WebTimesOut, CloseWeb,
         LateAnswer, CancelLands, KillSession, OwnerRestarts, ClosesTerminal, CodexStarts, NewThread, OpensRollout,
         ClosesRollouts, Quits, Observes, OpensByHand, Pane, vars
<1>12. ASSUME NEW l \in Launches, NewTerminal(l)
       PROVE  op = None /\ op'.step = "create" /\ web' = web /\ late' = late /\ known' = known
                /\ op'.name \in Names /\ op'.name \notin WebNames /\ tmux'[op'.name] = None
                /\ (\E limit \in Limits : op'.limit = limit /\ Room(limit))
                /\ op'.thread = None /\ op'.launch = l /\ NotLaunched(l)
  BY <1>1, <1>3, <1>12
<1>13. ASSUME NEW t \in Threads, ResumeTerminal(t)
       PROVE  op = None /\ op'.step = "create" /\ web' = web /\ late' = late /\ known' = known
                /\ op'.name \in Names /\ op'.name \notin WebNames /\ tmux'[op'.name] = None
                /\ (\E limit \in Limits : op'.limit = limit /\ Room(limit))
                /\ op'.thread = t /\ op'.launch = None /\ t \in known
  BY <1>1, <1>4, <1>13
<1>14. QED BY <1>2, <1>5, <1>6, <1>7, <1>8, <1>9, <1>10, <1>11, <1>12, <1>13

(* A record is added by an answer, in time or late. *)
Added(n, o, isLate) ==
    /\ o # None /\ o.name = n /\ web[n] = None
    /\ \E t \in Answer(o) :
          /\ web' = [web EXCEPT ![n] = [thread |-> t, launch |-> o.launch, late |-> isLate]]
          /\ known' = known \cup {t}
    /\ tmux' = tmux

(* What a step does to the records. *)
LEMMA WebSteps ==
    ASSUME TypeOK, [Next]_vars, NEW n \in Names, web'[n] # None
    PROVE  \/ web'[n] = web[n]
           \/ op # None /\ op.step = "rpc" /\ op' = None /\ late' = late /\ Added(n, op, FALSE)
           \/ late # None /\ late' = None /\ op' = op /\ Added(n, late, TRUE)
           \/ OwnerRestarts
<1>w. web \in [Names -> Records \cup {None}]
  BY DEF TypeOK
<1>1. CASE WebStarts
  <2>1. op # None /\ op.step = "rpc" /\ op' = None /\ late' = late /\ tmux' = tmux /\ Adds(op, FALSE)
    BY <1>1 DEF WebStarts
  <2>2. CASE op.name = n
    BY <2>1, <2>2 DEF Adds, Added
  <2>3. CASE op.name # n
    BY <1>w, <2>1, <2>3 DEF Adds
  <2>4. QED BY <2>2, <2>3
<1>2. CASE LateAnswer
  <2>1. late # None /\ late' = None /\ op' = op /\ tmux' = tmux /\ Adds(late, TRUE)
    BY <1>2 DEF LateAnswer
  <2>2. CASE late.name = n
    BY <2>1, <2>2 DEF Adds, Added
  <2>3. CASE late.name # n
    BY <1>w, <2>1, <2>3 DEF Adds
  <2>4. QED BY <2>2, <2>3
<1>3. ASSUME NEW m \in Names, CloseWeb(m) PROVE web'[n] = web[n]
  BY <1>w, <1>3 DEF CloseWeb
<1>4. WebStarts \/ LateAnswer \/ (\E m \in Names : CloseWeb(m)) \/ OwnerRestarts \/ web' = web
  BY DEF Next, Lock, Beside, Terminal, NewTerminal, NewWeb, ResumeTerminal, ResumeWeb, Asks, NewTmuxSession, MarkManaged,
         LabelLaunch, RecordThread, Label, WebFails, WebTimesOut, CancelLands, KillSession, ClosesTerminal,
         CodexStarts, NewThread, OpensRollout, ClosesRollouts, Quits, Observes, OpensByHand, Pane, vars
<1>5. QED BY <1>1, <1>2, <1>3, <1>4

(* A web start becomes late when its caller gives up. *)
LEMMA LateSteps ==
    ASSUME TypeOK, [Next]_vars, late' # None
    PROVE  late' = late \/ (op # None /\ op.step = "rpc" /\ op' = None /\ late' = op /\ web' = web)
<1>1. QED
  BY DEF Next, Lock, Beside, Terminal, NewTerminal, NewWeb, ResumeTerminal, ResumeWeb, Asks, NewTmuxSession, MarkManaged,
         LabelLaunch, RecordThread, Label, WebStarts, WebFails, WebTimesOut, CloseWeb, LateAnswer, CancelLands, KillSession,
         OwnerRestarts, ClosesTerminal, CodexStarts, NewThread, OpensRollout, ClosesRollouts, Quits, Observes, OpensByHand,
         Pane, vars

-----------------------------------------------------------------------------
(* Names.  The holder of the lock has a name the other backend does not    *)
(* use, but for late answers and people.                                   *)

NamesKept ==
    /\ NamesAreSeparate
    /\ op # None /\ op.step = "create" => web[op.name] = None \/ web[op.name].late
    /\ op # None /\ op.step = "rpc" => tmux[op.name] = None \/ tmux[op.name].hand

(* Every step keeps the names apart. *)
LEMMA NamesStep == TypeOK /\ NamesKept /\ [Next]_vars => NamesKept'
<1> SUFFICES ASSUME TypeOK, NamesKept, [Next]_vars PROVE NamesKept'
  OBVIOUS
<1>o. op # None => op.name \in Names
  BY DEF TypeOK, Operations
<1>n. \A n \in Names : tmux[n] # None /\ web[n] # None => tmux[n].hand \/ web[n].late
  BY DEF NamesKept, NamesAreSeparate, Conflicts, WebNames, Terminals
<1>1. ASSUME NEW n \in Names, tmux'[n] # None, web'[n] # None PROVE tmux'[n].hand \/ web'[n].late
  <2>1. CASE OwnerRestarts
    BY <1>1, <2>1, RestartMoves
  <2>2. CASE web'[n] = web[n]
    <3>1. CASE Stayed(n)
      BY <1>1, <1>n, <2>2, <3>1 DEF Stayed
    <3>2. CASE Made(n)
      BY <1>1, <2>2, <3>2 DEF Made, NamesKept
    <3>3. QED BY <1>1, <3>1, <3>2, SessionSteps
  <2>3. CASE op # None /\ op.step = "rpc" /\ Added(n, op, FALSE)
    BY <1>1, <2>3 DEF Added, NamesKept
  <2>4. CASE Added(n, late, TRUE)
    BY <1>1, <2>4 DEF Added, TypeOK
  <2>5. QED BY <1>1, <2>1, <2>2, <2>3, <2>4, WebSteps
<1>2. ASSUME op' # None, op'.step = "create" PROVE web'[op'.name] = None \/ web'[op'.name].late
  <2>1. CASE op' = op
    <3>1. CASE web'[op.name] # None
      <4>1. ~OwnerRestarts
        BY <1>2 DEF OwnerRestarts
      <4>2. CASE web'[op.name] = web[op.name]
        BY <1>2, <2>1, <3>1, <4>2 DEF NamesKept
      <4>3. CASE Added(op.name, late, TRUE)
        BY <1>o, <1>2, <2>1, <4>3 DEF Added, TypeOK
      <4>4. QED BY <1>o, <1>2, <2>1, <3>1, <4>1, <4>2, <4>3, WebSteps
    <3>2. QED BY <2>1, <3>1
  <2>2. CASE web' = web /\ op'.name \in Names /\ op'.name \notin WebNames
    BY <2>2 DEF WebNames
  <2>3. QED BY <1>2, <2>1, <2>2, OpSteps
<1>3. ASSUME op' # None, op'.step = "rpc" PROVE tmux'[op'.name] = None \/ tmux'[op'.name].hand
  <2>1. CASE op' = op
    <3>1. CASE tmux'[op.name] # None
      <4>1. CASE Stayed(op.name)
        BY <1>3, <2>1, <4>1 DEF Stayed, NamesKept
      <4>2. CASE Made(op.name)
        BY <1>3, <2>1, <4>2 DEF Made
      <4>3. QED BY <1>o, <1>3, <2>1, <3>1, <4>1, <4>2, SessionSteps
    <3>2. QED BY <2>1, <3>1
  <2>2. CASE tmux' = tmux /\ tmux[op'.name] = None
    BY <2>2
  <2>3. QED BY <1>3, <2>1, <2>2, OpSteps
<1>4. NamesAreSeparate'
  BY <1>1 DEF NamesAreSeparate, Conflicts, WebNames, Terminals
<1>5. QED BY <1>2, <1>3, <1>4 DEF NamesKept

(* The two backends do not share a name. *)
THEOREM NamesStaySeparate == Spec => []NamesAreSeparate
<1>1. Init => NamesKept
  BY DEF Init, NamesKept, NamesAreSeparate, Conflicts, WebNames, Terminals
<1>2. NamesKept => NamesAreSeparate
  BY DEF NamesKept
<1>3. QED BY <1>1, <1>2, NamesStep, TypeCorrect, PTL DEF Spec

-----------------------------------------------------------------------------
(* The running limit.  While a start that was given room makes its         *)
(* session, no other agent can appear.                                     *)

RoomKept == op # None /\ op.step = "create" => op.limit \in Limits /\ Room(op.limit)

(* There are finitely many agents. *)
LEMMA AgentsAreFinite == IsFiniteSet(Agents) /\ Cardinality(Agents) \in Nat /\ IsFiniteSet(Agents') /\ Cardinality(Agents') \in Nat
<1>1. IsFiniteSet(Names)
  BY FS_Interval DEF Names
<1>2. Agents \in SUBSET Names /\ Agents' \in SUBSET Names
  BY DEF Agents, Terminals
<1>3. IsFiniteSet(Agents) /\ IsFiniteSet(Agents')
  BY <1>1, <1>2, FS_Subset
<1>4. QED BY <1>3, FS_CardinalityType

(* A session that was no agent is one only if its start has made it. *)
LEMMA AgentSteps == ASSUME TypeOK, [Next]_vars, NEW n \in Agents' PROVE n \in Agents \/ (op # None /\ n = op.name /\ NewTmuxSession)
<1>1. n \in Names /\ tmux'[n] # None /\ tmux'[n].prog # "shell"
  BY DEF Agents, Terminals, Visible
<1>2. CASE Stayed(n)
  <2>1. tmux[n] \in Sessions /\ tmux[n].prog # "shell"
    BY <1>1, <1>2 DEF Stayed, TypeOK
  <2>2. QED BY <1>1, <2>1 DEF Agents, Terminals, Visible, Sessions
<1>3. CASE Made(n)
  BY <1>1, <1>3 DEF Made
<1>4. QED BY <1>1, <1>2, <1>3, SessionSteps

(* Every step keeps the room. *)
LEMMA RoomStep == TypeOK /\ RoomKept /\ [Next]_vars => RoomKept'
<1> SUFFICES ASSUME TypeOK, RoomKept, [Next]_vars, op' # None, op'.step = "create"
             PROVE  op'.limit \in Limits /\ Cardinality(Agents') < op'.limit
  BY DEF RoomKept, Room
<1>l. Limits \subseteq Nat
  OBVIOUS
<1>1. ~NewTmuxSession
  BY DEF NewTmuxSession, GoesOn, TypeOK, Operations
<1>2. Agents' \in SUBSET Agents
  BY <1>1, AgentSteps
<1>3. Cardinality(Agents') <= Cardinality(Agents)
  BY <1>2, AgentsAreFinite, FS_Subset
<1>4. op'.limit \in Limits /\ Cardinality(Agents) < op'.limit
  <2>1. CASE op' = op
    BY <2>1 DEF RoomKept, Room
  <2>2. CASE \E limit \in Limits : op'.limit = limit /\ Room(limit)
    BY <2>2 DEF Room
  <2>3. QED BY <2>1, <2>2, OpSteps
<1>5. op'.limit \in Nat /\ Cardinality(Agents) \in Nat /\ Cardinality(Agents') \in Nat
  BY <1>l, <1>4, AgentsAreFinite
<1> DEFINE before == Cardinality(Agents)
           after == Cardinality(Agents')
<1>6. before \in Nat /\ after \in Nat /\ after <= before /\ before < op'.limit
  BY <1>3, <1>4, <1>5
<1> HIDE DEF before, after
<1>7. after < op'.limit
  BY <1>5, <1>6
<1>8. QED BY <1>4, <1>7 DEF after

(* No start takes the agents beyond the limit it was given. *)
THEOREM LimitIsKept == Spec => RunningLimitKept
<1>1. Init => RoomKept
  BY DEF Init, RoomKept
<1>2. ASSUME TypeOK, RoomKept, [Next]_vars, NewTmuxSession PROVE Cardinality(Agents') <= op.limit
  <2>1. op # None /\ op.limit \in Nat /\ Cardinality(Agents) < op.limit
    BY <1>2 DEF NewTmuxSession, RoomKept, Room
  <2>2. Agents' \in SUBSET (Agents \cup {op.name})
    BY <1>2, AgentSteps
  <2> DEFINE before == Cardinality(Agents)
             between == Cardinality(Agents \cup {op.name})
             after == Cardinality(Agents')
  <2>3. IsFiniteSet(Agents \cup {op.name}) /\ between = IF op.name \in Agents THEN before ELSE before + 1
    BY AgentsAreFinite, FS_AddElement
  <2>4. after <= between
    BY <2>2, <2>3, FS_Subset
  <2>5. before \in Nat /\ after \in Nat /\ before < op.limit
    BY <2>1, AgentsAreFinite
  <2> HIDE DEF before, between, after
  <2>6. between \in Nat /\ between <= before + 1
    BY <2>3, <2>5
  <2>7. after <= op.limit
    BY <2>1, <2>4, <2>5, <2>6
  <2>8. QED BY <2>7 DEF after
<1>3. TypeOK /\ RoomKept /\ [Next]_vars => [NewTmuxSession /\ tmux' # tmux => Cardinality(Agents') <= op.limit]_vars
  BY <1>2
<1>4. QED BY <1>1, <1>3, RoomStep, TypeCorrect, PTL DEF Spec, RunningLimitKept

-----------------------------------------------------------------------------
(* Launch ids.  A start that carries one has found nobody with it, and the *)
(* session it will label has no launch id yet.                             *)

LabelsOnce ==
    /\ \A l \in Launches : \A n, m \in LaunchedAs(l) : n = m
    /\ op # None /\ op.step \in {"create", "manage", "label"} =>
           /\ tmux[op.name] # None => tmux[op.name].launch = None
           /\ \A l \in Launches : op.launch = l => LaunchedAs(l) = {}

(* The sessions on the Web of a launch id. *)
WebAs(l) == {n \in WebNames : web[n].launch = l}

RecordsOnce ==
    /\ \A l \in Launches : \A n, m \in WebAs(l) : n = m
    /\ op # None /\ op.step = "rpc" => late = None /\ \A l \in Launches : op.launch = l => WebAs(l) = {}
    /\ late # None => \A l \in Launches : late.launch = l => WebAs(l) = {}

(* Only the start that carries a launch id labels a session with it. *)
LEMMA LabelSteps ==
    ASSUME TypeOK, LabelsOnce, [Next]_vars, NEW l \in Launches, NEW n \in LaunchedAs(l)'
    PROVE  n \in LaunchedAs(l) \/ (op # None /\ op.step = "label" /\ op.name = n /\ op.launch = l /\ LabelLaunch)
<1>1. n \in Names /\ tmux'[n] # None /\ tmux'[n].managed /\ tmux'[n].launch = l
  BY DEF LaunchedAs, Terminals
<1>2. CASE Stayed(n)
  <2>1. CASE tmux'[n].launch = tmux[n].launch
    <3>1. tmux[n].managed
      BY <1>1, <1>2, <2>1 DEF Stayed, LabelsOnce
    <3>2. QED BY <1>1, <1>2, <2>1, <3>1 DEF Stayed, LaunchedAs, Terminals
  <2>2. CASE tmux'[n].launch # tmux[n].launch
    BY <1>1, <1>2, <2>2 DEF Stayed
  <2>3. QED BY <2>1, <2>2
<1>3. CASE Made(n)
  BY <1>1, <1>3 DEF Made, NewSession
<1>4. QED BY <1>1, <1>2, <1>3, SessionSteps

(* Every step keeps the labels apart. *)
LEMMA LabelsStep == TypeOK /\ LabelsOnce /\ [Next]_vars => LabelsOnce'
<1> SUFFICES ASSUME TypeOK, LabelsOnce, [Next]_vars PROVE LabelsOnce'
  OBVIOUS
<1>o. op # None => op.name \in Names /\ op.step \in Steps
  BY DEF TypeOK, Operations
<1>1. ASSUME NEW l \in Launches, NEW n \in LaunchedAs(l)', NEW m \in LaunchedAs(l)' PROVE n = m
  BY <1>1, LabelSteps DEF LabelsOnce
<1>2. ASSUME op' # None, op'.step \in {"create", "manage", "label"}, tmux'[op'.name] # None PROVE tmux'[op'.name].launch = None
  <2>1. CASE op # None /\ op'.name = op.name /\ op.step \in {"create", "manage", "label"} /\ ~LabelLaunch
    <3>1. CASE Stayed(op.name)
      BY <1>2, <2>1, <3>1 DEF Stayed, LabelsOnce
    <3>2. CASE Made(op.name)
      BY <1>2, <2>1, <3>2 DEF Made, NewSession
    <3>3. QED BY <1>o, <1>2, <2>1, <3>1, <3>2, SessionSteps
  <2>2. CASE LabelLaunch
    BY <1>2, <2>2 DEF LabelLaunch, Label, TypeOK, Operations
  <2>3. QED BY <1>2, <2>1, <2>2, OpSteps
<1>3. ASSUME NEW l \in Launches, op' # None, op'.step \in {"create", "manage", "label"}, op'.launch = l, NEW n \in LaunchedAs(l)'
      PROVE  FALSE
  <2>1. ~LabelLaunch
    BY <1>3 DEF LabelLaunch, Label, TypeOK, Operations
  <2>2. LaunchedAs(l) = {}
    <3>1. CASE op # None
      BY <1>3, <3>1, OpSteps DEF LabelsOnce
    <3>2. CASE op = None
      BY <1>3, <3>2, OpSteps DEF NotLaunched
    <3>3. QED BY <3>1, <3>2
  <2>3. QED BY <1>3, <2>1, <2>2, LabelSteps
<1>4. QED BY <1>1, <1>2, <1>3 DEF LabelsOnce

(* Every step keeps the launch ids of the records apart. *)
LEMMA RecordsStep == TypeOK /\ RecordsOnce /\ [Next]_vars => RecordsOnce'
<1> SUFFICES ASSUME TypeOK, RecordsOnce, [Next]_vars PROVE RecordsOnce'
  OBVIOUS
<1>w. web \in [Names -> Records \cup {None}]
  BY DEF TypeOK
<1>a. ASSUME NEW l \in Launches, NEW n \in WebAs(l)', ~OwnerRestarts
      PROVE  \/ n \in WebAs(l)
             \/ op # None /\ op.step = "rpc" /\ op' = None /\ late' = late /\ Added(n, op, FALSE) /\ op.launch = l
             \/ late # None /\ late' = None /\ op' = op /\ Added(n, late, TRUE) /\ late.launch = l
  <2>1. n \in Names /\ web'[n] # None /\ web'[n].launch = l
    BY <1>a DEF WebAs, WebNames
  <2>2. ASSUME NEW o, NEW isLate, Added(n, o, isLate) PROVE o.launch = l
    BY <1>w, <2>1, <2>2 DEF Added
  <2>3. CASE web'[n] = web[n]
    BY <2>1, <2>3 DEF WebAs, WebNames
  <2>4. QED BY <1>a, <2>1, <2>2, <2>3, WebSteps
<1>b. ASSUME NEW n, NEW o, NEW isLate, NEW m \in Names, Added(n, o, isLate), m # n PROVE web'[m] = web[m]
  BY <1>w, <1>b DEF Added
<1>1. ASSUME NEW l \in Launches, NEW n \in WebAs(l)', NEW m \in WebAs(l)' PROVE n = m
  <2>1. CASE OwnerRestarts
    <3>1. PICK src \in [Names -> Names] :
               /\ \A k \in Names : web'[k] # None => web'[k] = web[src[k]]
               /\ \A k, j \in Names : web'[k] # None /\ web'[j] # None /\ src[k] = src[j] => k = j
      BY <2>1, RestartMoves
    <3>2. n \in Names /\ m \in Names /\ web'[n] # None /\ web'[m] # None
      BY DEF WebAs, WebNames
    <3>3. src[n] \in WebAs(l) /\ src[m] \in WebAs(l)
      BY <3>1, <3>2 DEF WebAs, WebNames
    <3>4. QED BY <3>1, <3>2, <3>3 DEF RecordsOnce
  <2>2. CASE ~OwnerRestarts /\ n \in WebAs(l) /\ m \in WebAs(l)
    BY <2>2 DEF RecordsOnce
  <2>3. CASE ~OwnerRestarts /\ n # m /\ n \notin WebAs(l)
    <3>1. WebAs(l) = {}
      BY <1>a, <2>3 DEF RecordsOnce
    <3>2. m \notin WebAs(l) /\ m \in Names
      BY <3>1 DEF WebAs, WebNames
    <3>3. Added(n, op, FALSE) \/ Added(n, late, TRUE)
      BY <1>a, <2>3
    <3>4. web'[m] = web[m]
      BY <1>b, <2>3, <3>2, <3>3
    <3>5. QED BY <3>2, <3>4 DEF WebAs, WebNames
  <2>4. CASE ~OwnerRestarts /\ n # m /\ m \notin WebAs(l)
    <3>1. WebAs(l) = {}
      BY <1>a, <2>4 DEF RecordsOnce
    <3>2. n \notin WebAs(l) /\ n \in Names
      BY <3>1 DEF WebAs, WebNames
    <3>3. Added(m, op, FALSE) \/ Added(m, late, TRUE)
      BY <1>a, <2>4
    <3>4. web'[n] = web[n]
      BY <1>b, <2>4, <3>2, <3>3
    <3>5. QED BY <3>2, <3>4 DEF WebAs, WebNames
  <2>5. QED BY <2>1, <2>2, <2>3, <2>4
<1>2. ASSUME op' # None, op'.step = "rpc" PROVE late' = None
  BY <1>2, OpSteps, LateSteps DEF RecordsOnce
<1>3. ASSUME op' # None, op'.step = "rpc", NEW l \in Launches, op'.launch = l, NEW n \in WebAs(l)' PROVE FALSE
  <2>1. ~OwnerRestarts
    BY <1>3 DEF OwnerRestarts
  <2>2. CASE op' = op
    BY <1>a, <1>3, <2>1, <2>2 DEF RecordsOnce
  <2>3. CASE web' = web /\ NewWeb(l)
    BY <1>3, <2>3 DEF NewWeb, WebAs, WebNames
  <2>4. QED BY <1>3, <2>2, <2>3, OpSteps
<1>4. ASSUME late' # None, NEW l \in Launches, late'.launch = l, NEW n \in WebAs(l)' PROVE FALSE
  <2>1. ~OwnerRestarts
    BY <1>4 DEF OwnerRestarts
  <2>2. CASE late' = late
    BY <1>a, <1>4, <2>1, <2>2 DEF RecordsOnce
  <2>3. CASE op # None /\ op.step = "rpc" /\ late' = op /\ web' = web
    <3>1. n \in WebAs(l)
      BY <1>4, <2>3 DEF WebAs, WebNames
    <3>2. QED BY <1>4, <2>3, <3>1 DEF RecordsOnce
  <2>4. QED BY <1>4, <2>2, <2>3, LateSteps
<1>5. QED BY <1>1, <1>2, <1>3, <1>4 DEF RecordsOnce

(* A set of names that are all the same has at most one. *)
LEMMA AtMostOne == ASSUME NEW S \in SUBSET Names, \A x, y \in S : x = y PROVE Cardinality(S) <= 1
<1>1. CASE S = {}
  BY <1>1, FS_EmptySet
<1>2. CASE S # {}
  <2>1. PICK x \in S : TRUE
    BY <1>2
  <2>2. S = {x}
    BY <2>1
  <2>3. QED BY <2>2, FS_Singleton
<1>3. QED BY <1>1, <1>2

(* A launch id is carried by one terminal and by one web session. *)
THEOREM OneForEachLaunch == Spec => []LaunchesOnce
<1>1. Init => LabelsOnce /\ RecordsOnce
  BY DEF Init, LabelsOnce, RecordsOnce, WebAs, LaunchedAs, Terminals, WebNames
<1>2. ASSUME LabelsOnce, RecordsOnce PROVE LaunchesOnce
  <2> SUFFICES ASSUME NEW l \in Launches
               PROVE  Cardinality(LaunchedAs(l)) <= 1 /\ Cardinality({n \in WebNames : web[n].launch = l}) <= 1
    BY DEF LaunchesOnce
  <2>1. Cardinality(LaunchedAs(l)) <= 1
    BY <1>2, AtMostOne DEF LabelsOnce, LaunchedAs, Terminals
  <2>2. Cardinality(WebAs(l)) <= 1
    BY <1>2, AtMostOne DEF RecordsOnce, WebAs, WebNames
  <2>3. QED BY <2>1, <2>2 DEF WebAs
<1>3. QED BY <1>1, <1>2, LabelsStep, RecordsStep, TypeCorrect, PTL DEF Spec

-----------------------------------------------------------------------------
(* One session for a thread.  A session claims the thread it is about to   *)
(* open or has open; one whose start still holds the lock claims its       *)
(* thread as one whose start has ended well does.                          *)

Starting(n) == op # None /\ op.step \in {"manage", "label", "record"} /\ op.name = n

Claims == {n \in Agents : (tmux[n].whole \/ Starting(n)) /\ Aim(n) # None}

(* Until Codex runs, the recorded thread is what ResumeTerminal finds the  *)
(* claim by.                                                               *)
SessionIsSound(n) ==
    /\ tmux[n].aim \in known \cup {None}
    /\ tmux[n].thread \in known \cup {None}
    /\ tmux[n].prog = "preflight" => ~tmux[n].open
    /\ tmux[n].prog = "preflight" /\ tmux[n].whole /\ tmux[n].aim # None => tmux[n].recorded = tmux[n].aim
    /\ tmux[n].prog = "preflight" /\ Starting(n) => tmux[n].aim = op.thread

SessionsAreSound == \A n \in Terminals : SessionIsSound(n)

ThreadsAreKnown ==
    /\ \A n \in WebNames : web[n].thread \in known
    /\ op # None => op.thread \in known \cup {None}
    /\ late # None => late.thread \in known \cup {None}

ClaimsApart == \A n, m \in Claims : Aim(n) = Aim(m) => n = m

RecordsApart == \A n, m \in WebNames : web[n].thread = web[m].thread => n = m

BackendsApart == \A n \in Claims, m \in WebNames : Aim(n) = web[m].thread => web[m].late

(* What the holder of the lock found free stays free while it holds it.    *)
StartIsFree ==
    op # None /\ op.thread # None =>
        /\ op.step \in {"create", "rpc"} => \A n \in Claims : Aim(n) # op.thread
        /\ op.step = "create" => \A m \in WebNames : web[m].thread = op.thread => web[m].late

ThreadsKept ==
    /\ SessionsAreSound /\ ThreadsAreKnown
    /\ ClaimsApart /\ RecordsApart /\ BackendsApart /\ StartIsFree

-----------------------------------------------------------------------------
(* What changes a session, an operation and the known threads.             *)

(* A session of a name changes by the start that has the name, or by what  *)
(* happens in its pane.                                                    *)
LEMMA WhoChanges ==
    ASSUME TypeOK, [Next]_vars, NEW n \in Names, tmux'[n] # None
    PROVE  \/ tmux'[n] = tmux[n]
           \/ NewTmuxSession /\ op.name = n /\ tmux[n] = None
           \/ (MarkManaged \/ LabelLaunch \/ RecordThread) /\ op.name = n /\ tmux[n] # None
           \/ Terminal(n)
<1>t. tmux \in [Names -> Sessions \cup {None}]
  BY DEF TypeOK
<1>o. op # None => op.name \in Names
  BY DEF TypeOK, Operations
<1>1. ASSUME NEW t, NEW l, Starts(t, l) PROVE tmux'[n] = tmux[n]
  BY <1>1, <1>t DEF Starts
<1>2. CASE NewTmuxSession
  <2>1. CASE tmux[op.name] # None \/ op.name # n
    BY <1>2, <1>o, <1>t, <2>1 DEF NewTmuxSession
  <2>2. CASE tmux[op.name] = None /\ op.name = n
    BY <1>2, <2>2
  <2>3. QED BY <2>1, <2>2
<1>3. CASE MarkManaged
  <2>1. CASE op.name = n /\ tmux[n] # None
    BY <1>3, <2>1
  <2>2. CASE op.name # n \/ tmux[n] = None
    BY <1>3, <1>o, <1>t, <2>2 DEF MarkManaged, Label
  <2>3. QED BY <2>1, <2>2
<1>4. CASE LabelLaunch
  <2>1. CASE op.name = n /\ tmux[n] # None
    BY <1>4, <2>1
  <2>2. CASE op.name # n \/ tmux[n] = None
    BY <1>4, <1>o, <1>t, <2>2 DEF LabelLaunch, Label
  <2>3. QED BY <2>1, <2>2
<1>5. CASE RecordThread
  <2>1. CASE op.name = n /\ tmux[n] # None
    BY <1>5, <2>1
  <2>2. CASE op.name # n \/ tmux[n] = None
    BY <1>5, <1>o, <1>t, <2>2 DEF RecordThread, Label
  <2>3. QED BY <2>1, <2>2
<1>6. CASE KillSession
  BY <1>6, <1>t DEF KillSession, TypeOK
<1>7. ASSUME NEW m \in Names, Terminal(m), m # n PROVE tmux'[n] = tmux[n]
  BY <1>7, <1>t DEF Terminal, CodexStarts, NewThread, OpensRollout, ClosesRollouts, Quits, Observes, OpensByHand, Pane
<1>8. CASE UNCHANGED tmux
  BY <1>8
<1>9. QED
  BY <1>1, <1>2, <1>3, <1>4, <1>5, <1>6, <1>7, <1>8
  DEF Next, Lock, Beside, NewTerminal, NewWeb, ResumeTerminal, ResumeWeb, Asks, WebStarts, WebFails, WebTimesOut,
      CloseWeb, LateAnswer, CancelLands, OwnerRestarts, ClosesTerminal, vars

(* No thread is forgotten. *)
LEMMA KnownGrows == [Next]_vars => known \subseteq known'
BY DEF Next, Lock, Beside, Terminal, NewTerminal, NewWeb, ResumeTerminal, ResumeWeb, Asks, NewTmuxSession, MarkManaged,
       LabelLaunch, RecordThread, Label, WebStarts, WebFails, WebTimesOut, CloseWeb, LateAnswer, CancelLands, KillSession,
       OwnerRestarts, ClosesTerminal, CodexStarts, NewThread, OpensRollout, ClosesRollouts, Quits, Observes, OpensByHand,
       Pane, Adds, vars

(* A start reaches its options by making its session. *)
LEMMA StartingSteps ==
    ASSUME TypeOK, [Next]_vars, NEW n \in Names, Starting(n)'
    PROVE  /\ op # None /\ op.name = n /\ op'.thread = op.thread
           /\ Starting(n) \/ (op.step = "create" /\ NewTmuxSession /\ tmux[n] = None)
<1>1. op' # None /\ op'.step \in {"manage", "label", "record"} /\ op'.name = n
  BY DEF Starting
<1>2. CASE op' = op
  BY <1>1, <1>2 DEF Starting
<1>3. CASE op # None /\ op'.name = op.name /\ op'.thread = op.thread /\ op.step \in {"manage", "label"}
  BY <1>1, <1>3 DEF Starting
<1>4. CASE op # None /\ op'.name = op.name /\ op'.thread = op.thread /\ op.step = "create" /\ NewTmuxSession
  BY <1>1, <1>4 DEF NewTmuxSession
<1>5. QED BY <1>1, <1>2, <1>3, <1>4, OpSteps

-----------------------------------------------------------------------------
(* What becomes of a session.                                              *)

(* It keeps what it runs and its thread; its start may end well. *)
Same(n) ==
    /\ tmux[n] # None
    /\ tmux'[n].prog = tmux[n].prog /\ tmux'[n].aim = tmux[n].aim /\ tmux'[n].thread = tmux[n].thread
    /\ tmux'[n].open => tmux[n].open \/ tmux[n].prog = "codex"
    /\ \/ tmux'[n].whole = tmux[n].whole /\ (tmux'[n].recorded = tmux[n].recorded \/ tmux[n].open)
       \/ Starting(n) /\ tmux'[n].recorded = IF op.thread # None THEN op.thread ELSE tmux[n].recorded

(* It is made. *)
Begins(n) ==
    /\ op # None /\ op.step = "create" /\ op.name = n /\ NewTmuxSession
    /\ tmux[n] = None /\ tmux'[n] = NewSession

(* Its Codex starts. *)
Runs(n) ==
    /\ tmux[n] # None /\ tmux[n].prog = "preflight"
    /\ tmux'[n].prog = "codex" /\ tmux'[n].aim = None /\ tmux'[n].thread = tmux[n].aim
    /\ tmux'[n].whole = tmux[n].whole

(* Its Codex begins a thread. *)
Writes(n) ==
    /\ NewThread(n) /\ tmux[n] # None
    /\ tmux'[n].prog = "codex" /\ tmux'[n].aim = tmux[n].aim
    /\ tmux'[n].thread \in known' \ known

(* It is left with a shell. *)
Stops(n) ==
    /\ tmux'[n].prog = "shell"
    /\ \/ tmux[n] # None /\ tmux'[n].aim \in {None, tmux[n].aim} /\ tmux'[n].thread \in {None, tmux[n].thread}
       \/ tmux'[n].aim = None /\ tmux'[n].thread = None

(* The fields of a session after each thing that happens to it. *)
LEMMA Fields ==
    ASSUME NEW s \in Sessions, NEW u
    PROVE  /\ LET c == [s EXCEPT !.prog = "shell", !.aim = None] IN
              c.prog = "shell" /\ c.aim = None /\ c.thread = s.thread
           /\ LET c == [s EXCEPT !.prog = "codex", !.aim = None, !.thread = u] IN
              c.prog = "codex" /\ c.aim = None /\ c.thread = u /\ c.whole = s.whole
           /\ LET c == [s EXCEPT !.prog = "shell", !.thread = None, !.open = FALSE, !.behind = None] IN
              c.prog = "shell" /\ c.aim = s.aim /\ c.thread = None
<1>1. LET c == [s EXCEPT !.prog = "shell", !.aim = None] IN c.prog = "shell" /\ c.aim = None /\ c.thread = s.thread
  BY DEF Sessions
<1>2. LET c == [s EXCEPT !.prog = "codex", !.aim = None, !.thread = u] IN
      c.prog = "codex" /\ c.aim = None /\ c.thread = u /\ c.whole = s.whole
  BY DEF Sessions
<1>3. LET c == [s EXCEPT !.prog = "shell", !.thread = None, !.open = FALSE, !.behind = None] IN
      c.prog = "shell" /\ c.aim = s.aim /\ c.thread = None
  BY DEF Sessions
<1>4. QED BY <1>1, <1>2, <1>3

(* One of these happens to every session. *)
LEMMA SessionFates ==
    ASSUME TypeOK, [Next]_vars, NEW n \in Names, tmux'[n] # None
    PROVE  Same(n) \/ Begins(n) \/ Runs(n) \/ Writes(n) \/ Stops(n)
<1>t. tmux \in [Names -> Sessions \cup {None}]
  BY DEF TypeOK
<1>s. tmux[n] # None => tmux[n] \in Sessions
  BY <1>t
<1>1. CASE tmux'[n] = tmux[n]
  BY <1>1 DEF Same
<1>2. CASE NewTmuxSession /\ op.name = n /\ tmux[n] = None
  BY <1>2, <1>t DEF NewTmuxSession, Begins
<1>3. CASE MarkManaged /\ op.name = n /\ tmux[n] # None
  BY <1>3, <1>s, <1>t DEF MarkManaged, Label, Same, Sessions
<1>4. CASE LabelLaunch /\ op.name = n /\ tmux[n] # None
  BY <1>4, <1>s, <1>t DEF LabelLaunch, Label, Same, Sessions
<1>5. CASE RecordThread /\ op.name = n /\ tmux[n] # None
  <2>1. Starting(n)
    BY <1>5 DEF RecordThread, Label, Starting
  <2>2. tmux'[n] = [tmux[n] EXCEPT !.whole = TRUE, !.recorded = IF op.thread # None THEN op.thread ELSE @]
    BY <1>5, <1>t DEF RecordThread, Label
  <2>3. QED BY <1>5, <1>s, <2>1, <2>2 DEF Same, Sessions
<1>6. CASE CodexStarts(n)
  <2>1. tmux[n] \in Sessions /\ tmux[n].prog = "preflight"
    BY <1>6, <1>s DEF CodexStarts
  <2>2. tmux'[n] \in {[tmux[n] EXCEPT !.prog = "shell", !.aim = None],
                      [tmux[n] EXCEPT !.prog = "codex", !.aim = None, !.thread = tmux[n].aim]}
    BY <1>6, <1>t DEF CodexStarts, Pane
  <2>3. CASE tmux'[n] = [tmux[n] EXCEPT !.prog = "shell", !.aim = None]
    BY <1>6, <2>1, <2>3, Fields DEF Stops, CodexStarts
  <2>4. CASE tmux'[n] = [tmux[n] EXCEPT !.prog = "codex", !.aim = None, !.thread = tmux[n].aim]
    BY <1>6, <2>1, <2>4, Fields DEF Runs, CodexStarts
  <2>5. QED BY <2>2, <2>3, <2>4
<1>7. CASE NewThread(n)
  <2>1. tmux[n] \in Sessions /\ tmux[n].prog = "codex"
    BY <1>7, <1>s DEF NewThread
  <2>2. PICK t \in Threads \ known :
          /\ tmux'[n] = [tmux[n] EXCEPT !.thread = t, !.open = TRUE, !.behind = IF tmux[n].open THEN tmux[n].thread ELSE @]
          /\ known' = known \cup {t}
    BY <1>7, <1>t DEF NewThread, Pane
  <2>3. tmux'[n].prog = tmux[n].prog /\ tmux'[n].aim = tmux[n].aim /\ tmux'[n].thread = t
    BY <2>1, <2>2 DEF Sessions
  <2>4. QED BY <1>7, <2>1, <2>2, <2>3 DEF Writes, NewThread
<1>8. CASE OpensRollout(n)
  BY <1>8, <1>s, <1>t DEF OpensRollout, Pane, Same, Sessions
<1>9. CASE ClosesRollouts(n)
  BY <1>9, <1>s, <1>t DEF ClosesRollouts, Pane, Same, Sessions
<1>10. CASE Quits(n)
  BY <1>10, <1>s, <1>t, Fields DEF Quits, Pane, Stops
<1>11. CASE Observes(n)
  BY <1>11, <1>s, <1>t DEF Observes, Pane, Same, Sessions
<1>12. CASE OpensByHand(n)
  BY <1>12, <1>t DEF OpensByHand, Stops
<1>13. QED
  BY <1>1, <1>2, <1>3, <1>4, <1>5, <1>6, <1>7, <1>8, <1>9, <1>10, <1>11, <1>12, WhoChanges DEF Terminal

-----------------------------------------------------------------------------
(* Each part of the invariant is kept.                                     *)

(* Every step keeps the sessions sound. *)
LEMMA SoundStep == TypeOK /\ ThreadsKept /\ [Next]_vars => SessionsAreSound'
<1> SUFFICES ASSUME TypeOK, ThreadsKept, [Next]_vars, NEW n \in Names, tmux'[n] # None PROVE SessionIsSound(n)'
  BY DEF SessionsAreSound, Terminals
<1>k. known \subseteq known'
  BY KnownGrows
<1>o. op # None => op.thread \in known \cup {None}
  BY DEF ThreadsKept, ThreadsAreKnown
<1>s. tmux[n] # None => SessionIsSound(n)
  BY DEF ThreadsKept, SessionsAreSound, Terminals
<1>1. CASE Same(n)
  <2>1. tmux'[n].aim \in known' \cup {None} /\ tmux'[n].thread \in known' \cup {None}
    BY <1>1, <1>k, <1>s DEF Same, SessionIsSound
  <2>2. tmux'[n].prog = "preflight" => ~tmux'[n].open
    BY <1>1, <1>s DEF Same, SessionIsSound
  <2>3. ASSUME tmux'[n].prog = "preflight", tmux'[n].whole, tmux'[n].aim # None PROVE tmux'[n].recorded = tmux'[n].aim
    BY <1>1, <1>s, <2>3 DEF Same, SessionIsSound
  <2>4. ASSUME tmux'[n].prog = "preflight", Starting(n)' PROVE tmux'[n].aim = op'.thread
    BY <1>1, <1>s, <2>4, StartingSteps DEF Same, SessionIsSound
  <2>5. QED BY <2>1, <2>2, <2>3, <2>4 DEF SessionIsSound
<1>2. CASE Begins(n)
  <2>1. tmux'[n].aim = op.thread /\ tmux'[n].thread = None /\ ~tmux'[n].open /\ ~tmux'[n].whole
    BY <1>2 DEF Begins, NewSession
  <2>2. Starting(n)' => op'.thread = op.thread
    BY StartingSteps
  <2>3. op # None
    BY <1>2 DEF Begins
  <2>4. QED BY <1>k, <1>o, <2>1, <2>2, <2>3 DEF SessionIsSound
<1>3. CASE Runs(n)
  BY <1>3, <1>k, <1>s DEF Runs, SessionIsSound
<1>4. CASE Writes(n)
  BY <1>4, <1>k, <1>s DEF Writes, SessionIsSound
<1>5. CASE Stops(n)
  BY <1>5, <1>k, <1>s DEF Stops, SessionIsSound
<1>6. QED BY <1>1, <1>2, <1>3, <1>4, <1>5, SessionFates

(* What a record is answered with is unknown, or the thread asked for, which *)
(* nobody has.                                                               *)
LEMMA Answers ==
    ASSUME NEW o, NEW t \in Answer(o)
    PROVE  (o.thread = None /\ t \in Threads \ known) \/ (o.thread = t /\ o.thread # None /\ ~Held(t))
BY DEF Answer

(* A record after a step is one from before, or one that is added. *)
LEMMA RecordSteps ==
    ASSUME TypeOK, [Next]_vars, NEW n \in Names, web'[n] # None
    PROVE  \/ \E m \in WebNames : web'[n] = web[m]
           \/ op # None /\ op.step = "rpc" /\ op' = None /\ late' = late /\ Added(n, op, FALSE)
           \/ late # None /\ late' = None /\ op' = op /\ Added(n, late, TRUE)
<1>1. CASE OwnerRestarts
  <2>1. PICK src \in [Names -> Names] : \A m \in Names : web'[m] # None => web'[m] = web[src[m]]
    BY <1>1, RestartMoves
  <2>2. QED BY <2>1 DEF WebNames
<1>2. CASE web'[n] = web[n]
  BY <1>2 DEF WebNames
<1>3. QED BY <1>1, <1>2, WebSteps

(* Every step keeps the threads of records and operations known. *)
LEMMA KnownStep == TypeOK /\ ThreadsKept /\ [Next]_vars => ThreadsAreKnown'
<1> SUFFICES ASSUME TypeOK, ThreadsKept, [Next]_vars PROVE ThreadsAreKnown'
  OBVIOUS
<1>k. known \subseteq known'
  BY KnownGrows
<1>i. /\ \A n \in WebNames : web[n].thread \in known
      /\ op # None => op.thread \in known \cup {None}
      /\ late # None => late.thread \in known \cup {None}
  BY DEF ThreadsKept, ThreadsAreKnown
<1>w. web \in [Names -> Records \cup {None}]
  BY DEF TypeOK
<1>1. ASSUME NEW n \in Names, web'[n] # None PROVE web'[n].thread \in known'
  <2>1. ASSUME NEW o, NEW isLate, Added(n, o, isLate) PROVE web'[n].thread \in known'
    BY <1>1, <1>w, <2>1 DEF Added
  <2>2. CASE \E m \in WebNames : web'[n] = web[m]
    BY <1>i, <1>k, <2>2
  <2>3. QED BY <1>1, <2>1, <2>2, RecordSteps
<1>2. ASSUME op' # None PROVE op'.thread \in known' \cup {None}
  BY <1>2, <1>i, <1>k, OpSteps
<1>3. ASSUME late' # None PROVE late'.thread \in known' \cup {None}
  BY <1>3, <1>i, <1>k, LateSteps
<1>4. QED BY <1>1, <1>2, <1>3 DEF ThreadsAreKnown, WebNames

(* Every step leaves the records of different threads. *)
LEMMA RecordsApartStep == TypeOK /\ ThreadsKept /\ [Next]_vars => RecordsApart'
<1> SUFFICES ASSUME TypeOK, ThreadsKept, [Next]_vars, NEW n \in Names, NEW m \in Names,
                    web'[n] # None, web'[m] # None, web'[n].thread = web'[m].thread
             PROVE  n = m
  BY DEF RecordsApart, WebNames
<1>i. \A x, y \in WebNames : web[x].thread = web[y].thread => x = y
  BY DEF ThreadsKept, RecordsApart
<1>w. web \in [Names -> Records \cup {None}]
  BY DEF TypeOK
<1>1. CASE OwnerRestarts
  <2>1. PICK src \in [Names -> Names] :
               /\ \A x \in Names : web'[x] # None => web'[x] = web[src[x]]
               /\ \A x, y \in Names : web'[x] # None /\ web'[y] # None /\ src[x] = src[y] => x = y
    BY <1>1, RestartMoves
  <2>2. src[n] \in WebNames /\ src[m] \in WebNames
    BY <2>1 DEF WebNames
  <2>3. QED BY <1>i, <2>1, <2>2
<1>2. ASSUME NEW x \in Names, NEW y \in Names, NEW o, NEW isLate, Added(x, o, isLate), y # x, web'[y] # None
      PROVE  web'[x].thread # web'[y].thread
  <2>1. PICK t \in Answer(o) : web' = [web EXCEPT ![x] = [thread |-> t, launch |-> o.launch, late |-> isLate]]
    BY <1>2 DEF Added
  <2>2. web'[x].thread = t /\ web'[y] = web[y] /\ y \in WebNames
    BY <1>2, <1>w, <2>1 DEF WebNames
  <2>3. web[y].thread \in known
    BY <2>2 DEF ThreadsKept, ThreadsAreKnown
  <2>4. Held(web[y].thread)
    BY <2>2 DEF Held, WebOf
  <2>5. QED BY <2>1, <2>2, <2>3, <2>4, Answers
<1>3. CASE web'[n] = web[n] /\ web'[m] = web[m]
  BY <1>3, <1>i DEF WebNames
<1>4. QED BY <1>1, <1>2, <1>3, WebSteps

-----------------------------------------------------------------------------
(* Claims.                                                                 *)

(* A claim after a step is one from before, that of a start, or one to a   *)
(* thread nobody knew.                                                     *)
LEMMA ClaimSteps ==
    ASSUME TypeOK, ThreadsKept, [Next]_vars, NEW n \in Claims'
    PROVE  \/ n \in Claims /\ Aim(n)' = Aim(n)
           \/ Begins(n) /\ Aim(n)' = op.thread /\ op.thread # None
           \/ Writes(n) /\ Aim(n)' \in known' \ known
<1>n. /\ n \in Names /\ tmux'[n] # None /\ tmux'[n].prog \in {"preflight", "codex"}
      /\ tmux'[n].whole \/ Starting(n)'
  BY DEF Claims, Agents, Terminals, Visible
<1>a. Aim(n)' = IF tmux'[n].prog = "preflight" THEN tmux'[n].aim ELSE tmux'[n].thread
  BY DEF Aim
<1>b. Aim(n)' # None
  BY DEF Claims
<1>c. tmux[n] # None /\ Starting(n)' => Starting(n)
  BY <1>n, StartingSteps
<1>1. CASE Same(n)
  <2>1. Aim(n)' = Aim(n)
    BY <1>1, <1>a DEF Same, Aim
  <2>2. tmux[n] # None /\ tmux[n].prog \in {"preflight", "codex"}
    BY <1>1, <1>n DEF Same
  <2>3. tmux[n].whole \/ Starting(n)
    BY <1>1, <1>c, <1>n DEF Same, Claims
  <2>4. QED BY <1>b, <1>n, <2>1, <2>2, <2>3 DEF Claims, Agents, Terminals, Visible
<1>2. CASE Begins(n)
  <2>1. tmux'[n].prog = "preflight" /\ tmux'[n].aim = op.thread
    BY <1>2 DEF Begins, NewSession
  <2>2. QED BY <1>2, <1>a, <1>b, <2>1
<1>3. CASE Runs(n)
  <2>1. Aim(n)' = Aim(n)
    BY <1>3, <1>a DEF Runs, Aim
  <2>2. tmux[n].whole \/ Starting(n)
    BY <1>3, <1>c, <1>n DEF Runs, Claims
  <2>3. QED BY <1>3, <1>b, <1>n, <2>1, <2>2 DEF Runs, Claims, Agents, Terminals, Visible
<1>4. CASE Writes(n)
  BY <1>4, <1>a DEF Writes
<1>5. CASE Stops(n)
  BY <1>5, <1>n DEF Stops
<1>6. QED BY <1>1, <1>2, <1>3, <1>4, <1>5, <1>n, SessionFates

(* What is claimed is known. *)
LEMMA ClaimsAreKnown == ThreadsKept => \A n \in Claims : Aim(n) \in known
<1> SUFFICES ASSUME ThreadsKept, NEW n \in Claims PROVE Aim(n) \in known
  OBVIOUS
<1>1. n \in Terminals /\ Aim(n) # None
  BY DEF Claims, Agents
<1>2. SessionIsSound(n)
  BY <1>1 DEF ThreadsKept, SessionsAreSound
<1>3. QED BY <1>1, <1>2 DEF SessionIsSound, Aim

(* Nobody claims a thread whose lock is free and which no agent shows, while *)
(* no start is under way.                                                    *)
LEMMA NobodyClaims ==
    ASSUME ThreadsKept, op = None, NEW t \in Threads, ~Held(t), ActiveIn(t) = {}
    PROVE  \A n \in Claims : Aim(n) # t
<1> SUFFICES ASSUME NEW n \in Claims, Aim(n) = t PROVE FALSE
  OBVIOUS
<1>1. n \in Agents /\ n \in Terminals /\ tmux[n].whole /\ t # None /\ tmux[n].prog \in {"preflight", "codex"}
  BY DEF Claims, Agents, Starting, Visible
<1>2. CASE tmux[n].prog = "codex"
  BY <1>1, <1>2 DEF Aim, Held
<1>3. CASE tmux[n].prog = "preflight"
  <2>1. SessionIsSound(n)
    BY <1>1 DEF ThreadsKept, SessionsAreSound
  <2>2. ~tmux[n].open /\ tmux[n].recorded = t
    BY <1>1, <1>3, <2>1 DEF SessionIsSound, Aim
  <2>3. QED BY <1>1, <2>2 DEF ActiveIn, ActiveThread
<1>4. QED BY <1>1, <1>2, <1>3

(* Every step leaves the claims to different threads. *)
LEMMA ClaimsApartStep == TypeOK /\ ThreadsKept /\ [Next]_vars => ClaimsApart'
<1> SUFFICES ASSUME TypeOK, ThreadsKept, [Next]_vars, NEW n \in Claims', NEW m \in Claims', Aim(n)' = Aim(m)'
             PROVE  n = m
  BY DEF ClaimsApart
<1>i. \A x, y \in Claims : Aim(x) = Aim(y) => x = y
  BY DEF ThreadsKept, ClaimsApart
<1>1. ASSUME NEW x \in Claims', NEW y \in Claims', Begins(x), Aim(x)' = op.thread, op.thread # None, x # y
      PROVE  Aim(x)' # Aim(y)'
  <2>1. CASE y \in Claims /\ Aim(y)' = Aim(y)
    BY <1>1, <2>1 DEF Begins, ThreadsKept, StartIsFree
  <2>2. CASE Begins(y)
    BY <1>1, <2>2 DEF Begins
  <2>3. CASE Aim(y)' \in known' \ known
    BY <1>1, <2>3 DEF Begins, ThreadsKept, ThreadsAreKnown
  <2>4. QED BY <2>1, <2>2, <2>3, ClaimSteps
<1>2. ASSUME NEW x \in Claims', NEW y \in Claims', Writes(x), Aim(x)' \in known' \ known, x # y
      PROVE  Aim(x)' # Aim(y)'
  <2>1. CASE y \in Claims /\ Aim(y)' = Aim(y)
    BY <1>2, <2>1, ClaimsAreKnown
  <2>2. CASE Begins(y) /\ Aim(y)' = op.thread /\ op.thread # None
    BY <1>2, <2>2 DEF Begins, ThreadsKept, ThreadsAreKnown
  <2>3. CASE Writes(y)
    <3>1. y \in Names /\ tmux'[y] = tmux[y]
      BY <1>2 DEF Writes, NewThread, Pane, Claims, Agents, Terminals, TypeOK
    <3>2. tmux[y] # None /\ tmux'[y].thread \notin known
      BY <2>3 DEF Writes
    <3>3. SessionIsSound(y)
      BY <3>1, <3>2 DEF ThreadsKept, SessionsAreSound, Terminals
    <3>4. tmux'[y].thread = None
      BY <3>1, <3>2, <3>3 DEF SessionIsSound
    <3>5. Aim(y)' = tmux'[y].thread
      BY <2>3 DEF Writes, Aim
    <3>6. QED BY <3>4, <3>5 DEF Claims
  <2>4. QED BY <2>1, <2>2, <2>3, ClaimSteps
<1>3. CASE n \in Claims /\ Aim(n)' = Aim(n) /\ m \in Claims /\ Aim(m)' = Aim(m)
  BY <1>3, <1>i
<1>4. QED BY <1>1, <1>2, <1>3, ClaimSteps

-----------------------------------------------------------------------------
(* Claims and records.                                                     *)

(* Every step leaves the claims to threads without a record in time. *)
LEMMA BackendsApartStep == TypeOK /\ ThreadsKept /\ [Next]_vars => BackendsApart'
<1> SUFFICES ASSUME TypeOK, ThreadsKept, [Next]_vars, NEW n \in Claims', NEW m \in Names, web'[m] # None,
                    Aim(n)' = web'[m].thread
             PROVE  web'[m].late
  BY DEF BackendsApart, WebNames
<1>1. ASSUME NEW k \in WebNames, web'[m] = web[k] PROVE web'[m].late
  <2>1. CASE n \in Claims /\ Aim(n)' = Aim(n)
    BY <1>1, <2>1 DEF ThreadsKept, BackendsApart
  <2>2. CASE Begins(n) /\ Aim(n)' = op.thread /\ op.thread # None
    BY <1>1, <2>2 DEF Begins, ThreadsKept, StartIsFree
  <2>3. CASE Aim(n)' \in known' \ known
    BY <1>1, <2>3 DEF ThreadsKept, ThreadsAreKnown
  <2>4. QED BY <2>1, <2>2, <2>3, ClaimSteps
<1>2. CASE op # None /\ op.step = "rpc" /\ Added(m, op, FALSE)
  <2>1. PICK t \in Answer(op) : web' = [web EXCEPT ![m] = [thread |-> t, launch |-> op.launch, late |-> FALSE]]
    BY <1>2 DEF Added
  <2>2. web'[m].thread = t
    BY <2>1 DEF TypeOK
  <2>3. CASE n \in Claims /\ Aim(n)' = Aim(n)
    <3>1. CASE t \in Threads \ known
      BY <2>2, <2>3, <3>1, ClaimsAreKnown
    <3>2. CASE op.thread = t /\ op.thread # None
      BY <1>2, <2>2, <2>3, <3>2 DEF ThreadsKept, StartIsFree
    <3>3. QED BY <2>1, <3>1, <3>2, Answers
  <2>4. CASE Begins(n)
    BY <1>2, <2>4 DEF Begins
  <2>5. CASE Writes(n)
    BY <1>2, <2>5 DEF Writes, NewThread, Pane, Added
  <2>6. QED BY <2>3, <2>4, <2>5, ClaimSteps
<1>3. CASE Added(m, late, TRUE)
  BY <1>3 DEF Added, TypeOK
<1>4. QED BY <1>1, <1>2, <1>3, RecordSteps

(* Every step leaves the holder of the lock its thread. *)
LEMMA StartIsFreeStep == TypeOK /\ ThreadsKept /\ [Next]_vars => StartIsFree'
<1> SUFFICES ASSUME TypeOK, ThreadsKept, [Next]_vars, op' # None, op'.thread # None
             PROVE  /\ op'.step \in {"create", "rpc"} => \A n \in Claims' : Aim(n)' # op'.thread
                    /\ op'.step = "create" => \A m \in WebNames' : web'[m].thread = op'.thread => web'[m].late
  BY DEF StartIsFree
<1>1. ASSUME op' = op, op.step \in {"create", "rpc"}, NEW n \in Claims' PROVE Aim(n)' # op'.thread
  <2>1. CASE n \in Claims /\ Aim(n)' = Aim(n)
    BY <1>1, <2>1 DEF ThreadsKept, StartIsFree
  <2>2. CASE Begins(n)
    <3>1. op \in Operations /\ op' \in {[op EXCEPT !.step = "manage"], None}
      BY <2>2 DEF Begins, NewTmuxSession, GoesOn, TypeOK
    <3>2. op'.step = "manage"
      BY <3>1 DEF Operations
    <3>3. QED BY <1>1, <3>2
  <2>3. CASE Aim(n)' \in known' \ known
    BY <1>1, <2>3 DEF ThreadsKept, ThreadsAreKnown
  <2>4. QED BY <2>1, <2>2, <2>3, ClaimSteps
<1>2. ASSUME op' = op, op.step = "create", NEW m \in Names, web'[m] # None, web'[m].thread = op.thread PROVE web'[m].late
  <2>1. CASE \E k \in WebNames : web'[m] = web[k]
    BY <1>2, <2>1 DEF ThreadsKept, StartIsFree
  <2>2. CASE Added(m, late, TRUE)
    BY <2>2 DEF Added, TypeOK
  <2>3. QED BY <1>2, <2>1, <2>2, RecordSteps
<1>3. ASSUME op = None, known' = known, NEW t \in Threads, ~Held(t), ActiveIn(t) = {}, NEW n \in Claims'
      PROVE  Aim(n)' # t
  <2>1. n \in Claims /\ Aim(n)' = Aim(n)
    BY <1>3, ClaimSteps DEF Begins
  <2>2. QED BY <1>3, <2>1, NobodyClaims
<1>4. ASSUME NEW t \in known, op'.thread = t, ResumeTerminal(t)
      PROVE  /\ \A n \in Claims' : Aim(n)' # op'.thread
             /\ \A m \in WebNames' : web'[m].thread # op'.thread
  <2>1. op = None /\ known' = known /\ web' = web /\ t \in Threads /\ ~Held(t) /\ ActiveIn(t) = {} /\ WebOf(t) = {}
    BY <1>4 DEF ResumeTerminal, ActiveForTerminal, TypeOK
  <2>2. QED BY <1>3, <1>4, <2>1 DEF WebOf, WebNames
<1>5. ASSUME NEW t \in known, op'.thread = t, ResumeWeb(t) PROVE \A n \in Claims' : Aim(n)' # op'.thread
  <2>1. op = None /\ known' = known /\ t \in Threads /\ ~Held(t) /\ ActiveIn(t) = {}
    BY <1>5 DEF ResumeWeb, Asks, FreeOfTerminals, TypeOK
  <2>2. QED BY <1>3, <1>5, <2>1
<1>6. \/ op' = op
      \/ \E t \in known : op'.thread = t /\ ResumeTerminal(t)
      \/ op'.step = "rpc" /\ \E t \in known : op'.thread = t /\ ResumeWeb(t)
      \/ op'.step \in {"manage", "label", "record"}
  BY OpSteps
<1>7. QED BY <1>1, <1>2, <1>4, <1>5, <1>6 DEF WebNames

(* No two sessions are for one thread, in one backend or in both, but for  *)
(* terminals whose start was cut short and late web starts.                *)
THEOREM OneForEachThread == Spec => []OneSessionPerThread
<1>1. Init => ThreadsKept
  BY DEF Init, ThreadsKept, SessionsAreSound, ThreadsAreKnown, ClaimsApart, RecordsApart, BackendsApart, StartIsFree,
         Claims, Agents, Terminals, WebNames
<1>2. TypeOK /\ ThreadsKept /\ [Next]_vars => ThreadsKept'
  BY SoundStep, KnownStep, ClaimsApartStep, RecordsApartStep, BackendsApartStep, StartIsFreeStep DEF ThreadsKept
<1>3. ThreadsKept => OneSessionPerThread
  <2>1. {n \in Agents : tmux[n].whole /\ Aim(n) # None} \subseteq Claims
    BY DEF Claims
  <2>2. QED BY <2>1 DEF ThreadsKept, ClaimsApart, RecordsApart, BackendsApart, OneSessionPerThread
<1>4. QED BY <1>1, <1>2, <1>3, TypeCorrect, PTL DEF Spec
=============================================================================
