------------------------ MODULE TerminalSessionProofs -----------------------
(***************************************************************************)
(* What goes on in a terminal session: its start, and its menus and        *)
(* commands.                                                               *)
(*                                                                         *)
(* Of SessionStart, for any names, number of panes and versions: Codex is  *)
(* installed only when it is out of date, and a pane gets a second monitor *)
(* only where its entry was overwritten.  Of TuiInteraction, for any       *)
(* menus, options, answers and commands: a command runs once, and an       *)
(* answer chooses what was clicked.                                        *)
(***************************************************************************)
EXTENDS SessionStart, TuiInteraction, WellFoundedInduction, SequenceTheorems, TLAPS

USE BoundsAssumption

(* Panes are numbers, and Nobody is none of them. *)
LEMMA PanesAreNumbers == Panes \subseteq Nat /\ Nobody \notin Panes
BY DEF Panes, Nobody

(* A new pane is one that never was. *)
LEMMA NewPaneIsUnused ==
    ASSUME \E p \in Panes : prog[p] = "unused"
    PROVE  NewPane \in Panes /\ prog[NewPane] = "unused"
<1> DEFINE S == {p \in Panes : prog[p] = "unused"}
           R == OpToRel(<, Nat)
<1>1. IsWellFoundedOn(R, Nat)
  BY NatLessThanWellFounded
<1>2. \A m, n \in Nat : m < n => <<m, n>> \in R
  BY DEF OpToRel
<1>3. S \subseteq Nat /\ S # {}
  BY PanesAreNumbers
<1> HIDE DEF R
<1>4. PICK p \in S : \A q \in S : ~(<<q, p>> \in R)
  BY <1>1, <1>3, WFMin
<1>5. \A q \in S : ~(q < p)
  BY <1>2, <1>3, <1>4
<1>6. p \in Panes /\ prog[p] = "unused" /\ \A q \in Panes : q < p => prog[q] # "unused"
  BY <1>5
<1>7. QED BY <1>6 DEF NewPane

-----------------------------------------------------------------------------
(* SessionStart: types.                                                    *)

(* The end of a preflight. *)
LEMMA EndType ==
    ASSUME TypeOK, NEW p \in Panes, NEW what \in Results, Ends(p, what)
    PROVE  /\ prog' \in [Panes -> {"unused", "queued", "checking", "installing", "told", "codex", "gone"}]
           /\ result' \in [Panes -> Results] /\ lock' \in Panes \cup {Nobody}
BY DEF Ends, Unlocked, TypeOK

(* The answer that is saved. *)
LEMMA SaveType ==
    ASSUME NEW v \in Versions \cup {Broken}, NEW what \in Results, Saves(v, what)
    PROVE  state' \in [installed : Versions \cup {Broken}, result : Results, fresh : BOOLEAN]
BY DEF Saves

(* What is saved when nothing is. *)
LEMMA NoStateType == NoState \in [installed : Versions \cup {Broken}, result : Results, fresh : BOOLEAN]
BY DEF NoState, Results

(* The variables of a preflight that is over. *)
LEMMA ForgetsType ==
    ASSUME TypeOK, NEW p \in Panes, Forgets(p)
    PROVE  got' \in [Panes -> Versions \cup {Broken}] /\ result' \in [Panes -> Results]
<1>1. "failed" \in Results
  BY DEF Results
<1>2. QED BY <1>1 DEF Forgets, TypeOK

(* A start that goes on to write. *)
LEMMA MarkingType ==
    ASSUME NEW s \in [name : Names, step : {"look", "set"}]
    PROVE  [s EXCEPT !.step = "set"] \in [name : Names, step : {"look", "set"}]
OBVIOUS

(* A monitor that has decided. *)
LEMMA DecidedType ==
    ASSUME NEW m \in Monitors, NEW stage \in {"ready", "failed"}
    PROVE  [m EXCEPT !.stage = stage] \in Monitors
BY DEF Monitors

(* Every step keeps the types. *)
LEMMA TypeStep == TypeOK /\ [Next]_vars => TypeOK'
<1> SUFFICES ASSUME TypeOK, [Next]_vars PROVE TypeOK'
  OBVIOUS
<1> USE DEF preflight, options, owner, watching
<1>v. {"current", "updated", "failed"} = Results
  BY DEF Results
<1>1. ASSUME NEW n \in Names, Starts(n) PROVE TypeOK'
  <2>1. NewPane \in Panes
    BY <1>1, NewPaneIsUnused DEF Starts
  <2>2. QED BY <1>1, <2>1 DEF Starts, TypeOK
<1>2. CASE Looks \/ SetsPending
  <2>1. marking \in [name : Names, step : {"look", "set"}]
    <3>1. marking.step # "none"
      BY <1>2 DEF Looks, SetsPending
    <3>2. marking # Idle
      BY <3>1 DEF Idle
    <3>3. QED BY <3>2 DEF TypeOK
  <2>2. CASE Looks
    <3>1. [marking EXCEPT !.step = "set"] \in [name : Names, step : {"look", "set"}]
      BY <2>1, MarkingType
    <3>2. marking' \in [name : Names, step : {"look", "set"}] \cup {Idle}
      BY <2>2, <3>1 DEF Looks
    <3>3. QED BY <2>2, <3>2 DEF Looks, TypeOK
  <2>3. CASE SetsPending
    BY <2>1, <2>3 DEF SetsPending, TypeOK
  <2>4. QED BY <1>2, <2>2, <2>3
<1>3. ASSUME NEW p \in Panes, TakesLock(p) PROVE TypeOK'
  <2>1. PICK v \in {installed, Broken} : got' = [got EXCEPT ![p] = v]
    BY <1>3 DEF TakesLock
  <2>2. got' \in [Panes -> Versions \cup {Broken}]
    BY <2>1 DEF TypeOK
  <2>3. QED BY <1>3, <2>2 DEF TakesLock, TypeOK
<1>4. ASSUME NEW p \in Panes, UsesCache(p) PROVE TypeOK'
  <2>1. state.result \in Results
    BY DEF TypeOK
  <2>2. QED BY <1>4, <2>1, EndType DEF UsesCache, TypeOK
<1>5. ASSUME NEW p \in Panes, AsksLatest(p) PROVE TypeOK'
  <2>1. got[p] \in Versions \cup {Broken}
    BY DEF TypeOK
  <2>2. CASE NothingToDo(p) \/ Unknown(p)
    BY <1>5, <1>v, <2>1, <2>2, EndType, SaveType DEF AsksLatest, NothingToDo, Unknown, TypeOK
  <2>3. CASE BeginsInstall(p)
    BY <1>5, <2>3 DEF AsksLatest, BeginsInstall, TypeOK
  <2>4. QED BY <1>5, <2>2, <2>3 DEF AsksLatest
<1>6. ASSUME NEW p \in Panes, InstallEnds(p) PROVE TypeOK'
  <2>1. got[p] \in Versions \cup {Broken} /\ latest \in Versions \cup {Broken}
    BY DEF TypeOK
  <2>2. installed' \in Versions \cup {Broken}
    BY <1>6 DEF InstallEnds, Installed, InstallFails, TypeOK
  <2>3. \E what \in Results, v \in Versions \cup {Broken} : Ends(p, what) /\ Saves(v, what)
    BY <1>6, <1>v, <2>1 DEF InstallEnds, Installed, InstallFails
  <2>4. QED BY <1>6, <2>2, <2>3, EndType, SaveType DEF InstallEnds, TypeOK
<1>7. ASSUME NEW p \in Panes, Tells(p) PROVE TypeOK'
  <2> DEFINE told == [n \in Names |-> IF pane[n] = p THEN result[p] ELSE update[n]]
  <2>1. result[p] \in Results
    BY DEF TypeOK
  <2>2. told \in [Names -> Results \cup {"", "pending", "reconciled"}]
    BY <2>1 DEF TypeOK
  <2> HIDE DEF told
  <2>3. update' \in {update, told}
    BY <1>7 DEF Tells, told
  <2>4. update' \in [Names -> Results \cup {"", "pending", "reconciled"}]
    BY <2>2, <2>3 DEF TypeOK
  <2>5. QED BY <1>7, <2>4, ForgetsType DEF Tells, TypeOK
<1>8. ASSUME NEW n \in Names, Dies(n) PROVE TypeOK'
  <2>1. pane[n] \in Panes
    BY <1>8 DEF Dies, TypeOK
  <2>2. QED BY <1>8, <2>1, ForgetsType DEF Dies, TypeOK
<1>9. CASE Published \/ Expires \/ Repaired
  <2>1. CASE Published
    <3>1. latest \in Versions /\ latest < MaxVersion
      BY <2>1 DEF Published, TypeOK
    <3>2. latest + 1 \in Versions
      BY <3>1 DEF Versions
    <3>3. QED BY <2>1, <3>2 DEF Published, TypeOK
  <2>2. CASE Expires
    <3>1. state' \in [installed : Versions \cup {Broken}, result : Results, fresh : BOOLEAN]
      BY <2>2, NoStateType DEF Expires
    <3>2. QED BY <2>2, <3>1 DEF Expires, TypeOK
  <2>3. CASE Repaired
    BY <2>3 DEF Repaired, TypeOK
  <2>4. QED BY <1>9, <2>1, <2>2, <2>3
<1>10. CASE (\E n \in Polled : ReadsMarks(n)) \/ \E c \in calls : Ensures(c)
  <2>1. ASSUME NEW n \in Polled, ReadsMarks(n) PROVE TypeOK'
    <3>1. [name |-> n, pane |-> Nobody] \in Calls
      BY PolledAssumption DEF Calls
    <3>2. calls' \subseteq Calls
      BY <2>1, <3>1 DEF ReadsMarks, TypeOK
    <3>3. QED BY <2>1, <3>2 DEF ReadsMarks, TypeOK
  <2>2. ASSUME NEW c \in calls, ReadsPane(c) PROVE TypeOK'
    <3>1. c.name \in Names /\ pane[c.name] \in Panes \cup {Nobody}
      BY DEF TypeOK, Calls
    <3>2. [name |-> c.name, pane |-> pane[c.name]] \in Calls
      BY <3>1 DEF Calls
    <3>3. calls' \subseteq Calls
      BY <2>2, <3>2 DEF ReadsPane, TypeOK
    <3>4. QED BY <2>2, <3>3 DEF ReadsPane, TypeOK
  <2>3. ASSUME NEW c \in calls, EnsureMonitor(c) PROVE TypeOK'
    <3>1. c.name \in Names /\ c.pane \in Panes
      BY <2>3 DEF EnsureMonitor, TypeOK, Calls
    <3>2. PICK id \in NewThreads :
             monitors' = monitors \cup {[id |-> id, name |-> c.name, pane |-> c.pane, stage |-> "watches"]}
      BY <2>3 DEF EnsureMonitor
    <3>3. [id |-> id, name |-> c.name, pane |-> c.pane, stage |-> "watches"] \in Monitors
      BY <3>1 DEF Monitors, NewThreads, FreeThreads
    <3>4. monitors' \subseteq Monitors
      BY <3>2, <3>3 DEF TypeOK
    <3>5. displaced' \subseteq Panes
      BY <2>3 DEF EnsureMonitor, Displaces, TypeOK
    <3>6. QED BY <2>3, <3>1, <3>4, <3>5 DEF EnsureMonitor, TypeOK
  <2>4. QED BY <1>10, <2>1, <2>2, <2>3 DEF Ensures
<1>11. ASSUME NEW m \in monitors, Watches(m) PROVE TypeOK'
  <2>1. m \in Monitors
    BY DEF TypeOK
  <2>2. Forget(m) \in [Names -> Panes \cup {Nobody}]
    BY <2>1 DEF Forget, TypeOK, Monitors
  <2>3. CASE Decides(m)
    <3>1. PICK stage \in {"ready", "failed"} : monitors' = (monitors \ {m}) \cup {[m EXCEPT !.stage = stage]}
      BY <2>3 DEF Decides
    <3>2. [m EXCEPT !.stage = stage] \in Monitors
      BY <2>1, DecidedType
    <3>3. monitors' \subseteq Monitors
      BY <3>1, <3>2 DEF TypeOK
    <3>4. QED BY <2>3, <3>3 DEF Decides, TypeOK
  <2>4. CASE Writes(m)
    BY <2>1, <2>2, <2>4 DEF Writes, TypeOK
  <2>5. CASE LosesPane(m)
    BY <2>2, <2>5 DEF LosesPane, TypeOK
  <2>6. QED BY <1>11, <2>3, <2>4, <2>5 DEF Watches
<1>12. ASSUME NEW n \in Names, Reconciles(n) PROVE TypeOK'
  BY <1>12 DEF Reconciles, TypeOK
<1>13. CASE OwnerRestarts
  BY <1>13 DEF OwnerRestarts, TypeOK
<1>14. CASE UNCHANGED vars
  BY <1>14 DEF vars, TypeOK
<1>15. QED BY <1>1, <1>2, <1>3, <1>4, <1>5, <1>6, <1>7, <1>8, <1>9, <1>10, <1>11, <1>12, <1>13, <1>14 DEF Next, Preflight

(* Every variable keeps its type. *)
THEOREM TypeCorrect == Spec => []TypeOK
<1>1. Init => TypeOK
  <2>1. 1 \in Versions /\ NoState \in [installed : Versions \cup {Broken}, result : Results, fresh : BOOLEAN]
    BY DEF NoState, Versions, Results
  <2>2. "failed" \in Results
    BY DEF Results
  <2>3. SUFFICES ASSUME Init PROVE TypeOK
    OBVIOUS
  <2>4. got \in [Panes -> Versions \cup {Broken}] /\ result \in [Panes -> Results]
    BY <2>2, <2>3 DEF Init
  <2>5. /\ pane \in [Names -> Panes \cup {Nobody}] /\ watch \in [Names -> Panes \cup {Nobody}]
        /\ prog \in [Panes -> {"unused", "queued", "checking", "installing", "told", "codex", "gone"}]
    BY <2>3 DEF Init
  <2>6. /\ installed \in Versions \cup {Broken} /\ latest \in Versions /\ helper \in Versions
        /\ state \in [installed : Versions \cup {Broken}, result : Results, fresh : BOOLEAN]
    BY <2>1, <2>3 DEF Init
  <2>7. /\ update \in [Names -> Results \cup {"", "pending", "reconciled"}]
        /\ starting \in [Names -> BOOLEAN] /\ error \in [Names -> BOOLEAN]
    BY <2>3 DEF Init
  <2>8. QED BY <2>3, <2>4, <2>5, <2>6, <2>7 DEF Init, TypeOK
<1>2. QED BY <1>1, TypeStep, PTL DEF Spec

-----------------------------------------------------------------------------
(* The lock, and what is read under it.                                    *)

LockIsHeld == \A p \in Panes : prog[p] \in {"checking", "installing"} => lock = p

ReadIsTrue == \A p \in Panes : prog[p] = "checking" /\ got[p] # Broken => got[p] = installed

LockInv == LockIsHeld /\ ReadIsTrue

(* The preflight that ends is the one that had the lock: nobody is left.   *)
LEMMA EndLeavesNobody ==
    ASSUME TypeOK, LockInv, NEW p \in Panes, NEW what, Ends(p, what), prog[p] \in {"checking", "installing"}
    PROVE  LockInv'
<1>1. \A q \in Panes : q # p => prog[q] \notin {"checking", "installing"}
  BY DEF LockInv, LockIsHeld
<1>2. prog' = [prog EXCEPT ![p] = "told"]
  BY DEF Ends
<1>3. \A q \in Panes : prog'[q] \notin {"checking", "installing"}
  BY <1>1, <1>2 DEF TypeOK
<1>4. QED BY <1>3 DEF LockInv, LockIsHeld, ReadIsTrue

(* Only one pane checks or installs, and what it has read stays true.      *)
LEMMA LockStep == TypeOK /\ LockInv /\ [Next]_vars => LockInv'
<1> SUFFICES ASSUME TypeOK, LockInv, [Next]_vars PROVE LockInv'
  OBVIOUS
<1> USE DEF preflight, options, owner, watching
<1>1. ASSUME NEW n \in Names, Starts(n) PROVE LockInv'
  <2>1. NewPane \in Panes
    BY <1>1, NewPaneIsUnused DEF Starts
  <2>2. \A q \in Panes : prog'[q] \in {"checking", "installing"} => prog'[q] = prog[q]
    BY <1>1, <2>1 DEF Starts, TypeOK
  <2>3. QED BY <1>1, <2>2 DEF Starts, LockInv, LockIsHeld, ReadIsTrue
<1>2. ASSUME NEW p \in Panes, TakesLock(p) PROVE LockInv'
  <2>1. \A q \in Panes : prog[q] \notin {"checking", "installing"}
    BY <1>2, PanesAreNumbers DEF TakesLock, LockFree, LockInv, LockIsHeld
  <2>2. prog' = [prog EXCEPT ![p] = "checking"] /\ lock' = p /\ installed' = installed
    BY <1>2 DEF TakesLock
  <2>3. \A q \in Panes : prog'[q] \in {"checking", "installing"} => q = p
    BY <2>1, <2>2 DEF TypeOK
  <2>4. got'[p] \in {installed, Broken}
    BY <1>2 DEF TakesLock, TypeOK
  <2>5. QED BY <2>2, <2>3, <2>4 DEF LockInv, LockIsHeld, ReadIsTrue
<1>3. ASSUME NEW p \in Panes, UsesCache(p) PROVE LockInv'
  BY <1>3, EndLeavesNobody DEF UsesCache
<1>4. ASSUME NEW p \in Panes, AsksLatest(p) PROVE LockInv'
  <2>1. CASE NothingToDo(p) \/ Unknown(p)
    BY <1>4, <2>1, EndLeavesNobody DEF AsksLatest, NothingToDo, Unknown
  <2>2. CASE BeginsInstall(p)
    <3>1. prog[p] = "checking" /\ prog' = [prog EXCEPT ![p] = "installing"]
      BY <1>4, <2>2 DEF AsksLatest, BeginsInstall
    <3>2. lock' = lock /\ got' = got /\ installed' = installed
      BY <1>4, <2>2 DEF AsksLatest, BeginsInstall
    <3>3. \A q \in Panes : prog'[q] = IF q = p THEN "installing" ELSE prog[q]
      BY <3>1 DEF TypeOK
    <3>4. QED BY <3>1, <3>2, <3>3 DEF LockInv, LockIsHeld, ReadIsTrue
  <2>3. QED BY <1>4, <2>1, <2>2 DEF AsksLatest
<1>5. ASSUME NEW p \in Panes, InstallEnds(p) PROVE LockInv'
  BY <1>5, EndLeavesNobody DEF InstallEnds, Installed, InstallFails
<1>6. ASSUME NEW p \in Panes, Tells(p) PROVE LockInv'
  <2>1. prog' = [prog EXCEPT ![p] = "codex"]
    BY <1>6 DEF Tells
  <2>2. \A q \in Panes : prog'[q] \in {"checking", "installing"} => prog'[q] = prog[q]
    BY <2>1 DEF TypeOK
  <2>3. lock' = lock /\ got' = [got EXCEPT ![p] = Broken] /\ installed' = installed
    BY <1>6 DEF Tells, Forgets
  <2>4. \A q \in Panes : prog'[q] = "checking" => got'[q] = got[q]
    BY <2>1, <2>3 DEF TypeOK
  <2>5. QED BY <2>2, <2>3, <2>4 DEF LockInv, LockIsHeld, ReadIsTrue
<1>7. ASSUME NEW n \in Names, Dies(n) PROVE LockInv'
  <2>1. pane[n] \in Panes
    BY <1>7 DEF Dies, TypeOK
  <2>2. prog' = [prog EXCEPT ![pane[n]] = "gone"] /\ got' = [got EXCEPT ![pane[n]] = Broken]
    BY <1>7 DEF Dies, Forgets
  <2>3. \A q \in Panes : prog'[q] \in {"checking", "installing"} => q # pane[n] /\ prog'[q] = prog[q]
    BY <2>1, <2>2 DEF TypeOK
  <2>4. \A q \in Panes : prog'[q] \in {"checking", "installing"} => lock = q /\ lock' = q
    BY <1>7, <2>3 DEF Dies, LockInv, LockIsHeld
  <2>5. \A q \in Panes : prog'[q] = "checking" => installed' = installed
    BY <1>7, <2>1, <2>4 DEF Dies, LockInv, LockIsHeld
  <2>6. \A q \in Panes : prog'[q] = "checking" => got'[q] = got[q]
    BY <2>2, <2>3 DEF TypeOK
  <2>7. QED BY <2>3, <2>4, <2>5, <2>6 DEF LockInv, LockIsHeld, ReadIsTrue
<1>8. CASE Repaired
  <2>1. \A q \in Panes : prog[q] \notin {"checking", "installing"}
    BY <1>8, PanesAreNumbers DEF Repaired, LockInv, LockIsHeld
  <2>2. QED BY <1>8, <2>1 DEF Repaired, LockInv, LockIsHeld, ReadIsTrue
<1>9. ASSUME UNCHANGED <<prog, got, lock, installed>> PROVE LockInv'
  BY <1>9 DEF LockInv, LockIsHeld, ReadIsTrue
<1>10. CASE Looks \/ SetsPending \/ OwnerRestarts \/ Published \/ Expires \/ UNCHANGED vars
  BY <1>9, <1>10 DEF Looks, SetsPending, OwnerRestarts, Published, Expires, vars
<1>11. CASE (\E n \in Names : Reconciles(n)) \/ (\E n \in Polled : ReadsMarks(n)) \/ \E c \in calls : Ensures(c)
  BY <1>9, <1>11 DEF Reconciles, ReadsMarks, Ensures, ReadsPane, EnsureMonitor
<1>12. CASE \E m \in monitors : Watches(m)
  BY <1>9, <1>12 DEF Watches, Decides, Writes, LosesPane
<1>13. QED BY <1>1, <1>2, <1>3, <1>4, <1>5, <1>6, <1>7, <1>8, <1>10, <1>11, <1>12 DEF Next, Preflight

(* It holds from the start on. *)
LEMMA LockCorrect == Spec => []LockInv
<1>1. Init => LockInv
  BY DEF Init, LockInv, LockIsHeld, ReadIsTrue
<1>2. QED BY <1>1, LockStep, TypeCorrect, PTL DEF Spec

(* An installation begins with a version that was read under the lock.     *)
LEMMA InstallStep == TypeOK /\ LockInv /\ [Next]_vars =>
    [\A p \in Panes : prog[p] # "installing" /\ prog'[p] = "installing" => installed < latest]_vars
<1> SUFFICES ASSUME TypeOK, LockInv, Next, NEW p \in Panes, prog[p] # "installing", prog'[p] = "installing"
             PROVE  installed < latest
  BY DEF vars
<1> USE DEF preflight, options, owner, watching
<1>1. ASSUME NEW q \in Panes, NEW what, prog' = [prog EXCEPT ![q] = what], what # "installing" PROVE FALSE
  BY <1>1 DEF TypeOK
<1>2. ASSUME UNCHANGED prog PROVE FALSE
  BY <1>2
<1>3. ~(\E n \in Names : Starts(n))
  <2>1. ASSUME NEW n \in Names, Starts(n) PROVE FALSE
    BY <1>1, <2>1, NewPaneIsUnused DEF Starts
  <2>2. QED BY <2>1
<1>4. ~(\E n \in Names : Dies(n))
  <2>1. ASSUME NEW n \in Names, Dies(n) PROVE FALSE
    <3>1. pane[n] \in Panes
      BY <2>1 DEF Dies, TypeOK
    <3>2. QED BY <1>1, <2>1, <3>1 DEF Dies
  <2>2. QED BY <2>1
<1>5. ASSUME NEW q \in Panes, NEW what, Ends(q, what) PROVE FALSE
  BY <1>1, <1>5 DEF Ends
<1>6. ASSUME NEW q \in Panes, Preflight(q) PROVE AsksLatest(q) /\ BeginsInstall(q)
  <2>1. ~TakesLock(q) /\ ~Tells(q)
    BY <1>1 DEF TakesLock, Tells
  <2>2. ~UsesCache(q) /\ ~InstallEnds(q)
    BY <1>5 DEF UsesCache, InstallEnds, Installed, InstallFails
  <2>3. ~NothingToDo(q) /\ ~Unknown(q)
    BY <1>5 DEF NothingToDo, Unknown
  <2>4. QED BY <1>6, <2>1, <2>2, <2>3 DEF Preflight, AsksLatest
<1>7. ~(\E m \in monitors : Watches(m))
  BY <1>2 DEF Watches, Decides, Writes, LosesPane
<1>8. ~(\E n \in Names : Reconciles(n)) /\ ~(\E n \in Polled : ReadsMarks(n)) /\ ~(\E c \in calls : Ensures(c))
  BY <1>2 DEF Reconciles, ReadsMarks, Ensures, ReadsPane, EnsureMonitor
<1>9. ~(Looks \/ SetsPending \/ OwnerRestarts \/ Published \/ Expires \/ Repaired)
  BY <1>2 DEF Looks, SetsPending, OwnerRestarts, Published, Expires, Repaired
<1>10. PICK q \in Panes : AsksLatest(q) /\ BeginsInstall(q)
  BY <1>3, <1>4, <1>6, <1>7, <1>8, <1>9 DEF Next
<1>11. prog[q] = "checking" /\ got[q] # Broken /\ latest > got[q]
  BY <1>10 DEF AsksLatest, BeginsInstall
<1>12. got[q] = installed
  BY <1>11 DEF LockInv, ReadIsTrue
<1>13. latest \in Nat /\ installed \in Nat
  <2>1. latest \in Versions /\ installed \in Versions \cup {Broken}
    BY DEF TypeOK
  <2>2. QED BY <2>1 DEF Versions, Broken
<1>14. QED BY <1>11, <1>12, <1>13

(* Sessions that start together install a version of Codex once.           *)
THEOREM InstallsOnce == Spec => NeverInstallsTwice
BY InstallStep, LockCorrect, TypeCorrect, PTL DEF Spec, NeverInstallsTwice

-----------------------------------------------------------------------------
(* Monitors.                                                               *)

PanesAreUsed ==
    /\ \A n \in Names : pane[n] # Nobody => prog[pane[n]] # "unused"
    /\ \A m \in monitors : prog[m.pane] # "unused"
    /\ \A c \in calls : c.pane # Nobody => prog[c.pane] # "unused"

PanesHaveOneName ==
    /\ \A n, o \in Names : pane[n] # Nobody /\ pane[n] = pane[o] => n = o
    /\ \A n \in Names : \A m \in monitors : m.pane = pane[n] => m.name = n
    /\ \A n \in Names : \A c \in calls : c.pane # Nobody /\ c.pane = pane[n] => c.name = n

LivingIsWatched ==
    \A m \in monitors : pane[m.name] = m.pane => watch[m.name] = m.pane \/ m.pane \in displaced

MonitorInv == PanesAreUsed /\ PanesHaveOneName /\ WatchedOnce /\ LivingIsWatched

(* What a monitor leaves when it ends.                                     *)
LEMMA MonitorEnds ==
    ASSUME TypeOK, MonitorInv, NEW m \in monitors, monitors' = monitors \ {m}, watch' = Forget(m),
           UNCHANGED <<pane, prog, calls, displaced>>
    PROVE  MonitorInv'
<1>1. \A o \in monitors' : o \in monitors /\ o # m
  OBVIOUS
<1>2. PanesAreUsed' /\ PanesHaveOneName' /\ WatchedOnce'
  BY <1>1 DEF MonitorInv, PanesAreUsed, PanesHaveOneName, WatchedOnce
<1>3. ASSUME NEW o \in monitors', pane'[o.name] = o.pane PROVE watch'[o.name] = o.pane \/ o.pane \in displaced'
  <2>1. m.pane = o.pane => o.pane \in displaced
    BY <1>1, <1>3 DEF MonitorInv, WatchedOnce
  <2>2. o.name \in Names /\ m.name \in Names
    BY <1>1 DEF TypeOK, Monitors
  <2>3. watch[o.name] = o.pane /\ m.pane # o.pane => watch'[o.name] = watch[o.name]
    BY <2>2 DEF Forget, TypeOK
  <2>4. QED BY <1>1, <1>3, <2>1, <2>3 DEF MonitorInv, LivingIsWatched
<1>4. QED BY <1>2, <1>3 DEF MonitorInv, LivingIsWatched

(* A step that leaves panes, names and monitors alone.                     *)
LEMMA ProgramStep ==
    ASSUME TypeOK, MonitorInv, UNCHANGED <<pane, watching>>,
           NEW p \in Panes, NEW what, what # "unused", prog' = [prog EXCEPT ![p] = what]
    PROVE  MonitorInv'
<1>1. \A q \in Panes : prog[q] # "unused" => prog'[q] # "unused"
  BY DEF TypeOK
<1>2. /\ \A n \in Names : pane[n] # Nobody => pane[n] \in Panes
      /\ \A m \in monitors : m.pane \in Panes
      /\ \A c \in calls : c.pane # Nobody => c.pane \in Panes
  BY DEF TypeOK, Monitors, Calls
<1>3. PanesAreUsed'
  BY <1>1, <1>2 DEF MonitorInv, PanesAreUsed, watching
<1>4. QED BY <1>3 DEF MonitorInv, PanesHaveOneName, WatchedOnce, LivingIsWatched, watching

(* Every step keeps monitors and panes together.                           *)
LEMMA MonitorStep == TypeOK /\ MonitorInv /\ [Next]_vars => MonitorInv'
<1> SUFFICES ASSUME TypeOK, MonitorInv, [Next]_vars PROVE MonitorInv'
  OBVIOUS
<1> USE DEF preflight, options, owner, watching
<1>t. /\ \A n \in Names : pane[n] # Nobody => pane[n] \in Panes
      /\ \A m \in monitors : m.pane \in Panes /\ m.name \in Names
      /\ \A c \in calls : (c.pane # Nobody => c.pane \in Panes) /\ c.name \in Names
  BY DEF TypeOK, Monitors, Calls
<1>1. ASSUME NEW n \in Names, Starts(n) PROVE MonitorInv'
  <2>1. NewPane \in Panes /\ prog[NewPane] = "unused"
    BY <1>1, NewPaneIsUnused DEF Starts
  <2>2. /\ pane' = [pane EXCEPT ![n] = NewPane] /\ prog' = [prog EXCEPT ![NewPane] = "queued"]
        /\ UNCHANGED <<watch, monitors, calls, displaced>>
    BY <1>1 DEF Starts
  <2>3. \A o \in Names : pane'[o] = IF o = n THEN NewPane ELSE pane[o]
    BY <2>2 DEF TypeOK
  <2>4. \A q \in Panes : prog'[q] = IF q = NewPane THEN "queued" ELSE prog[q]
    BY <2>2 DEF TypeOK
  <2>5. /\ \A o \in Names : pane[o] # Nobody => pane[o] # NewPane
        /\ \A m \in monitors : m.pane # NewPane
        /\ \A c \in calls : c.pane # NewPane
    BY <2>1, PanesAreNumbers DEF MonitorInv, PanesAreUsed
  <2>6. PanesAreUsed'
    BY <1>t, <2>1, <2>2, <2>3, <2>4 DEF MonitorInv, PanesAreUsed
  <2>7. PanesHaveOneName'
    <3>1. \A o, q \in Names : pane'[o] # Nobody /\ pane'[o] = pane'[q] => o = q
      BY <2>1, <2>3, <2>5, PanesAreNumbers DEF MonitorInv, PanesHaveOneName
    <3>2. \A o \in Names : \A m \in monitors' : m.pane = pane'[o] => m.name = o
      BY <2>2, <2>3, <2>5 DEF MonitorInv, PanesHaveOneName
    <3>3. \A o \in Names : \A c \in calls' : c.pane # Nobody /\ c.pane = pane'[o] => c.name = o
      BY <2>2, <2>3, <2>5 DEF MonitorInv, PanesHaveOneName
    <3>4. QED BY <3>1, <3>2, <3>3 DEF PanesHaveOneName
  <2>8. WatchedOnce' /\ LivingIsWatched'
    BY <1>t, <2>2, <2>3, <2>5 DEF MonitorInv, WatchedOnce, LivingIsWatched
  <2>9. QED BY <2>6, <2>7, <2>8 DEF MonitorInv
<1>2. ASSUME NEW n \in Names, Dies(n) PROVE MonitorInv'
  <2>1. pane[n] \in Panes
    BY <1>2 DEF Dies, TypeOK
  <2>2. /\ pane' = [pane EXCEPT ![n] = Nobody] /\ prog' = [prog EXCEPT ![pane[n]] = "gone"]
        /\ UNCHANGED <<watch, monitors, calls, displaced>>
    BY <1>2 DEF Dies
  <2>3. \A o \in Names : pane'[o] = IF o = n THEN Nobody ELSE pane[o]
    BY <2>2 DEF TypeOK
  <2>4. \A q \in Panes : prog'[q] = IF q = pane[n] THEN "gone" ELSE prog[q]
    BY <2>1, <2>2 DEF TypeOK
  <2>5. \A m \in monitors : m.pane # Nobody
    BY <1>t, PanesAreNumbers
  <2>6. PanesAreUsed'
    BY <1>t, <2>2, <2>3, <2>4 DEF MonitorInv, PanesAreUsed
  <2>7. PanesHaveOneName' /\ WatchedOnce' /\ LivingIsWatched'
    BY <1>t, <2>2, <2>3, <2>5 DEF MonitorInv, PanesHaveOneName, WatchedOnce, LivingIsWatched
  <2>8. QED BY <2>6, <2>7 DEF MonitorInv
<1>3. ASSUME NEW c \in calls, EnsureMonitor(c) PROVE MonitorInv'
  <2>1. PICK id \in NewThreads :
           monitors' = monitors \cup {[id |-> id, name |-> c.name, pane |-> c.pane, stage |-> "watches"]}
    BY <1>3 DEF EnsureMonitor
  <2> DEFINE new == [id |-> id, name |-> c.name, pane |-> c.pane, stage |-> "watches"]
  <2>2. /\ c.pane \in Panes /\ c.name \in Names /\ c.pane # Nobody /\ watch[c.name] # c.pane
        /\ UNCHANGED <<pane, prog, calls>> /\ watch' = [watch EXCEPT ![c.name] = c.pane]
        /\ monitors' = monitors \cup {new} /\ new.name = c.name /\ new.pane = c.pane
    BY <1>3, <1>t, <2>1 DEF EnsureMonitor
  <2> HIDE DEF new
  <2>3. displaced \subseteq displaced' /\ displaced' = displaced \cup Displaces(c.name, c.pane)
    BY <1>3 DEF EnsureMonitor
  <2>4. \A o \in Names : watch'[o] = IF o = c.name THEN c.pane ELSE watch[o]
    BY <2>2 DEF TypeOK
  <2>5. PanesAreUsed' /\ PanesHaveOneName'
    BY <2>2 DEF MonitorInv, PanesAreUsed, PanesHaveOneName
  <2>6. \A o \in monitors : o.pane = c.pane /\ pane[o.name] = o.pane => o.pane \in displaced
    BY <1>t, <2>2 DEF MonitorInv, PanesHaveOneName, LivingIsWatched
  <2>7. pane[c.name] = c.pane => \A o \in monitors : o.pane = c.pane => o.name = c.name
    BY <2>2 DEF MonitorInv, PanesHaveOneName
  <2>8. WatchedOnce'
    BY <2>2, <2>3, <2>6, <2>7 DEF MonitorInv, WatchedOnce
  <2>9. ASSUME NEW o \in monitors, pane[o.name] = o.pane PROVE watch'[o.name] = o.pane \/ o.pane \in displaced'
    <3>1. watch[o.name] = o.pane \/ o.pane \in displaced
      BY <2>9 DEF MonitorInv, LivingIsWatched
    <3>2. CASE o.name = c.name /\ o.pane # c.pane /\ watch[o.name] = o.pane
      BY <1>t, <2>3, <2>9, <3>2 DEF Displaces
    <3>3. QED BY <1>t, <2>2, <2>3, <2>4, <3>1, <3>2
  <2>10. LivingIsWatched'
    BY <2>2, <2>4, <2>9 DEF LivingIsWatched
  <2>11. QED BY <2>5, <2>8, <2>10 DEF MonitorInv
<1>4. ASSUME NEW m \in monitors, Decides(m) PROVE MonitorInv'
  <2>1. PICK stage \in {"ready", "failed"} : monitors' = (monitors \ {m}) \cup {[m EXCEPT !.stage = stage]}
    BY <1>4 DEF Decides
  <2> DEFINE decided == [m EXCEPT !.stage = stage]
  <2>2. decided.name = m.name /\ decided.pane = m.pane
    <3>1. m \in Monitors
      BY DEF TypeOK
    <3>2. QED BY <3>1 DEF Monitors
  <2>3. monitors' = (monitors \ {m}) \cup {decided} /\ UNCHANGED <<pane, prog, watch, calls, displaced>>
    BY <1>4, <2>1 DEF Decides
  <2> HIDE DEF decided
  <2>4. PanesAreUsed' /\ PanesHaveOneName' /\ LivingIsWatched'
    BY <2>2, <2>3 DEF MonitorInv, PanesAreUsed, PanesHaveOneName, LivingIsWatched
  <2>5. WatchedOnce'
    BY <2>2, <2>3 DEF MonitorInv, WatchedOnce
  <2>6. QED BY <2>4, <2>5 DEF MonitorInv
<1>5. ASSUME NEW m \in monitors, Watches(m) PROVE MonitorInv'
  BY <1>4, <1>5, MonitorEnds DEF Watches, Writes, LosesPane
<1>6. ASSUME NEW p \in Panes, NEW what, Ends(p, what), UNCHANGED <<pane, watching>> PROVE MonitorInv'
  BY <1>6, ProgramStep DEF Ends
<1>7. ASSUME NEW p \in Panes, Preflight(p) PROVE MonitorInv'
  <2>1. CASE TakesLock(p)
    BY <2>1, ProgramStep DEF TakesLock
  <2>2. CASE UsesCache(p)
    BY <2>2, <1>6 DEF UsesCache
  <2>3. CASE AsksLatest(p)
    <3>1. CASE BeginsInstall(p)
      BY <2>3, <3>1, ProgramStep DEF AsksLatest, BeginsInstall
    <3>2. CASE NothingToDo(p) \/ Unknown(p)
      BY <2>3, <3>2, <1>6 DEF AsksLatest, NothingToDo, Unknown
    <3>3. QED BY <2>3, <3>1, <3>2 DEF AsksLatest
  <2>4. CASE InstallEnds(p)
    BY <2>4, <1>6 DEF InstallEnds, Installed, InstallFails
  <2>5. CASE Tells(p)
    BY <2>5, ProgramStep DEF Tells
  <2>6. QED BY <1>7, <2>1, <2>2, <2>3, <2>4, <2>5 DEF Preflight
<1>8. CASE OwnerRestarts
  BY <1>8 DEF OwnerRestarts, MonitorInv, PanesAreUsed, PanesHaveOneName, WatchedOnce, LivingIsWatched
<1>9. ASSUME UNCHANGED <<pane, prog, watch, monitors, calls, displaced>> PROVE MonitorInv'
  BY <1>9 DEF MonitorInv, PanesAreUsed, PanesHaveOneName, WatchedOnce, LivingIsWatched
<1>10. CASE Looks \/ SetsPending \/ Published \/ Expires \/ Repaired \/ UNCHANGED vars
  BY <1>9, <1>10 DEF Looks, SetsPending, Published, Expires, Repaired, vars
<1>11. CASE \E n \in Names : Reconciles(n)
  BY <1>9, <1>11 DEF Reconciles
<1>12. ASSUME NEW n \in Polled, ReadsMarks(n) PROVE MonitorInv'
  <2>1. calls' = calls \cup {[name |-> n, pane |-> Nobody]} /\ UNCHANGED <<pane, prog, watch, monitors, displaced>>
    BY <1>12 DEF ReadsMarks
  <2>2. \A c \in calls' : c.pane # Nobody => c \in calls
    BY <2>1
  <2>3. PanesAreUsed' /\ PanesHaveOneName'
    BY <2>1, <2>2 DEF MonitorInv, PanesAreUsed, PanesHaveOneName
  <2>4. QED BY <2>1, <2>3 DEF MonitorInv, WatchedOnce, LivingIsWatched
<1>13. ASSUME NEW c \in calls, ReadsPane(c) PROVE MonitorInv'
  <2>1. /\ calls' = calls \cup {[name |-> c.name, pane |-> pane[c.name]]} /\ pane[c.name] # Nobody
        /\ UNCHANGED <<pane, prog, watch, monitors, displaced>>
    BY <1>13 DEF ReadsPane
  <2>2. \A d \in calls' : d \in calls \/ (d.name = c.name /\ d.pane = pane[c.name])
    BY <2>1
  <2>3. PanesAreUsed' /\ PanesHaveOneName'
    BY <1>t, <2>1, <2>2 DEF MonitorInv, PanesAreUsed, PanesHaveOneName
  <2>4. QED BY <2>1, <2>3 DEF MonitorInv, WatchedOnce, LivingIsWatched
<1>14. QED BY <1>1, <1>2, <1>3, <1>5, <1>7, <1>8, <1>10, <1>11, <1>12, <1>13 DEF Next, Ensures

(* A session's pane gets a second monitor only when a caller with an older *)
(* pane of the name wrote over its entry, whatever becomes of the name.    *)
THEOREM OneMonitorForAPane == Spec => []WatchedOnce
<1>1. Init => MonitorInv
  BY PanesAreNumbers DEF Init, MonitorInv, PanesAreUsed, PanesHaveOneName, WatchedOnce, LivingIsWatched
<1>2. MonitorInv => WatchedOnce
  BY DEF MonitorInv
<1>3. QED BY <1>1, <1>2, MonitorStep, TypeCorrect, PTL DEF Spec

-----------------------------------------------------------------------------
(* TuiInteraction: types.                                                  *)

Requests == Answers \cup Commands
AnswerSteps == {"look", "keys", "wait"}
CommandSteps == {"type", "place", "enter", "after"}
AnswerKeys == {"Up", "Down", "Enter", "Escape"}
Inputs == [key : AnswerKeys \cup {"text"}, by : Requests \cup {Person}]
Screens == {NoMenu} \cup [menu : Nat \ {0}, look : MenuLooks, sel : Options]

ScreenTypes == quoted \in Quotable /\ screen \in Screens /\ menus \in Nat
InputTypes ==
    /\ pty \in Seq(Inputs)
    /\ \A i \in DOMAIN pty : pty[i].by \in Answers => pty[i].key # "text"
ReadTypes ==
    /\ known \in Reads
    /\ poll # None => poll \in [fp : Fps, menu : Nat]
    /\ tab # None => tab \in Sheets
AskTypes ==
    /\ DOMAIN ask = Answers
    /\ \A a \in Answers : ask[a] # None => ask[a] \in Asked
RequestTypes ==
    /\ handler \in [req : Requests \cup {None}, step : {"idle"} \cup AnswerSteps \cup CommandSteps,
                    id : Reads, keys : Seq(AnswerKeys), row : Commands \cup {None}]
    /\ handler.req = None <=> handler.step = "idle"
    /\ handler.req \in Answers <=> handler.step \in AnswerSteps
    /\ handler.req \in Answers => ask[handler.req] \in Asked
    /\ handler.step = "keys" => handler.keys # <<>>
RowTypes ==
    /\ rows \in [Commands -> {"none", "running", "waiting", "completed", "failed"}]
    /\ ran \in [Commands -> Nat]

TuiTypes == ScreenTypes /\ InputTypes /\ ReadTypes /\ AskTypes /\ RequestTypes /\ RowTypes

(* An empty screen is no menu, and nothing read yet is a reading. *)
LEMMA NothingIsRead == NoMenu.menu = 0 /\ NothingRead \in Reads /\ NoFp \in Fps
<1>1. NumOptions \in Nat \ {0}
  BY TuiBoundsAssumption
<1> QED BY <1>1 DEF NoMenu, NothingRead, NoFp, Reads, Fps, Readings

(* No request is a request of nobody. *)
LEMMA NobodyAsks ==
    /\ NoRequest.req = None /\ NoRequest.step = "idle" /\ NoRequest.keys = <<>> /\ NoRequest.row = None
    /\ NoRequest.id = NothingRead
    /\ None \notin Requests
BY RequestsAreApart DEF NoRequest, Requests, Person

(* What is read off the screen is a reading. *)
LEMMA DetectedIsRead == ASSUME ScreenTypes PROVE Detected \in Fps /\ (screen.menu = 0 => Detected.live = None)
<1>1. NumOptions \in Nat \ {0}
  BY TuiBoundsAssumption
<1>2. CASE screen.menu = 0
  BY <1>2, NothingIsRead DEF Detected, NoFp
<1>3. CASE screen.menu # 0
  <2>1. screen \in [menu : Nat \ {0}, look : MenuLooks, sel : Options]
    BY <1>3, NothingIsRead DEF ScreenTypes, Screens
  <2>2. TitleOf(screen.look) \in Readings
    BY <2>1 DEF TitleOf, Readings, ScreenTypes
  <2>3. screen.sel \in 0..NumOptions
    BY <2>1, <1>1 DEF Options
  <2> QED BY <1>3, <2>1, <2>2, <2>3 DEF Detected, Fps
<1> QED BY <1>2, <1>3

(* A reading is kept while the screen looks the same, and gets the next    *)
(* generation when it does not.                                            *)
LEMMA SeenIsRead ==
    ASSUME known \in Reads, NEW fp \in Fps
    PROVE  /\ Seen(fp) \in Reads /\ Seen(fp).fp = fp
           /\ Seen(fp) = known \/ Seen(fp).gen = known.gen + 1
BY DEF Seen, Reads

(* The selection stays on an option, and moves by one but at the ends. *)
LEMMA NextOption ==
    ASSUME NEW s \in Options
    PROVE  /\ (s % NumOptions) + 1 \in Options
           /\ s < NumOptions => (s % NumOptions) + 1 = s + 1
           /\ (IF s = 1 THEN NumOptions ELSE s - 1) \in Options
<1>1. NumOptions \in Nat \ {0} /\ s \in 1..NumOptions
  BY TuiBoundsAssumption DEF Options
<1>2. s % NumOptions \in 0..(NumOptions - 1)
  BY <1>1
<1>3. s < NumOptions => s % NumOptions = s
  BY <1>1
<1> QED BY <1>1, <1>2, <1>3 DEF Options

(* An answer presses some of the four keys of a menu, and at least one. *)
LEMMA KeysForMenus ==
    ASSUME NEW what \in Whats, NEW id \in Reads, NEW fp \in Fps
    PROVE  KeysFor(what, id, fp) \in Seq(AnswerKeys) \ {<<>>}
<1>1. NumOptions \in Nat \ {0}
  BY TuiBoundsAssumption
<1>2. CASE what.do \in {"previous", "next", "choose", "cancel"}
  BY <1>2 DEF KeysFor, AnswerKeys
<1>3. CASE what.do = "pick"
  <2> DEFINE t == Place(id.fp, what.opt)
             s == Selected(fp)
  <2>1. what.opt \in Nat
    BY <1>3, <1>1, ActionsAssumption DEF Whats, Options
  <2>2. t \in Nat /\ s \in Nat
    BY <2>1, <1>1 DEF Place, Selected, Fps
  <2>3. KeysFor(what, id, fp) = Append(IF t >= s THEN Repeat("Down", t - s) ELSE Repeat("Up", s - t), "Enter")
    BY <1>3 DEF KeysFor
  <2> HIDE DEF t, s
  <2>4. CASE t >= s
    <3>1. Repeat("Down", t - s) \in Seq(AnswerKeys)
      BY <2>2, <2>4 DEF Repeat, AnswerKeys
    <3> QED BY <3>1, <2>3, <2>4 DEF AnswerKeys
  <2>5. CASE ~(t >= s)
    <3>1. Repeat("Up", s - t) \in Seq(AnswerKeys)
      BY <2>2, <2>5 DEF Repeat, AnswerKeys
    <3> QED BY <3>1, <2>3, <2>5 DEF AnswerKeys
  <2> QED BY <2>4, <2>5
<1>4. what.do \in {"pick", "previous", "next", "choose", "cancel"}
  BY ActionsAssumption DEF Whats
<1> QED BY <1>2, <1>3, <1>4

(* What an opening menu shows. *)
LEMMA OpeningTypes ==
    ASSUME ScreenTypes, NEW look \in MenuLooks, Opening(look)
    PROVE  screen' \in Screens /\ menus' \in Nat /\ screen'.menu # 0
<1>1. 1 \in Options
  BY TuiBoundsAssumption DEF Options
<1> QED BY <1>1 DEF Opening, Opened, Screens, ScreenTypes

(* A key that a menu handles leaves a screen. *)
LEMMA MenuKeyTypes ==
    ASSUME ScreenTypes, screen.menu # 0, NEW k \in Inputs, MenuKey(k)
    PROVE  screen' \in Screens /\ menus' \in Nat
<1>1. screen \in [menu : Nat \ {0}, look : MenuLooks, sel : Options]
  BY NothingIsRead DEF ScreenTypes, Screens
<1>2. CASE k.key = "Down"
  BY <1>1, <1>2, NextOption DEF MenuKey, NothingOpens, ScreenTypes, Screens
<1>3. CASE k.key = "Up"
  BY <1>1, <1>3, NextOption DEF MenuKey, NothingOpens, ScreenTypes, Screens
<1>4. CASE k.key = "Escape"
  BY <1>4 DEF MenuKey, NothingOpens, ScreenTypes, Screens
<1>5. CASE k.key = "Enter"
  BY <1>5, OpeningTypes DEF MenuKey, NothingOpens, ScreenTypes, Screens
<1>6. CASE k.key = "text"
  BY <1>6 DEF MenuKey, NothingOpens, ScreenTypes, Screens
<1> QED BY <1>2, <1>3, <1>4, <1>5, <1>6 DEF Inputs, AnswerKeys

(* A key that the composer handles leaves a screen and counts no run that  *)
(* was not submitted.                                                      *)
LEMMA ComposerKeyTypes ==
    ASSUME ScreenTypes, RowTypes, NEW k \in Inputs, ComposerKey(k)
    PROVE  screen' \in Screens /\ menus' \in Nat /\ ran' \in [Commands -> Nat]
<1>1. CASE k.key = "Enter"
  <2>1. Submits
    BY <1>1 DEF ComposerKey
  <2>2. CASE \E c \in Commands : composer = {c}
    <3> DEFINE c == CHOOSE x \in Commands : composer = {x}
    <3>1. c \in Commands
      BY <2>2
    <3>2. ran' = [ran EXCEPT ![c] = @ + 1]
          /\ IF c \in Opens THEN \E look \in MenuLooks : Opening(look) ELSE NothingOpens /\ UNCHANGED screen
      BY <2>1, <2>2 DEF Submits
    <3> HIDE DEF c
    <3>3. ran' \in [Commands -> Nat]
      BY <3>1, <3>2 DEF RowTypes
    <3> QED BY <3>2, <3>3, OpeningTypes DEF NothingOpens, ScreenTypes
  <2>3. CASE ~\E c \in Commands : composer = {c}
    BY <2>1, <2>3 DEF Submits, NothingOpens, ScreenTypes, RowTypes
  <2> QED BY <2>2, <2>3
<1>2. CASE k.key # "Enter"
  BY <1>2 DEF ComposerKey, NothingOpens, ScreenTypes, RowTypes, Inputs, AnswerKeys
<1> QED BY <1>1, <1>2

(* The screen keeps its type, and only its own keys, Codex and commands    *)
(* change it.                                                              *)
LEMMA ScreenStep == TuiTypes /\ [TuiNext]_tuiVars => ScreenTypes' /\ ran' \in [Commands -> Nat]
<1> SUFFICES ASSUME TuiTypes, [TuiNext]_tuiVars PROVE ScreenTypes' /\ ran' \in [Commands -> Nat]
  OBVIOUS
<1> USE DEF TuiTypes
<1>1. CASE HandlesInMenu
  <2>1. Head(pty) \in Inputs
    BY <1>1 DEF HandlesInMenu, InputTypes
  <2> QED BY <1>1, <2>1, MenuKeyTypes DEF HandlesInMenu, ScreenTypes, RowTypes
<1>2. CASE HandlesInComposer
  <2>1. Head(pty) \in Inputs
    BY <1>2 DEF HandlesInComposer, InputTypes
  <2> QED BY <1>2, <2>1, ComposerKeyTypes DEF HandlesInComposer, ScreenTypes
<1>3. ASSUME NEW look \in MenuLooks, CodexAsks(look) PROVE ScreenTypes' /\ ran' \in [Commands -> Nat]
  BY <1>3, OpeningTypes DEF CodexAsks, ScreenTypes, RowTypes
<1>4. CASE UNCHANGED <<quoted, screen, menus, ran>>
  BY <1>4 DEF ScreenTypes, RowTypes
<1>5. CASE Polls \/ PollIsLate \/ PollEnds \/ ShellHandles \/ TurnEnds \/ OwnerStartsAgain
  BY <1>4, <1>5 DEF Polls, PollIsLate, PollEnds, ShellHandles, TurnEnds, OwnerStartsAgain, terminal, history, counts
<1>6. ASSUME NEW a \in Answers, Respond(a) \/ ReadsDetected(a) \/ Presses(a) \/ SeesChange(a) \/ SeesNoChange(a)
      PROVE  UNCHANGED <<quoted, screen, menus, ran>>
  BY <1>6 DEF Respond, ReadsDetected, Presses, SeesChange, SeesNoChange, terminal, history, counts
<1>7. ASSUME NEW c \in Commands, Begin(c) \/ Types(c) \/ SeesCommand(c) \/ NotPlaced(c) \/ PressesEnter(c)
                                 \/ Completes(c) \/ Ambiguous(c)
      PROVE  UNCHANGED <<quoted, screen, menus, ran>>
  BY <1>7 DEF Begin, Types, SeesCommand, NotPlaced, PressesEnter, Completes, Ambiguous, Fails, terminal, history, counts
<1>8. ASSUME NEW key \in {"Down", "Enter", "text"}, PersonActs(key)
      PROVE  UNCHANGED <<quoted, screen, menus, ran>>
  BY <1>8 DEF PersonActs
<1>9. CASE UNCHANGED tuiVars
  BY <1>4, <1>9 DEF tuiVars, terminal, history, counts
<1> QED BY <1>1, <1>2, <1>3, <1>4, <1>5, <1>6, <1>7, <1>8, <1>9 DEF TuiNext

(* What happens to the keys that are under way. *)
LEMMA InputSteps ==
    ASSUME [TuiNext]_tuiVars
    PROVE  \/ pty' = pty
           \/ pty # <<>> /\ pty' = Tail(pty)
           \/ \E a \in Answers : Presses(a)
           \/ \E c \in Commands : Types(c) \/ PressesEnter(c)
           \/ \E key \in {"Down", "Enter", "text"} : PersonActs(key)
<1>1. CASE Polls \/ PollIsLate \/ PollEnds \/ TurnEnds \/ OwnerStartsAgain
  BY <1>1 DEF Polls, PollIsLate, PollEnds, TurnEnds, OwnerStartsAgain, terminal
<1>2. ASSUME NEW a \in Answers, Respond(a) \/ ReadsDetected(a) \/ SeesChange(a) \/ SeesNoChange(a)
      PROVE  pty' = pty
  BY <1>2 DEF Respond, ReadsDetected, SeesChange, SeesNoChange, terminal
<1>3. ASSUME NEW c \in Commands, Begin(c) \/ SeesCommand(c) \/ NotPlaced(c) \/ Completes(c) \/ Ambiguous(c)
      PROVE  pty' = pty
  BY <1>3 DEF Begin, SeesCommand, NotPlaced, Completes, Ambiguous, Fails, terminal
<1>4. CASE HandlesInMenu \/ HandlesInComposer \/ ShellHandles
  BY <1>4 DEF HandlesInMenu, HandlesInComposer, ShellHandles
<1>5. ASSUME NEW look \in MenuLooks, CodexAsks(look) PROVE pty' = pty
  BY <1>5 DEF CodexAsks
<1>6. CASE UNCHANGED tuiVars
  BY <1>6 DEF tuiVars, terminal
<1> QED BY <1>1, <1>2, <1>3, <1>4, <1>5, <1>6 DEF TuiNext

(* A key at the end of the others. *)
LEMMA LastInput ==
    ASSUME NEW e \in Inputs, pty \in Seq(Inputs), pty' = Append(pty, e)
    PROVE  /\ Len(pty) \in Nat /\ DOMAIN pty = 1..Len(pty)
           /\ pty' \in Seq(Inputs) /\ Len(pty') = Len(pty) + 1 /\ DOMAIN pty' = 1..(Len(pty) + 1)
           /\ \A i \in 1..Len(pty) : pty'[i] = pty[i]
           /\ pty'[Len(pty) + 1] = e
OBVIOUS

(* Without the first key. *)
LEMMA FirstInput ==
    ASSUME pty \in Seq(Inputs), pty # <<>>, pty' = Tail(pty)
    PROVE  /\ Len(pty) \in Nat \ {0} /\ DOMAIN pty = 1..Len(pty)
           /\ pty' \in Seq(Inputs) /\ Len(pty') = Len(pty) - 1 /\ DOMAIN pty' = 1..(Len(pty) - 1)
           /\ \A i \in 1..(Len(pty) - 1) : pty'[i] = pty[i + 1]
           /\ Head(pty) = pty[1] /\ pty[1] \in Inputs
OBVIOUS

(* What an answer presses is a key of a menu, and the rest is left. *)
LEMMA PressedKey ==
    ASSUME TuiTypes, NEW a \in Answers, Presses(a)
    PROVE  /\ Len(handler.keys) \in Nat \ {0}
           /\ Head(handler.keys) = handler.keys[1] /\ handler.keys[1] \in AnswerKeys
           /\ Tail(handler.keys) \in Seq(AnswerKeys)
           /\ Len(Tail(handler.keys)) = Len(handler.keys) - 1
           /\ \A i \in 1..(Len(handler.keys) - 1) : Tail(handler.keys)[i] = handler.keys[i + 1]
           /\ [key |-> Head(handler.keys), by |-> a] \in Inputs
<1>1. handler.keys \in Seq(AnswerKeys) /\ handler.keys # <<>>
  BY DEF Presses, TuiTypes, RequestTypes
<1> QED BY <1>1 DEF Inputs, Requests

(* The keys under way keep their type. *)
LEMMA InputStep == TuiTypes /\ [TuiNext]_tuiVars => InputTypes'
<1> SUFFICES ASSUME TuiTypes, [TuiNext]_tuiVars PROVE InputTypes'
  OBVIOUS
<1>1. pty \in Seq(Inputs) /\ \A i \in DOMAIN pty : pty[i].by \in Answers => pty[i].key # "text"
  BY DEF TuiTypes, InputTypes
<1>2. ASSUME NEW e \in Inputs, pty' = Append(pty, e), e.by \in Answers => e.key # "text"
      PROVE  InputTypes'
  BY <1>1, <1>2, LastInput DEF InputTypes
<1>3. CASE pty' = pty
  BY <1>1, <1>3 DEF InputTypes
<1>4. CASE pty # <<>> /\ pty' = Tail(pty)
  BY <1>1, <1>4, FirstInput DEF InputTypes
<1>5. ASSUME NEW a \in Answers, Presses(a) PROVE InputTypes'
  BY <1>2, <1>5, PressedKey DEF Presses, AnswerKeys
<1>6. ASSUME NEW c \in Commands, Types(c) \/ PressesEnter(c) PROVE InputTypes'
  <2>1. c \notin Answers
    BY RequestsAreApart
  <2>2. \E e \in Inputs : pty' = Append(pty, e) /\ e.by = c
    BY <1>6 DEF Types, PressesEnter, Inputs, Requests, AnswerKeys
  <2> QED BY <1>2, <2>1, <2>2
<1>7. ASSUME NEW key \in {"Down", "Enter", "text"}, PersonActs(key) PROVE InputTypes'
  <2>1. Person \notin Answers
    BY RequestsAreApart DEF Person
  <2>2. [key |-> key, by |-> Person] \in Inputs
    BY DEF Inputs, AnswerKeys
  <2> QED BY <1>2, <1>7, <2>1, <2>2 DEF PersonActs
<1> QED BY <1>3, <1>4, <1>5, <1>6, <1>7, InputSteps

(* What happens to what is read off the screen: nothing; a poll is late;   *)
(* the screen or a late poll is read; or the Owner starts again.           *)
LEMMA ReadSteps ==
    ASSUME TuiTypes, [TuiNext]_tuiVars
    PROVE  \/ known' = known /\ tab' = tab /\ poll' = poll
           \/ PollIsLate
           \/ PollEnds
           \/ /\ known' = Seen(Detected) /\ poll' = poll
              /\ tab' = tab \/ tab' = [id |-> known', menu |-> screen.menu]
              /\ UNCHANGED <<screen, unseen, restarted>>
           \/ OwnerStartsAgain
<1>1. CASE Polls
  BY <1>1 DEF Polls, Shows, Id, terminal, history
<1>2. CASE ShellHandles \/ TurnEnds \/ HandlesInMenu \/ HandlesInComposer
  BY <1>2 DEF ShellHandles, TurnEnds, HandlesInMenu, HandlesInComposer
<1>3. ASSUME NEW a \in Answers, Respond(a) \/ ReadsDetected(a) \/ Presses(a) \/ SeesChange(a) \/ SeesNoChange(a)
      PROVE  \/ known' = known /\ tab' = tab /\ poll' = poll
             \/ /\ known' = Seen(Detected) /\ poll' = poll
                /\ tab' = tab \/ tab' = [id |-> known', menu |-> screen.menu]
                /\ UNCHANGED <<screen, unseen, restarted>>
  <2>1. CASE Respond(a)
    BY <2>1 DEF Respond, terminal
  <2>2. CASE SeesChange(a)
    BY <2>2 DEF SeesChange, Shows, Id, terminal, history
  <2>3. CASE SeesNoChange(a)
    BY <2>3 DEF SeesNoChange, terminal, history
  <2>4. CASE ReadsDetected(a) \/ Presses(a)
    BY <2>4 DEF ReadsDetected, Presses
  <2> QED BY <1>3, <2>1, <2>2, <2>3, <2>4
<1>4. ASSUME NEW c \in Commands, Begin(c) \/ Types(c) \/ SeesCommand(c) \/ NotPlaced(c) \/ PressesEnter(c)
                                 \/ Completes(c) \/ Ambiguous(c)
      PROVE  \/ known' = known /\ tab' = tab /\ poll' = poll
             \/ /\ known' = Seen(Detected) /\ poll' = poll
                /\ tab' = tab \/ tab' = [id |-> known', menu |-> screen.menu]
                /\ UNCHANGED <<screen, unseen, restarted>>
  <2>1. CASE Begin(c)
    BY <2>1 DEF Begin, terminal, history
  <2>2. CASE Completes(c)
    BY <2>2 DEF Completes, Shows, Id, terminal, history
  <2>3. CASE Ambiguous(c)
    BY <2>3 DEF Ambiguous, Fails, terminal, history
  <2>4. CASE Types(c) \/ SeesCommand(c) \/ NotPlaced(c) \/ PressesEnter(c)
    BY <2>4 DEF Types, SeesCommand, NotPlaced, PressesEnter, Fails
  <2> QED BY <1>4, <2>1, <2>2, <2>3, <2>4
<1>5. ASSUME NEW look \in MenuLooks, CodexAsks(look) PROVE known' = known /\ tab' = tab /\ poll' = poll
  BY <1>5 DEF CodexAsks
<1>6. ASSUME NEW key \in {"Down", "Enter", "text"}, PersonActs(key) PROVE known' = known /\ tab' = tab /\ poll' = poll
  BY <1>6 DEF PersonActs
<1>7. CASE UNCHANGED tuiVars
  BY <1>7 DEF tuiVars
<1> QED BY <1>1, <1>2, <1>3, <1>4, <1>5, <1>6, <1>7 DEF TuiNext

(* Readings keep their type. *)
LEMMA ReadStep == TuiTypes /\ [TuiNext]_tuiVars => ReadTypes'
<1> SUFFICES ASSUME TuiTypes, [TuiNext]_tuiVars PROVE ReadTypes'
  OBVIOUS
<1>1. known \in Reads /\ Detected \in Fps /\ screen.menu \in Nat
  BY DetectedIsRead DEF TuiTypes, ReadTypes, ScreenTypes, Screens, NoMenu
<1>2. CASE known' = known /\ tab' = tab /\ poll' = poll
  BY <1>2 DEF TuiTypes, ReadTypes
<1>3. CASE PollIsLate
  BY <1>1, <1>3 DEF PollIsLate, TuiTypes, ReadTypes
<1>4. CASE PollEnds
  <2>1. poll.fp \in Fps /\ poll.menu \in Nat
    BY <1>4 DEF PollEnds, TuiTypes, ReadTypes
  <2>2. known' \in Reads
    BY <1>1, <1>4, <2>1, SeenIsRead DEF PollEnds
  <2>3. tab' = tab \/ tab' \in Sheets
    BY <1>4, <2>1, <2>2 DEF PollEnds, Shows, Id, Sheets
  <2> QED BY <1>4, <2>2, <2>3 DEF PollEnds, TuiTypes, ReadTypes
<1>5. CASE /\ known' = Seen(Detected) /\ poll' = poll
           /\ tab' = tab \/ tab' = [id |-> known', menu |-> screen.menu]
  <2>1. known' \in Reads
    BY <1>1, <1>5, SeenIsRead
  <2> QED BY <1>1, <1>5, <2>1 DEF TuiTypes, ReadTypes, Sheets
<1>6. CASE OwnerStartsAgain
  BY <1>6, NothingIsRead DEF OwnerStartsAgain, TuiTypes, ReadTypes
<1> QED BY <1>2, <1>3, <1>4, <1>5, <1>6, ReadSteps

(* An answer that is let in is to a sheet the browser shows, or the one it *)
(* was to before, and the sheet is what the screen shows.                  *)
LetIn(a, q) ==
    /\ \/ tab # None /\ q.sheet = tab
       \/ ask[a] # None /\ q = ask[a]
    /\ Pending(known') /\ q.sheet.id = known'
    /\ ask' = [ask EXCEPT ![a] = q]
    /\ handler' = [NoRequest EXCEPT !.req = a, !.step = "look", !.id = q.sheet.id]
    /\ touched' = IF pty = <<>> THEN touched ELSE touched \cup {a}

(* A response is let in, or changes nothing but what was read. *)
LEMMA RespondSteps ==
    ASSUME TuiTypes, NEW a \in Answers, Respond(a)
    PROVE  \/ UNCHANGED <<ask, handler, touched>>
           \/ \E q \in Asked : LetIn(a, q)
<1>1. PICK q \in IF ask[a] = None /\ tab # None THEN [sheet : {tab}, what : Whats] ELSE {ask[a]} \ {None} :
         IF Pending(known') /\ Current(known', q.sheet)
         THEN /\ handler' = [NoRequest EXCEPT !.req = a, !.step = "look", !.id = q.sheet.id]
              /\ ask' = [ask EXCEPT ![a] = q]
              /\ requests' = requests + 1
              /\ touched' = IF pty = <<>> THEN touched ELSE touched \cup {a}
         ELSE UNCHANGED <<ask, handler, touched, requests>>
  BY DEF Respond
<1>2. CASE ask[a] = None /\ tab # None
  <2>1. tab \in Sheets
    BY <1>2 DEF TuiTypes, ReadTypes
  <2>2. q \in Asked /\ q.sheet = tab
    BY <1>1, <1>2, <2>1 DEF Asked
  <2> QED BY <1>1, <1>2, <2>2 DEF LetIn, Current, Id
<1>3. CASE ~(ask[a] = None /\ tab # None)
  <2>1. q = ask[a] /\ ask[a] # None
    BY <1>1, <1>3
  <2>2. q \in Asked
    BY <2>1 DEF TuiTypes, AskTypes
  <2> QED BY <1>1, <2>1, <2>2 DEF LetIn, Current, Id
<1> QED BY <1>2, <1>3

(* Only an answer that is let in is remembered. *)
LEMMA AskSteps ==
    ASSUME TuiTypes, [TuiNext]_tuiVars
    PROVE  \/ ask' = ask
           \/ \E a \in Answers : Respond(a) /\ \E q \in Asked : LetIn(a, q)
<1>1. CASE Polls \/ PollIsLate \/ PollEnds \/ ShellHandles \/ TurnEnds \/ OwnerStartsAgain \/ HandlesInMenu \/ HandlesInComposer
  BY <1>1 DEF Polls, PollIsLate, PollEnds, ShellHandles, TurnEnds, OwnerStartsAgain, HandlesInMenu, HandlesInComposer
<1>2. ASSUME NEW a \in Answers, ReadsDetected(a) \/ Presses(a) \/ SeesChange(a) \/ SeesNoChange(a)
      PROVE  ask' = ask
  BY <1>2 DEF ReadsDetected, Presses, SeesChange, SeesNoChange
<1>3. ASSUME NEW c \in Commands, Begin(c) \/ Types(c) \/ SeesCommand(c) \/ NotPlaced(c) \/ PressesEnter(c)
                                 \/ Completes(c) \/ Ambiguous(c)
      PROVE  ask' = ask
  BY <1>3 DEF Begin, Types, SeesCommand, NotPlaced, PressesEnter, Completes, Ambiguous, Fails
<1>4. ASSUME NEW look \in MenuLooks, CodexAsks(look) PROVE ask' = ask
  BY <1>4 DEF CodexAsks
<1>5. ASSUME NEW key \in {"Down", "Enter", "text"}, PersonActs(key) PROVE ask' = ask
  BY <1>5 DEF PersonActs
<1>6. ASSUME NEW a \in Answers, Respond(a)
      PROVE  ask' = ask \/ \E q \in Asked : LetIn(a, q)
  BY <1>6, RespondSteps
<1>7. CASE UNCHANGED tuiVars
  BY <1>7 DEF tuiVars
<1> QED BY <1>1, <1>2, <1>3, <1>4, <1>5, <1>6, <1>7 DEF TuiNext

(* Answers keep their type, and none is forgotten. *)
LEMMA AskStep ==
    ASSUME TuiTypes, [TuiNext]_tuiVars
    PROVE  AskTypes' /\ \A a \in Answers : ask[a] \in Asked => ask'[a] \in Asked
<1>1. CASE ask' = ask
  BY <1>1 DEF TuiTypes, AskTypes
<1>2. ASSUME NEW a \in Answers, NEW q \in Asked, LetIn(a, q)
      PROVE  AskTypes' /\ \A b \in Answers : ask[b] \in Asked => ask'[b] \in Asked
  BY <1>2 DEF LetIn, TuiTypes, AskTypes
<1> QED BY <1>1, <1>2, AskSteps

(* The request that has the session lock keeps its type. *)
LEMMA RequestStep == TuiTypes /\ [TuiNext]_tuiVars => RequestTypes'
<1> SUFFICES ASSUME TuiTypes, [TuiNext]_tuiVars PROVE RequestTypes'
  OBVIOUS
<1>1. /\ RequestTypes /\ known \in Reads /\ DOMAIN ask = Answers
      /\ \A a \in Answers : ask[a] \in Asked => ask'[a] \in Asked
  BY AskStep DEF TuiTypes, ReadTypes, AskTypes
<1>2. CASE UNCHANGED <<handler, ask>>
  BY <1>1, <1>2 DEF RequestTypes
<1>3. CASE handler' = NoRequest
  BY <1>1, <1>3, NobodyAsks, NothingIsRead DEF RequestTypes, NoRequest, Requests, AnswerSteps
<1>4. CASE Polls \/ PollIsLate \/ PollEnds \/ ShellHandles \/ TurnEnds \/ HandlesInMenu \/ HandlesInComposer
  BY <1>2, <1>4 DEF Polls, PollIsLate, PollEnds, ShellHandles, TurnEnds, HandlesInMenu, HandlesInComposer
<1>5. CASE OwnerStartsAgain
  BY <1>3, <1>5 DEF OwnerStartsAgain
<1>6. ASSUME NEW a \in Answers, Respond(a) PROVE RequestTypes'
  <2>1. CASE UNCHANGED <<ask, handler, touched>>
    BY <1>2, <2>1
  <2>2. ASSUME NEW q \in Asked, LetIn(a, q) PROVE RequestTypes'
    <3>1. ask'[a] \in Asked /\ q.sheet.id \in Reads
      BY <1>1, <2>2 DEF LetIn, Asked, Sheets
    <3>2. handler' = [req |-> a, step |-> "look", id |-> q.sheet.id, keys |-> <<>>, row |-> None]
      BY <2>2 DEF LetIn, NoRequest
    <3> QED BY <3>1, <3>2, NobodyAsks DEF RequestTypes, Requests, AnswerSteps
  <2> QED BY <1>6, <2>1, <2>2, RespondSteps
<1>7. ASSUME NEW a \in Answers, ReadsDetected(a) PROVE RequestTypes'
  <2>1. CASE handler' = NoRequest
    BY <1>3, <2>1
  <2>2. CASE handler' = [handler EXCEPT !.step = "keys", !.row = RowOf(handler.id),
                                        !.keys = KeysFor(ask[a].what, handler.id, known.fp)]
    <3>1. ask[a].what \in Whats /\ known.fp \in Fps /\ handler.id \in Reads
      BY <1>1, <1>7 DEF ReadsDetected, RequestTypes, Asked, Reads
    <3>2. KeysFor(ask[a].what, handler.id, known.fp) \in Seq(AnswerKeys) \ {<<>>}
      BY <3>1, KeysForMenus
    <3>3. RowOf(handler.id) \in Commands \cup {None}
      BY DEF RowOf
    <3>4. UNCHANGED ask /\ handler.req = a
      BY <1>7 DEF ReadsDetected
    <3> QED BY <1>1, <2>2, <3>2, <3>3, <3>4, NobodyAsks DEF RequestTypes, Requests, AnswerSteps
  <2> QED BY <1>7, <2>1, <2>2 DEF ReadsDetected
<1>8. ASSUME NEW a \in Answers, Presses(a) PROVE RequestTypes'
  <2>1. /\ Tail(handler.keys) \in Seq(AnswerKeys) /\ Len(Tail(handler.keys)) = Len(handler.keys) - 1
        /\ Len(handler.keys) \in Nat \ {0}
    BY <1>8, PressedKey
  <2> DEFINE t == Tail(handler.keys)
  <2>2. handler' = [handler EXCEPT !.keys = t, !.step = IF Len(handler.keys) = 1 THEN "wait" ELSE "keys"]
        /\ UNCHANGED ask /\ handler.req = a
    BY <1>8 DEF Presses
  <2> HIDE DEF t
  <2>3. t \in Seq(AnswerKeys) /\ (Len(handler.keys) # 1 => Len(t) # 0)
    BY <2>1 DEF t
  <2>4. Len(handler.keys) # 1 => t # <<>>
    BY <2>3
  <2> QED BY <1>1, <2>2, <2>3, <2>4, NobodyAsks DEF RequestTypes, Requests, AnswerSteps
<1>9. ASSUME NEW a \in Answers, SeesChange(a) \/ SeesNoChange(a) PROVE RequestTypes'
  BY <1>3, <1>9 DEF SeesChange, SeesNoChange
<1>10. ASSUME NEW c \in Commands, Begin(c) PROVE RequestTypes'
  <2>1. \/ handler' = [req |-> c, step |-> "type", id |-> NothingRead, keys |-> <<>>, row |-> None] /\ ask' = ask
        \/ UNCHANGED <<handler, ask>>
    BY <1>10 DEF Begin, NoRequest
  <2>2. c \notin Answers /\ c # None
    BY RequestsAreApart
  <2>3. CASE handler' = [req |-> c, step |-> "type", id |-> NothingRead, keys |-> <<>>, row |-> None] /\ ask' = ask
    BY <2>2, <2>3, NothingIsRead DEF RequestTypes, Requests, AnswerSteps, CommandSteps
  <2> QED BY <1>2, <2>1, <2>3
<1>11. ASSUME NEW c \in Commands, Types(c) \/ SeesCommand(c) \/ PressesEnter(c) PROVE RequestTypes'
  <2>1. handler.req = c /\ UNCHANGED ask
        /\ \E step \in CommandSteps : handler' = [handler EXCEPT !.step = step]
    BY <1>11 DEF Types, SeesCommand, PressesEnter, CommandSteps
  <2> QED BY <1>1, <2>1, NobodyAsks, RequestsAreApart DEF RequestTypes, Requests, AnswerSteps, CommandSteps
<1>12. ASSUME NEW c \in Commands, NotPlaced(c) \/ Completes(c) \/ Ambiguous(c) PROVE RequestTypes'
  BY <1>3, <1>12 DEF NotPlaced, Completes, Ambiguous, Fails
<1>13. ASSUME NEW look \in MenuLooks, CodexAsks(look) PROVE RequestTypes'
  BY <1>2, <1>13 DEF CodexAsks
<1>14. ASSUME NEW key \in {"Down", "Enter", "text"}, PersonActs(key) PROVE RequestTypes'
  BY <1>2, <1>14 DEF PersonActs
<1>15. CASE UNCHANGED tuiVars
  BY <1>2, <1>15 DEF tuiVars
<1> QED BY <1>4, <1>5, <1>6, <1>7, <1>8, <1>9, <1>10, <1>11, <1>12, <1>13, <1>14, <1>15 DEF TuiNext

(* Rows keep their type, and a row that is there stays. *)
LEMMA RowStep ==
    ASSUME TuiTypes, [TuiNext]_tuiVars
    PROVE  /\ rows' \in [Commands -> {"none", "running", "waiting", "completed", "failed"}]
           /\ \A c \in Commands : rows[c] # "none" => rows'[c] # "none"
<1> DEFINE Statuses == {"none", "running", "waiting", "completed", "failed"}
           Kept == rows' \in [Commands -> Statuses] /\ \A c \in Commands : rows[c] # "none" => rows'[c] # "none"
<1>1. rows \in [Commands -> Statuses] /\ handler.row \in Commands \cup {None}
  BY DEF TuiTypes, RowTypes, RequestTypes
<1>2. ASSUME rows' = rows PROVE Kept
  BY <1>1, <1>2
<1>3. ASSUME NEW c \in Commands, NEW s \in Statuses \ {"none"}, rows' = [rows EXCEPT ![c] = s] PROVE Kept
  BY <1>1, <1>3
<1>4. ASSUME NEW row \in Commands \cup {None}, NEW k, Settles(row, k) PROVE Kept
  BY <1>2, <1>3, <1>4 DEF Settles
<1> SUFFICES Kept
  BY DEF Kept
<1> HIDE DEF Kept
<1>5. CASE Polls \/ PollIsLate \/ PollEnds \/ ShellHandles \/ TurnEnds \/ HandlesInMenu \/ HandlesInComposer
  BY <1>2, <1>5 DEF Polls, PollIsLate, PollEnds, ShellHandles, TurnEnds, HandlesInMenu, HandlesInComposer, store
<1>6. CASE OwnerStartsAgain
  BY <1>1, <1>6 DEF OwnerStartsAgain, Kept
<1>7. ASSUME NEW a \in Answers, Respond(a) \/ ReadsDetected(a) \/ Presses(a) \/ SeesChange(a) \/ SeesNoChange(a) PROVE Kept
  BY <1>1, <1>2, <1>4, <1>7 DEF Respond, ReadsDetected, Presses, SeesChange, SeesNoChange, store
<1>8. ASSUME NEW c \in Commands, Begin(c) PROVE Kept
  BY <1>2, <1>3, <1>8 DEF Begin
<1>9. ASSUME NEW c \in Commands, NotPlaced(c) \/ Ambiguous(c) PROVE Kept
  BY <1>2, <1>3, <1>9 DEF NotPlaced, Ambiguous, Fails
<1>10. ASSUME NEW c \in Commands, Completes(c) PROVE Kept
  BY <1>2, <1>4, <1>10 DEF Completes
<1>11. ASSUME NEW c \in Commands, Types(c) \/ SeesCommand(c) \/ PressesEnter(c) PROVE Kept
  BY <1>2, <1>11 DEF Types, SeesCommand, PressesEnter, store
<1>12. ASSUME NEW look \in MenuLooks, CodexAsks(look) PROVE Kept
  BY <1>2, <1>12 DEF CodexAsks, store
<1>13. ASSUME NEW key \in {"Down", "Enter", "text"}, PersonActs(key) PROVE Kept
  BY <1>2, <1>13 DEF PersonActs, store
<1>14. CASE UNCHANGED tuiVars
  BY <1>2, <1>14 DEF tuiVars, store
<1> QED BY <1>5, <1>6, <1>7, <1>8, <1>9, <1>10, <1>11, <1>12, <1>13, <1>14 DEF TuiNext

(* Every step keeps the types. *)
LEMMA TuiTypeStep == TuiTypes /\ [TuiNext]_tuiVars => TuiTypes'
BY ScreenStep, InputStep, ReadStep, AskStep, RequestStep, RowStep DEF TuiTypes, RowTypes

(* Every variable keeps its type. *)
THEOREM TuiTypeCorrect == TuiSpec => []TuiTypes
<1>1. TuiInit => TuiTypes
  <2> SUFFICES ASSUME TuiInit PROVE TuiTypes
    OBVIOUS
  <2>1. ScreenTypes /\ InputTypes
    BY DEF TuiInit, ScreenTypes, Screens, InputTypes
  <2>2. ReadTypes /\ AskTypes
    BY NothingIsRead DEF TuiInit, ReadTypes, AskTypes
  <2>3. RequestTypes
    BY NobodyAsks, NothingIsRead DEF TuiInit, RequestTypes, NoRequest, Requests, AnswerSteps
  <2>4. RowTypes
    BY DEF TuiInit, RowTypes
  <2> QED BY <2>1, <2>2, <2>3, <2>4 DEF TuiTypes
<1> QED BY <1>1, TuiTypeStep, PTL DEF TuiSpec

-----------------------------------------------------------------------------
(* A command with a row runs once: its text is written once.               *)

IsText(i, c) == pty[i] = [key |-> "text", by |-> c]
Written(c) == \E i \in DOMAIN pty : IsText(i, c)
WrittenOnce(c) == \A i, j \in DOMAIN pty : IsText(i, c) /\ IsText(j, c) => i = j
Unwritten(c) == ran[c] = 0 /\ c \notin composer /\ ~Written(c)

(* The text of a command is under way, in the composer or has run; it is   *)
(* none of these until the command has a row, and while it is to be typed. *)
TextIsOnce(c) ==
    /\ ran[c] <= 1
    /\ c \in composer => ran[c] = 0
    /\ Written(c) => ran[c] = 0 /\ c \notin composer
    /\ WrittenOnce(c)
    /\ handler.req = c /\ handler.step = "type" => Unwritten(c) /\ rows[c] # "none"
    /\ rows[c] = "none" => Unwritten(c)

TextsAreOnce == \A c \in Durable : TextIsOnce(c)

(* The composer and the runs change by keys of the composer alone. *)
LEMMA ComposerSteps ==
    ASSUME [TuiNext]_tuiVars
    PROVE  UNCHANGED <<composer, ran>> \/ HandlesInComposer
<1>1. CASE Polls \/ PollIsLate \/ PollEnds \/ ShellHandles \/ TurnEnds \/ HandlesInMenu \/ OwnerStartsAgain
  BY <1>1 DEF Polls, PollIsLate, PollEnds, ShellHandles, TurnEnds, HandlesInMenu, OwnerStartsAgain, terminal, history
<1>2. ASSUME NEW a \in Answers, Respond(a) \/ ReadsDetected(a) \/ Presses(a) \/ SeesChange(a) \/ SeesNoChange(a)
      PROVE  UNCHANGED <<composer, ran>>
  BY <1>2 DEF Respond, ReadsDetected, Presses, SeesChange, SeesNoChange, terminal, history
<1>3. ASSUME NEW c \in Commands, Begin(c) \/ Types(c) \/ SeesCommand(c) \/ NotPlaced(c) \/ PressesEnter(c)
                                 \/ Completes(c) \/ Ambiguous(c)
      PROVE  UNCHANGED <<composer, ran>>
  BY <1>3 DEF Begin, Types, SeesCommand, NotPlaced, PressesEnter, Completes, Ambiguous, Fails, terminal, history
<1>4. ASSUME NEW look \in MenuLooks, CodexAsks(look) PROVE UNCHANGED <<composer, ran>>
  BY <1>4 DEF CodexAsks
<1>5. ASSUME NEW key \in {"Down", "Enter", "text"}, PersonActs(key) PROVE UNCHANGED <<composer, ran>>
  BY <1>5 DEF PersonActs
<1>6. CASE UNCHANGED tuiVars
  BY <1>6 DEF tuiVars, terminal, history
<1> QED BY <1>1, <1>2, <1>3, <1>4, <1>5, <1>6 DEF TuiNext

(* A command with a row is to be typed only when it begins, and then it    *)
(* had no row.                                                             *)
LEMMA TypingSteps ==
    ASSUME TuiTypes, [TuiNext]_tuiVars, NEW c \in Durable, handler'.req = c, handler'.step = "type"
    PROVE  \/ handler' = handler
           \/ rows[c] = "none" /\ rows'[c] # "none" /\ UNCHANGED <<pty, composer, ran>>
<1>1. c \in Commands /\ c \notin Answers /\ c # None
  BY CommandsAssumption, RequestsAreApart
<1>2. CASE Polls \/ PollIsLate \/ PollEnds \/ ShellHandles \/ TurnEnds \/ HandlesInMenu \/ HandlesInComposer
  BY <1>2 DEF Polls, PollIsLate, PollEnds, ShellHandles, TurnEnds, HandlesInMenu, HandlesInComposer
<1>3. CASE OwnerStartsAgain
  BY <1>1, <1>3, NobodyAsks DEF OwnerStartsAgain
<1>4. ASSUME NEW a \in Answers, Respond(a) PROVE handler' = handler
  BY <1>1, <1>4, RespondSteps DEF LetIn, NoRequest
<1>5. ASSUME NEW a \in Answers, ReadsDetected(a) \/ Presses(a) \/ SeesChange(a) \/ SeesNoChange(a)
      PROVE  FALSE
  <2>1. handler \in [req : Requests \cup {None}, step : {"idle"} \cup AnswerSteps \cup CommandSteps,
                     id : Reads, keys : Seq(AnswerKeys), row : Commands \cup {None}]
    BY DEF TuiTypes, RequestTypes
  <2> QED BY <1>1, <1>5, <2>1, NobodyAsks DEF ReadsDetected, Presses, SeesChange, SeesNoChange
<1>6. ASSUME NEW d \in Commands, Begin(d), handler' # handler
      PROVE  rows[c] = "none" /\ rows'[c] # "none" /\ UNCHANGED <<pty, composer, ran>>
  <2>1. handler' = [NoRequest EXCEPT !.req = d, !.step = "type"]
    BY <1>6 DEF Begin
  <2>2. d = c
    BY <2>1 DEF NoRequest
  <2> QED BY <1>1, <1>6, <2>2 DEF Begin, NotBegun, terminal, history, TuiTypes, RowTypes
<1>7. ASSUME NEW d \in Commands, Types(d) \/ SeesCommand(d) \/ NotPlaced(d) \/ PressesEnter(d)
                                 \/ Completes(d) \/ Ambiguous(d)
      PROVE  FALSE
  <2>1. handler \in [req : Requests \cup {None}, step : {"idle"} \cup AnswerSteps \cup CommandSteps,
                     id : Reads, keys : Seq(AnswerKeys), row : Commands \cup {None}]
    BY DEF TuiTypes, RequestTypes
  <2> QED BY <1>1, <1>7, <2>1, NobodyAsks DEF Types, SeesCommand, NotPlaced, PressesEnter, Completes, Ambiguous, Fails
<1>8. ASSUME NEW look \in MenuLooks, CodexAsks(look) PROVE handler' = handler
  BY <1>8 DEF CodexAsks
<1>9. ASSUME NEW key \in {"Down", "Enter", "text"}, PersonActs(key) PROVE handler' = handler
  BY <1>9 DEF PersonActs
<1>10. CASE UNCHANGED tuiVars
  BY <1>10 DEF tuiVars
<1> QED BY <1>2, <1>3, <1>4, <1>5, <1>6, <1>7, <1>8, <1>9, <1>10 DEF TuiNext

(* But for its typing, no step writes the text of a command. *)
LEMMA WritingSteps ==
    ASSUME TuiTypes, [TuiNext]_tuiVars, NEW c \in Commands
    PROVE  \/ Types(c)
           \/ (Written(c)' => Written(c)) /\ (WrittenOnce(c) => WrittenOnce(c)')
<1> DEFINE Goal == (Written(c)' => Written(c)) /\ (WrittenOnce(c) => WrittenOnce(c)')
<1>1. pty \in Seq(Inputs)
  BY DEF TuiTypes, InputTypes
<1>2. ASSUME pty' = pty PROVE Goal
  BY <1>2 DEF Written, WrittenOnce, IsText
<1>3. ASSUME pty # <<>>, pty' = Tail(pty) PROVE Goal
  <2>1. \A i \in DOMAIN pty' : i + 1 \in DOMAIN pty /\ pty'[i] = pty[i + 1] /\ i \in Nat
    BY <1>1, <1>3, FirstInput
  <2>2. Written(c)' => Written(c)
    BY <2>1 DEF Written, IsText
  <2>3. ASSUME WrittenOnce(c), NEW i \in DOMAIN pty', NEW j \in DOMAIN pty', IsText(i, c)', IsText(j, c)' PROVE i = j
    <3>1. IsText(i + 1, c) /\ IsText(j + 1, c)
      BY <2>1, <2>3 DEF IsText
    <3>2. i + 1 = j + 1
      BY <2>1, <2>3, <3>1 DEF WrittenOnce
    <3> QED BY <2>1, <3>2
  <2> QED BY <2>2, <2>3 DEF WrittenOnce
<1>4. ASSUME NEW e \in Inputs, pty' = Append(pty, e), e # [key |-> "text", by |-> c] PROVE Goal
  <2>1. \A i \in DOMAIN pty' : IsText(i, c)' => i \in DOMAIN pty /\ IsText(i, c)
    BY <1>1, <1>4, LastInput DEF IsText
  <2> QED BY <2>1 DEF Written, WrittenOnce
<1> HIDE DEF Goal
<1>5. ASSUME NEW a \in Answers, Presses(a) PROVE Goal
  <2>1. [key |-> Head(handler.keys), by |-> a] \in Inputs /\ a # c
    BY <1>5, PressedKey, RequestsAreApart
  <2> QED BY <1>4, <1>5, <2>1 DEF Presses
<1>6. ASSUME NEW d \in Commands, Types(d), ~Types(c) PROVE Goal
  <2>1. [key |-> "text", by |-> d] \in Inputs /\ d # c
    BY <1>6 DEF Inputs, Requests
  <2> QED BY <1>4, <1>6, <2>1 DEF Types
<1>7. ASSUME NEW d \in Commands, PressesEnter(d) PROVE Goal
  <2>1. [key |-> "Enter", by |-> d] \in Inputs
    BY DEF Inputs, Requests, AnswerKeys
  <2> QED BY <1>4, <1>7, <2>1 DEF PressesEnter
<1>8. ASSUME NEW key \in {"Down", "Enter", "text"}, PersonActs(key) PROVE Goal
  <2>1. [key |-> key, by |-> Person] \in Inputs /\ Person # c
    BY RequestsAreApart DEF Inputs, Requests, AnswerKeys, Person
  <2> QED BY <1>4, <1>8, <2>1 DEF PersonActs
<1>9. Types(c) \/ Goal
  BY <1>2, <1>3, <1>5, <1>6, <1>7, <1>8, InputSteps
<1> QED BY <1>9 DEF Goal

(* The composer takes the text of a command, or empties and runs what it   *)
(* holds alone.                                                            *)
LEMMA ComposerMoves ==
    ASSUME TuiTypes, HandlesInComposer, NEW c \in Commands
    PROVE  /\ UNCHANGED <<handler, rows>>
           /\ pty # <<>> /\ pty' = Tail(pty)
           /\ \/ ran'[c] = ran[c] /\ (c \in composer' => c \in composer)
              \/ composer = {c} /\ ran'[c] = ran[c] + 1 /\ composer' = {}
              \/ IsText(1, c) /\ ran'[c] = ran[c]
<1> DEFINE k == Head(pty)
<1>1. pty \in Seq(Inputs) /\ pty # <<>> /\ pty' = Tail(pty) /\ ComposerKey(k) /\ UNCHANGED <<handler, rows>>
  BY DEF HandlesInComposer, store, TuiTypes, InputTypes
<1>2. k = pty[1] /\ k \in Inputs
  BY <1>1
<1>3. ran \in [Commands -> Nat]
  BY DEF TuiTypes, RowTypes
<1>4. CASE k.key = "Enter"
  <2>1. composer' = {} /\ Submits
    BY <1>1, <1>4 DEF ComposerKey
  <2>2. CASE \E d \in Commands : composer = {d}
    <3> DEFINE d == CHOOSE x \in Commands : composer = {x}
    <3>1. d \in Commands /\ composer = {d}
      BY <2>2
    <3>2. ran' = [ran EXCEPT ![d] = @ + 1]
      BY <2>1, <2>2 DEF Submits
    <3> HIDE DEF d
    <3> QED BY <1>1, <1>3, <2>1, <3>1, <3>2
  <2>3. CASE ~\E d \in Commands : composer = {d}
    BY <1>1, <2>1, <2>3 DEF Submits
  <2> QED BY <2>2, <2>3
<1>5. CASE k.key = "text"
  <2>1. composer' = composer \cup {k.by} /\ ran' = ran
    BY <1>1, <1>5 DEF ComposerKey
  <2>2. k.by = c => IsText(1, c)
    BY <1>2, <1>5 DEF IsText, Inputs
  <2> QED BY <1>1, <2>1, <2>2
<1>6. CASE k.key \notin {"Enter", "text"}
  BY <1>1, <1>6 DEF ComposerKey
<1> QED BY <1>4, <1>5, <1>6

(* Every step leaves a command to be written once. *)
LEMMA TextStep ==
    ASSUME TuiTypes, [TuiNext]_tuiVars, NEW c \in Durable, TextIsOnce(c)
    PROVE  TextIsOnce(c)'
<1>1. c \in Commands /\ ran[c] \in Nat /\ pty \in Seq(Inputs)
      /\ (rows'[c] = "none" => rows[c] = "none")
  BY CommandsAssumption, RowStep DEF TuiTypes, RowTypes, InputTypes
<1>2. CASE Types(c)
  <2>1. handler.req = c /\ handler.step = "type" /\ handler'.step = "place"
        /\ pty' = Append(pty, [key |-> "text", by |-> c]) /\ UNCHANGED <<composer, ran, rows>>
    <3>1. handler \in [req : Requests \cup {None}, step : {"idle"} \cup AnswerSteps \cup CommandSteps,
                       id : Reads, keys : Seq(AnswerKeys), row : Commands \cup {None}]
      BY DEF TuiTypes, RequestTypes
    <3> QED BY <1>2, <3>1 DEF Types, store, history
  <2>2. Unwritten(c) /\ rows[c] # "none"
    BY <2>1 DEF TextIsOnce
  <2>3. [key |-> "text", by |-> c] \in Inputs
    BY <1>1 DEF Inputs, Requests
  <2>4. WrittenOnce(c)'
    <3>1. \A i \in DOMAIN pty' : IsText(i, c)' => i = Len(pty) + 1
      BY <1>1, <2>1, <2>2, <2>3, LastInput DEF Unwritten, Written, IsText
    <3> QED BY <3>1 DEF WrittenOnce
  <2> QED BY <1>1, <2>1, <2>2, <2>4 DEF TextIsOnce, Unwritten
<1>3. CASE ~Types(c) /\ UNCHANGED <<composer, ran>>
  <2>1. (Written(c)' => Written(c)) /\ WrittenOnce(c)'
    BY <1>1, <1>3, WritingSteps DEF TextIsOnce
  <2>2. Unwritten(c) => Unwritten(c)'
    BY <1>3, <2>1 DEF Unwritten
  <2>3. handler'.req = c /\ handler'.step = "type" => Unwritten(c)' /\ rows'[c] # "none"
    <3> SUFFICES ASSUME handler'.req = c, handler'.step = "type" PROVE Unwritten(c)' /\ rows'[c] # "none"
      OBVIOUS
    <3> QED BY <1>1, <2>2, TypingSteps DEF TextIsOnce
  <2> QED BY <1>1, <1>3, <2>1, <2>2, <2>3 DEF TextIsOnce
<1>4. CASE ~Types(c) /\ HandlesInComposer
  <2>1. (Written(c)' => Written(c)) /\ WrittenOnce(c)'
    BY <1>1, <1>4, WritingSteps DEF TextIsOnce
  <2>2. UNCHANGED <<handler, rows>> /\ pty # <<>> /\ pty' = Tail(pty)
    BY <1>1, <1>4, ComposerMoves
  <2>3. CASE ran'[c] = ran[c] /\ (c \in composer' => c \in composer)
    BY <1>1, <2>1, <2>2, <2>3 DEF TextIsOnce, Unwritten
  <2>4. CASE composer = {c} /\ ran'[c] = ran[c] + 1 /\ composer' = {}
    <3>1. ran[c] = 0 /\ ~Written(c) /\ ~Unwritten(c)
      BY <2>4 DEF TextIsOnce, Unwritten
    <3> QED BY <1>1, <2>1, <2>2, <2>4, <3>1 DEF TextIsOnce
  <2>5. CASE IsText(1, c) /\ ran'[c] = ran[c]
    <3>1. Written(c) /\ ran[c] = 0 /\ ~Unwritten(c)
      BY <1>1, <2>2, <2>5 DEF TextIsOnce, Written, Unwritten
    <3>2. ~Written(c)'
      <4>1. \A i \in DOMAIN pty' : i \in Nat \ {0} /\ i + 1 \in DOMAIN pty /\ pty'[i] = pty[i + 1] /\ 1 \in DOMAIN pty
        BY <1>1, <2>2, FirstInput
      <4>2. ASSUME NEW i \in DOMAIN pty', IsText(i, c)' PROVE FALSE
        <5>1. IsText(i + 1, c)
          BY <4>1, <4>2 DEF IsText
        <5>2. i + 1 = 1
          BY <2>5, <4>1, <5>1 DEF TextIsOnce, WrittenOnce
        <5> QED BY <4>1, <5>2
      <4> QED BY <4>2 DEF Written
    <3> QED BY <1>1, <2>1, <2>2, <2>5, <3>1, <3>2 DEF TextIsOnce
  <2> QED BY <1>1, <1>4, <2>3, <2>4, <2>5, ComposerMoves
<1> QED BY <1>2, <1>3, <1>4, ComposerSteps

(* A command with a row runs at most once under its request id, whatever   *)
(* fails, times out or restarts between its text, its Enter and its row    *)
(* (begin_command).                                                        *)
THEOREM CommandRunsOnce == TuiSpec => []CommandsRunOnce
<1>1. TuiInit => TextsAreOnce
  <2>1. Durable \subseteq Commands /\ None \notin Commands
    BY CommandsAssumption, RequestsAreApart
  <2> QED BY <2>1, NobodyAsks DEF TuiInit, TextsAreOnce, TextIsOnce, Unwritten, Written, WrittenOnce, IsText
<1>2. TuiTypes /\ TextsAreOnce /\ [TuiNext]_tuiVars => TextsAreOnce'
  BY TextStep DEF TextsAreOnce
<1>3. TextsAreOnce => CommandsRunOnce
  BY DEF TextsAreOnce, TextIsOnce, CommandsRunOnce
<1> QED BY <1>1, <1>2, <1>3, TuiTypeCorrect, PTL DEF TuiSpec

-----------------------------------------------------------------------------
(* An answer chooses what was clicked.  First its menu: an id is known for *)
(* one reading only, so the sheet that has the id of what the screen shows *)
(* is a sheet of the menu that is up.                                      *)

Shown(s) == (tab # None /\ s = tab) \/ \E a \in Answers : ask[a] \in Asked /\ s = ask[a].sheet

IdsGrow ==
    ~restarted => \A s \in Sheets : Shown(s) => s.id.gen <= known.gen /\ (s.id.gen = known.gen => s.id = known)

SheetsAreOfMenu ==
    ~restarted /\ ~unseen /\ screen.menu # 0 =>
        /\ poll # None /\ poll.fp.live = screen.look => poll.menu = screen.menu
        /\ \A s \in Sheets : Shown(s) /\ s.id = known /\ known.fp.live = screen.look => s.menu = screen.menu

CodexIsAsking == screen.menu # 0 => codex

(* A sheet that is shown was shown before or is what the browser shows now. *)
LEMMA ShownSteps ==
    ASSUME TuiTypes, [TuiNext]_tuiVars, NEW s, Shown(s)'
    PROVE  Shown(s) \/ (tab' # tab /\ s = tab')
<1>1. CASE tab' # None /\ s = tab'
  BY <1>1 DEF Shown
<1>2. ASSUME NEW a \in Answers, ask'[a] \in Asked, s = ask'[a].sheet, ask' = ask PROVE Shown(s)
  BY <1>2 DEF Shown
<1>3. ASSUME NEW b \in Answers, NEW q \in Asked, LetIn(b, q), NEW a \in Answers, ask'[a] \in Asked, s = ask'[a].sheet
      PROVE  Shown(s)
  <2>1. DOMAIN ask = Answers
    BY DEF TuiTypes, AskTypes
  <2>2. ask'[a] = ask[a] \/ ask'[a] = q
    BY <1>3, <2>1 DEF LetIn
  <2>3. CASE ask'[a] = q
    BY <1>3, <2>3 DEF LetIn, Shown
  <2> QED BY <1>3, <2>2, <2>3 DEF Shown
<1>4. Shown(s)' => (tab' # None /\ s = tab') \/ \E a \in Answers : ask'[a] \in Asked /\ s = ask'[a].sheet
  BY DEF Shown
<1> QED BY <1>1, <1>2, <1>3, <1>4, AskSteps

(* The menu that is up stays, another comes up, or none is left. *)
LEMMA MenuSteps ==
    ASSUME TuiTypes, [TuiNext]_tuiVars
    PROVE  \/ UNCHANGED <<screen, unseen>>
           \/ /\ UNCHANGED <<known, poll, tab, ask, restarted>>
              /\ codex
              /\ \/ screen' = NoMenu
                 \/ UNCHANGED unseen /\ screen.menu # 0 /\ screen'.menu = screen.menu /\ screen'.look = screen.look
                 \/ \E look \in MenuLooks : Opening(look)
<1> DEFINE Stays == UNCHANGED <<screen, unseen>>
           Changes == \/ screen' = NoMenu
                      \/ UNCHANGED unseen /\ screen.menu # 0 /\ screen'.menu = screen.menu /\ screen'.look = screen.look
                      \/ \E look \in MenuLooks : Opening(look)
<1>1. CASE HandlesInMenu
  <2>1. MenuKey(Head(pty)) /\ screen.menu # 0 /\ codex
    BY <1>1 DEF HandlesInMenu
  <2>2. screen \in [menu : Nat \ {0}, look : MenuLooks, sel : Options]
    BY <2>1, NothingIsRead DEF TuiTypes, ScreenTypes, Screens
  <2>3. Stays \/ Changes
    BY <2>1, <2>2 DEF MenuKey, NothingOpens
  <2> QED BY <1>1, <2>1, <2>3 DEF HandlesInMenu
<1>2. CASE HandlesInComposer
  <2>1. ComposerKey(Head(pty)) /\ codex
    BY <1>2 DEF HandlesInComposer
  <2>2. Stays \/ Changes
    BY <2>1 DEF ComposerKey, Submits, NothingOpens
  <2> QED BY <1>2, <2>1, <2>2 DEF HandlesInComposer
<1>3. ASSUME NEW look \in MenuLooks, CodexAsks(look) PROVE codex /\ Changes /\ UNCHANGED <<known, poll, tab, ask, restarted>>
  BY <1>3 DEF CodexAsks
<1>4. CASE Polls \/ PollIsLate \/ PollEnds \/ ShellHandles \/ TurnEnds \/ OwnerStartsAgain
  BY <1>4 DEF Polls, PollIsLate, PollEnds, ShellHandles, TurnEnds, OwnerStartsAgain, terminal, history
<1>5. ASSUME NEW a \in Answers, Respond(a) \/ ReadsDetected(a) \/ Presses(a) \/ SeesChange(a) \/ SeesNoChange(a)
      PROVE  Stays
  BY <1>5 DEF Respond, ReadsDetected, Presses, SeesChange, SeesNoChange, terminal, history
<1>6. ASSUME NEW c \in Commands, Begin(c) \/ Types(c) \/ SeesCommand(c) \/ NotPlaced(c) \/ PressesEnter(c)
                                 \/ Completes(c) \/ Ambiguous(c)
      PROVE  Stays
  BY <1>6 DEF Begin, Types, SeesCommand, NotPlaced, PressesEnter, Completes, Ambiguous, Fails, terminal, history
<1>7. ASSUME NEW key \in {"Down", "Enter", "text"}, PersonActs(key) PROVE Stays
  BY <1>7 DEF PersonActs
<1>8. CASE UNCHANGED tuiVars
  BY <1>8 DEF tuiVars, terminal, history
<1> QED BY <1>1, <1>2, <1>3, <1>4, <1>5, <1>6, <1>7, <1>8 DEF TuiNext

(* Menus are up only while Codex runs. *)
LEMMA AskingStep == ASSUME TuiTypes, [TuiNext]_tuiVars, CodexIsAsking PROVE CodexIsAsking'
<1>1. CASE codex' = codex
  <2>1. CASE UNCHANGED screen
    BY <1>1, <2>1 DEF CodexIsAsking
  <2> QED BY <1>1, <2>1, MenuSteps DEF CodexIsAsking
<1>2. CASE HandlesInComposer
  <2>1. codex /\ screen.menu = 0 /\ ComposerKey(Head(pty))
    BY <1>2 DEF HandlesInComposer
  <2>2. CASE Head(pty).key = "Enter"
    <3>1. Submits
      BY <2>1, <2>2 DEF ComposerKey
    <3>2. CASE \E c \in Commands : composer = {c}
      <4> DEFINE c == CHOOSE x \in Commands : composer = {x}
      <4>1. codex' = (c \notin Exits) /\ (c \in Opens \/ UNCHANGED screen)
        BY <3>1, <3>2 DEF Submits
      <4> HIDE DEF c
      <4> QED BY <2>1, <4>1, CommandsAssumption DEF CodexIsAsking
    <3> QED BY <1>1, <3>1, <3>2 DEF Submits
  <2> QED BY <1>1, <2>1, <2>2 DEF ComposerKey
<1>3. CASE Polls \/ PollIsLate \/ PollEnds \/ ShellHandles \/ TurnEnds \/ OwnerStartsAgain \/ HandlesInMenu
  BY <1>1, <1>3 DEF Polls, PollIsLate, PollEnds, ShellHandles, TurnEnds, OwnerStartsAgain, HandlesInMenu, terminal
<1>4. ASSUME NEW a \in Answers, Respond(a) \/ ReadsDetected(a) \/ Presses(a) \/ SeesChange(a) \/ SeesNoChange(a)
      PROVE  codex' = codex
  BY <1>4 DEF Respond, ReadsDetected, Presses, SeesChange, SeesNoChange, terminal
<1>5. ASSUME NEW c \in Commands, Begin(c) \/ Types(c) \/ SeesCommand(c) \/ NotPlaced(c) \/ PressesEnter(c)
                                 \/ Completes(c) \/ Ambiguous(c)
      PROVE  codex' = codex
  BY <1>5 DEF Begin, Types, SeesCommand, NotPlaced, PressesEnter, Completes, Ambiguous, Fails, terminal
<1>6. ASSUME NEW look \in MenuLooks, CodexAsks(look) PROVE codex' = codex
  BY <1>6 DEF CodexAsks
<1>7. ASSUME NEW key \in {"Down", "Enter", "text"}, PersonActs(key) PROVE codex' = codex
  BY <1>7 DEF PersonActs
<1>8. CASE UNCHANGED tuiVars
  BY <1>1, <1>8 DEF tuiVars, terminal
<1> QED BY <1>1, <1>2, <1>3, <1>4, <1>5, <1>6, <1>7, <1>8 DEF TuiNext

(* The Owner stays restarted. *)
LEMMA RestartedStays == ASSUME [TuiNext]_tuiVars, restarted PROVE restarted'
<1>1. CASE Polls \/ PollIsLate \/ PollEnds \/ ShellHandles \/ TurnEnds \/ OwnerStartsAgain \/ HandlesInMenu \/ HandlesInComposer
  BY <1>1 DEF Polls, PollIsLate, PollEnds, ShellHandles, TurnEnds, OwnerStartsAgain, HandlesInMenu, HandlesInComposer, history
<1>2. ASSUME NEW a \in Answers, Respond(a) \/ ReadsDetected(a) \/ Presses(a) \/ SeesChange(a) \/ SeesNoChange(a)
      PROVE  restarted'
  BY <1>2 DEF Respond, ReadsDetected, Presses, SeesChange, SeesNoChange, history
<1>3. ASSUME NEW c \in Commands, Begin(c) \/ Types(c) \/ SeesCommand(c) \/ NotPlaced(c) \/ PressesEnter(c)
                                 \/ Completes(c) \/ Ambiguous(c)
      PROVE  restarted'
  BY <1>3 DEF Begin, Types, SeesCommand, NotPlaced, PressesEnter, Completes, Ambiguous, Fails, history
<1>4. ASSUME NEW look \in MenuLooks, CodexAsks(look) PROVE restarted'
  BY <1>4 DEF CodexAsks
<1>5. ASSUME NEW key \in {"Down", "Enter", "text"}, PersonActs(key) PROVE restarted'
  BY <1>5 DEF PersonActs
<1>6. CASE UNCHANGED tuiVars
  BY <1>6 DEF tuiVars, history
<1> QED BY <1>1, <1>2, <1>3, <1>4, <1>5, <1>6 DEF TuiNext

(* Generations never go back. *)
LEMMA IdsStep == ASSUME TuiTypes, [TuiNext]_tuiVars, IdsGrow PROVE IdsGrow'
<1> SUFFICES ASSUME ~restarted', NEW s \in Sheets, Shown(s)'
             PROVE  s.id.gen <= known'.gen /\ (s.id.gen = known'.gen => s.id = known')
  BY DEF IdsGrow
<1>1. /\ ~restarted /\ known \in Reads /\ s.id \in Reads /\ Detected \in Fps
      /\ \A t \in Sheets : Shown(t) => t.id.gen <= known.gen /\ (t.id.gen = known.gen => t.id = known)
  BY RestartedStays, DetectedIsRead DEF IdsGrow, TuiTypes, ReadTypes, Sheets
<1>2. \/ Shown(s) /\ s.id.gen <= known.gen /\ (s.id.gen = known.gen => s.id = known)
      \/ tab' # tab /\ s = tab'
  BY <1>1, ShownSteps
<1>3. known.gen \in Nat /\ s.id.gen \in Nat
  BY <1>1 DEF Reads
<1>4. ASSUME NEW fp \in Fps, known' = Seen(fp), tab' = tab \/ tab'.id = known'
      PROVE  s.id.gen <= known'.gen /\ (s.id.gen = known'.gen => s.id = known')
  <2>1. known' = known \/ known'.gen = known.gen + 1
    BY <1>1, <1>4, SeenIsRead
  <2> QED BY <1>2, <1>3, <1>4, <2>1
<1>5. CASE known' = known /\ tab' = tab /\ poll' = poll
  BY <1>2, <1>5
<1>6. CASE PollIsLate
  BY <1>2, <1>6 DEF PollIsLate
<1>7. CASE PollEnds
  <2>1. poll.fp \in Fps
    BY <1>7 DEF PollEnds, TuiTypes, ReadTypes
  <2>2. known' = Seen(poll.fp) /\ (tab' = tab \/ tab'.id = known')
    BY <1>7 DEF PollEnds, Shows, Id
  <2> QED BY <1>4, <2>1, <2>2
<1>8. CASE /\ known' = Seen(Detected) /\ poll' = poll
           /\ tab' = tab \/ tab' = [id |-> known', menu |-> screen.menu]
  BY <1>1, <1>4, <1>8
<1>9. ~OwnerStartsAgain
  BY DEF OwnerStartsAgain
<1> QED BY <1>5, <1>6, <1>7, <1>8, <1>9, ReadSteps

(* A sheet with the id of what was read last is a sheet of the menu that   *)
(* is up, and so is a late poll that shows its look.                       *)
LEMMA SheetsStep == ASSUME TuiTypes, [TuiNext]_tuiVars, IdsGrow, SheetsAreOfMenu PROVE SheetsAreOfMenu'
<1> SUFFICES ASSUME ~restarted', ~unseen', screen'.menu # 0 PROVE SheetsAreOfMenu'
  BY DEF SheetsAreOfMenu
<1>1. /\ ~restarted /\ known \in Reads /\ Detected \in Fps
      /\ \A t \in Sheets : Shown(t) => t.id.gen <= known.gen /\ (t.id.gen = known.gen => t.id = known)
  BY RestartedStays, DetectedIsRead DEF IdsGrow, TuiTypes, ReadTypes
<1>2. CASE \E look \in MenuLooks : Opening(look) /\ UNCHANGED <<known, poll, tab, ask, restarted>>
  <2>1. PICK look \in MenuLooks : Opening(look) /\ UNCHANGED <<known, poll, tab, ask, restarted>>
    BY <1>2
  <2>2. screen'.look = look
    BY <2>1 DEF Opening, Opened
  <2>3. known.fp.live # look /\ ~(poll # None /\ poll.fp.live = look)
    BY <2>1 DEF Opening
  <2>4. known' = known /\ poll' = poll
    BY <2>1
  <2> QED BY <2>2, <2>3, <2>4 DEF SheetsAreOfMenu
<1>3. CASE screen' = NoMenu
  BY <1>3, NothingIsRead
<1> DEFINE Same == ~unseen /\ screen.menu # 0 /\ screen'.menu = screen.menu /\ screen'.look = screen.look
<1>4. ASSUME Same
      PROVE  /\ poll # None /\ poll.fp.live = screen'.look => poll.menu = screen'.menu
             /\ \A s \in Sheets : Shown(s) /\ s.id = known /\ known.fp.live = screen'.look => s.menu = screen'.menu
  BY <1>1, <1>4 DEF SheetsAreOfMenu
<1>5. ASSUME Same, known' = known, tab' = tab, poll' = poll PROVE SheetsAreOfMenu'
  BY <1>4, <1>5, ShownSteps DEF SheetsAreOfMenu
<1>6. ASSUME Same, PollIsLate PROVE SheetsAreOfMenu'
  <2>1. known' = known /\ tab' = tab /\ poll'.menu = screen'.menu
    BY <1>6 DEF PollIsLate, terminal
  <2> QED BY <1>4, <1>6, <2>1, ShownSteps DEF SheetsAreOfMenu
<1>7. ASSUME Same, NEW fp \in Fps, NEW n, known' = Seen(fp), tab' = tab \/ tab' = [id |-> known', menu |-> n],
             fp.live = screen'.look => n = screen'.menu, poll' = None \/ poll' = poll
      PROVE  SheetsAreOfMenu'
  <2>1. known'.fp = fp /\ (known' = known \/ known'.gen = known.gen + 1)
    BY <1>1, <1>7, SeenIsRead
  <2>2. ASSUME NEW s \in Sheets, Shown(s)', s.id = known', known'.fp.live = screen'.look PROVE s.menu = screen'.menu
    <3>1. CASE Shown(s)
      <4>1. s.id.gen <= known.gen /\ known.gen \in Nat
        BY <1>1, <3>1 DEF Reads
      <4>2. known' = known
        BY <2>1, <2>2, <4>1
      <4> QED BY <1>4, <1>7, <2>2, <3>1, <4>2
    <3>2. CASE tab' # tab /\ s = tab'
      BY <1>7, <2>1, <2>2, <3>2
    <3> QED BY <2>2, <3>1, <3>2, ShownSteps
  <2>3. poll' # None /\ poll'.fp.live = screen'.look => poll'.menu = screen'.menu
    BY <1>4, <1>7
  <2> QED BY <2>2, <2>3 DEF SheetsAreOfMenu
<1>8. ASSUME Same, PollEnds PROVE SheetsAreOfMenu'
  <2>1. poll.fp \in Fps /\ poll # None
    BY <1>8 DEF PollEnds, TuiTypes, ReadTypes
  <2>2. known' = Seen(poll.fp) /\ (tab' = tab \/ tab' = [id |-> known', menu |-> poll.menu]) /\ poll' = None
    BY <1>8 DEF PollEnds, Shows, Id
  <2>3. poll.fp.live = screen'.look => poll.menu = screen'.menu
    BY <1>4, <1>8, <2>1
  <2> QED BY <1>7, <1>8, <2>1, <2>2, <2>3
<1>9. ASSUME Same, known' = Seen(Detected), poll' = poll, tab' = tab \/ tab' = [id |-> known', menu |-> screen.menu]
      PROVE  SheetsAreOfMenu'
  BY <1>1, <1>7, <1>9
<1>10. ~OwnerStartsAgain
  BY DEF OwnerStartsAgain
<1>11. Same \/ screen' = NoMenu \/ \E look \in MenuLooks : Opening(look) /\ UNCHANGED <<known, poll, tab, ask, restarted>>
  BY MenuSteps
<1> HIDE DEF Same
<1> QED BY <1>2, <1>3, <1>5, <1>6, <1>8, <1>9, <1>10, <1>11, ReadSteps

-----------------------------------------------------------------------------
(* Then its option.                                                        *)

(* An answer whose sheet was read under its own title. *)
Plain(a) == ask[a] \in Asked /\ ask[a].sheet.id.fp.as = ask[a].sheet.id.fp.live

RightMenu(a) == screen.menu # 0 /\ (screen.menu = ask[a].sheet.menu \/ unseen \/ restarted)
Moves == {"Up", "Down"}
Leaves == {"Enter", "Escape"}

(* n keys d lead from the selection to the option o. *)
Reaches(d, n, o) ==
    /\ o \in Options
    /\ (d = "Down" /\ screen.sel + n = o) \/ (d = "Up" /\ screen.sel = o + n)

AllMove(d, n) == \A j \in 1..n : pty[j].key = d
PressedBy(a, i) == pty[i].by = a
AllPressedBy(a) == \A i \in DOMAIN pty : PressedBy(a, i)
NonePressedBy(a) == \A i \in DOMAIN pty : ~PressedBy(a, i)

(* A key of an answer that is under way comes after its own keys alone, in *)
(* the menu it is for, and they move to the option that its Enter is for.  *)
EnterReaches(a, i) ==
    pty[i].key = "Enter" => \E d \in Moves : AllMove(d, i - 1) /\ Reaches(d, i - 1, Wanted(ask[a]))
KeyInPlace(a, i) ==
    /\ RightMenu(a)
    /\ \A j \in 1..i : PressedBy(a, j)
    /\ pty[i].key \in Leaves => \A j \in DOMAIN pty : i < j => ~PressedBy(a, j)
    /\ EnterReaches(a, i)
KeysInPlace(a) == \A i \in DOMAIN pty : PressedBy(a, i) => KeyInPlace(a, i)

(* The answer with the lock has seen the selection, or is pressing its     *)
(* only key or the keys that lead from the selection to its option.        *)
Looking(a) == RightMenu(a) /\ pty = <<>> /\ handler.id = ask[a].sheet.id /\ screen.sel = handler.id.fp.sel
OnlyKey(a) ==
    /\ pty = <<>> /\ Len(handler.keys) = 1
    /\ handler.keys[1] = "Enter" => Reaches("Down", 0, Wanted(ask[a]))
Moving(a, d) ==
    /\ AllMove(d, Len(pty))
    /\ handler.keys[Len(handler.keys)] = "Enter"
    /\ \A j \in 1..(Len(handler.keys) - 1) : handler.keys[j] = d
    /\ Reaches(d, Len(pty) + (Len(handler.keys) - 1), Wanted(ask[a]))
Pressing(a) == RightMenu(a) /\ (OnlyKey(a) \/ \E d \in Moves : Moving(a, d))
LockInPlace(a) ==
    handler.req = a =>
        /\ AllPressedBy(a)
        /\ handler.step = "look" => Looking(a)
        /\ handler.step = "keys" => Pressing(a)

Steered(a) == a \notin touched \cup mixed /\ Plain(a) => KeysInPlace(a) /\ LockInPlace(a)

PressedWereAsked == \A i \in DOMAIN pty : pty[i].by \in Answers => ask[pty[i].by] \in Asked

ClicksInPlace ==
    /\ IdsGrow /\ SheetsAreOfMenu /\ CodexIsAsking
    /\ PressedWereAsked
    /\ \A a \in Answers : Steered(a)

(* Keys are pressed only for answers that are remembered. *)
LEMMA PressedStep == ASSUME TuiTypes, [TuiNext]_tuiVars, PressedWereAsked PROVE PressedWereAsked'
<1>1. /\ pty \in Seq(Inputs) /\ \A i \in DOMAIN pty : pty[i].by \in Answers => ask[pty[i].by] \in Asked
      /\ \A a \in Answers : ask[a] \in Asked => ask'[a] \in Asked
  BY AskStep DEF PressedWereAsked, TuiTypes, InputTypes
<1>2. CASE pty' = pty
  BY <1>1, <1>2 DEF PressedWereAsked
<1>3. CASE pty # <<>> /\ pty' = Tail(pty)
  <2>1. \A i \in DOMAIN pty' : i + 1 \in DOMAIN pty /\ pty'[i] = pty[i + 1]
    BY <1>1, <1>3, FirstInput
  <2> QED BY <1>1, <2>1 DEF PressedWereAsked
<1>4. ASSUME NEW e \in Inputs, pty' = Append(pty, e), e.by \in Answers => ask[e.by] \in Asked PROVE PressedWereAsked'
  <2>1. \A i \in DOMAIN pty' : (i \in DOMAIN pty /\ pty'[i] = pty[i]) \/ pty'[i] = e
    BY <1>1, <1>4, LastInput
  <2> QED BY <1>1, <1>4, <2>1 DEF PressedWereAsked
<1>5. ASSUME NEW a \in Answers, Presses(a) PROVE PressedWereAsked'
  <2>1. [key |-> Head(handler.keys), by |-> a] \in Inputs /\ ask[a] \in Asked
    BY <1>5, PressedKey DEF Presses, TuiTypes, RequestTypes
  <2> QED BY <1>4, <1>5, <2>1 DEF Presses
<1>6. ASSUME NEW c \in Commands, Types(c) \/ PressesEnter(c) PROVE PressedWereAsked'
  <2>1. c \notin Answers
    BY RequestsAreApart
  <2>2. \E e \in Inputs : pty' = Append(pty, e) /\ e.by = c
    BY <1>6 DEF Types, PressesEnter, Inputs, Requests, AnswerKeys
  <2> QED BY <1>4, <2>1, <2>2
<1>7. ASSUME NEW key \in {"Down", "Enter", "text"}, PersonActs(key) PROVE PressedWereAsked'
  <2>1. [key |-> key, by |-> Person] \in Inputs /\ Person \notin Answers
    BY RequestsAreApart DEF Inputs, AnswerKeys, Person
  <2> QED BY <1>4, <1>7, <2>1 DEF PersonActs
<1> QED BY <1>2, <1>3, <1>5, <1>6, <1>7, InputSteps

(* What is in place stays in place while nothing moves. *)
LEMMA InPlaceStays ==
    ASSUME NEW a \in Answers, UNCHANGED <<pty, screen, unseen>>, ask'[a] = ask[a], restarted => restarted'
    PROVE  /\ KeysInPlace(a) => KeysInPlace(a)'
           /\ RightMenu(a) => RightMenu(a)'
<1>1. RightMenu(a) => RightMenu(a)'
  BY DEF RightMenu
<1>2. ASSUME NEW i \in DOMAIN pty, KeyInPlace(a, i) PROVE KeyInPlace(a, i)'
  <2>1. EnterReaches(a, i)'
    BY <1>2 DEF KeyInPlace, EnterReaches, AllMove, Reaches
  <2> QED BY <1>1, <1>2, <2>1 DEF KeyInPlace, PressedBy
<1>3. DOMAIN pty' = DOMAIN pty /\ \A i \in DOMAIN pty : PressedBy(a, i)' <=> PressedBy(a, i)
  BY DEF PressedBy
<1> QED BY <1>1, <1>2, <1>3 DEF KeysInPlace

(* A step that moves no key and no selection, and hands no lock to the     *)
(* answer, leaves it steered.                                              *)
LEMMA SteeredStays ==
    ASSUME NEW a \in Answers, Steered(a), UNCHANGED <<pty, screen, unseen>>, ask'[a] = ask[a],
           restarted => restarted', touched \subseteq touched', mixed \subseteq mixed',
           handler'.req = a => handler' = handler
    PROVE  Steered(a)'
<1> SUFFICES ASSUME a \notin touched' \cup mixed', Plain(a)' PROVE KeysInPlace(a)' /\ LockInPlace(a)'
  BY DEF Steered
<1>1. KeysInPlace(a) /\ LockInPlace(a)
  BY DEF Steered, Plain
<1>2. ASSUME handler'.req = a
      PROVE  AllPressedBy(a)' /\ (handler'.step = "look" => Looking(a)') /\ (handler'.step = "keys" => Pressing(a)')
  <2>1. handler' = handler /\ handler.req = a
    BY <1>2
  <2>2. AllPressedBy(a)'
    BY <1>1, <2>1 DEF LockInPlace, AllPressedBy, PressedBy
  <2>3. Looking(a) => Looking(a)'
    BY <2>1, InPlaceStays DEF Looking
  <2>4. OnlyKey(a) => OnlyKey(a)'
    BY <2>1 DEF OnlyKey, Reaches
  <2>5. \A d \in Moves : Moving(a, d) => Moving(a, d)'
    BY <2>1 DEF Moving, AllMove, Reaches
  <2>6. Pressing(a) => Pressing(a)'
    BY <2>4, <2>5, InPlaceStays DEF Pressing
  <2> QED BY <1>1, <2>1, <2>2, <2>3, <2>6 DEF LockInPlace
<1> QED BY <1>1, <1>2, InPlaceStays DEF LockInPlace

(* An answer whose keys are gone, and that presses none, is steered. *)
LEMMA KeysAreGone ==
    ASSUME NEW a \in Answers, NonePressedBy(a)',
           handler'.req = a => pty' = <<>> /\ handler'.step \notin {"look", "keys"}
    PROVE  Steered(a)'
BY DEF Steered, KeysInPlace, NonePressedBy, LockInPlace, AllPressedBy

(* Someone else's key after the answer's own leaves it steered. *)
LEMMA OtherKey ==
    ASSUME NEW a \in Answers, Steered(a), pty \in Seq(Inputs), NEW e \in Inputs, e.by # a, pty' = Append(pty, e),
           UNCHANGED <<screen, unseen, restarted, ask, touched, mixed>>, handler'.req # a
    PROVE  Steered(a)'
<1> SUFFICES ASSUME a \notin touched \cup mixed, Plain(a) PROVE KeysInPlace(a)' /\ LockInPlace(a)'
  BY DEF Steered, Plain
<1>1. KeysInPlace(a)
  BY DEF Steered
<1>2. /\ DOMAIN pty = 1..Len(pty) /\ Len(pty) \in Nat /\ DOMAIN pty' = 1..(Len(pty) + 1)
      /\ \A j \in 1..Len(pty) : pty'[j] = pty[j]
      /\ pty'[Len(pty) + 1] = e
  BY LastInput
<1>3. ASSUME NEW i \in DOMAIN pty', PressedBy(a, i)' PROVE KeyInPlace(a, i)'
  <2>1. i \in 1..Len(pty) /\ PressedBy(a, i) /\ pty'[i] = pty[i]
    BY <1>2, <1>3 DEF PressedBy
  <2>2. KeyInPlace(a, i)
    BY <1>1, <1>2, <2>1 DEF KeysInPlace
  <2>3. RightMenu(a)' /\ \A j \in 1..i : PressedBy(a, j)'
    BY <1>2, <2>1, <2>2 DEF KeyInPlace, RightMenu, PressedBy
  <2>4. pty'[i].key \in Leaves => \A j \in DOMAIN pty' : i < j => ~PressedBy(a, j)'
    BY <1>2, <2>1, <2>2 DEF KeyInPlace, PressedBy
  <2>5. EnterReaches(a, i)'
    <3> SUFFICES ASSUME pty[i].key = "Enter"
                 PROVE  \E d \in Moves : AllMove(d, i - 1)' /\ Reaches(d, i - 1, Wanted(ask[a]))'
      BY <2>1 DEF EnterReaches
    <3>1. PICK d \in Moves : AllMove(d, i - 1) /\ Reaches(d, i - 1, Wanted(ask[a]))
      BY <2>2 DEF KeyInPlace, EnterReaches
    <3>2. AllMove(d, i - 1)' /\ Reaches(d, i - 1, Wanted(ask[a]))'
      BY <1>2, <2>1, <3>1 DEF AllMove, Reaches
    <3> QED BY <3>2
  <2> QED BY <2>3, <2>4, <2>5 DEF KeyInPlace
<1> QED BY <1>3 DEF KeysInPlace, LockInPlace

(* An answer's own key goes where it has to. *)
LEMMA OwnKey ==
    ASSUME TuiTypes, NEW a \in Answers, Steered(a), Presses(a)
    PROVE  Steered(a)'
<1> SUFFICES ASSUME a \notin touched \cup mixed, Plain(a) PROVE KeysInPlace(a)' /\ LockInPlace(a)'
  BY DEF Steered, Plain, Presses, history
<1>0. PICK n, m, e : n = Len(pty) /\ m = Len(handler.keys) /\ e = [key |-> Head(handler.keys), by |-> a]
  OBVIOUS
<1>1. /\ handler.req = a /\ handler.step = "keys"
      /\ pty' = Append(pty, e)
      /\ UNCHANGED <<screen, unseen, restarted, ask>>
  BY <1>0 DEF Presses, history
<1>2. AllPressedBy(a) /\ Pressing(a)
  BY <1>1 DEF Steered, LockInPlace
<1>3. /\ pty \in Seq(Inputs) /\ e \in Inputs /\ m \in Nat \ {0} /\ e.key = handler.keys[1] /\ e.by = a
      /\ Len(Tail(handler.keys)) = m - 1 /\ \A j \in 1..(m - 1) : Tail(handler.keys)[j] = handler.keys[j + 1]
      /\ handler'.req = a /\ handler'.keys = Tail(handler.keys) /\ handler'.step = (IF m = 1 THEN "wait" ELSE "keys")
  <2>1. handler' = [handler EXCEPT !.keys = Tail(handler.keys), !.step = IF m = 1 THEN "wait" ELSE "keys"]
    BY <1>0 DEF Presses
  <2>2. e.key = Head(handler.keys) /\ e.by = a
    BY <1>0
  <2>3. handler'.req = a /\ handler'.keys = Tail(handler.keys) /\ handler'.step = (IF m = 1 THEN "wait" ELSE "keys")
    BY <1>1, <2>1 DEF TuiTypes, RequestTypes
  <2> QED BY <1>0, <2>2, <2>3, PressedKey DEF TuiTypes, InputTypes
<1>4. /\ DOMAIN pty = 1..n /\ n \in Nat /\ DOMAIN pty' = 1..(n + 1) /\ Len(pty') = n + 1
      /\ \A j \in 1..n : pty'[j] = pty[j]
      /\ pty'[n + 1] = e
  BY <1>0, <1>1, <1>3, LastInput
<1>5. AllPressedBy(a)'
  BY <1>2, <1>3, <1>4 DEF AllPressedBy, PressedBy
<1>6. RightMenu(a)'
  BY <1>1, <1>2 DEF Pressing, RightMenu
<1>7. \/ n = 0 /\ m = 1 /\ (e.key = "Enter" => Reaches("Down", 0, Wanted(ask[a])))
      \/ \E d \in Moves : Moving(a, d)
  BY <1>0, <1>2, <1>3 DEF Pressing, OnlyKey
<1>8. ASSUME NEW i \in 1..n PROVE pty[i].key \in Moves
  BY <1>0, <1>4, <1>7, <1>8 DEF Moving, AllMove
<1>9. ASSUME e.key = "Enter" PROVE \E d \in Moves : AllMove(d, n) /\ Reaches(d, n, Wanted(ask[a]))
  <2>1. CASE n = 0 /\ Reaches("Down", 0, Wanted(ask[a]))
    BY <2>1 DEF AllMove, Moves
  <2>2. ASSUME NEW d \in Moves, Moving(a, d) PROVE AllMove(d, n) /\ Reaches(d, n, Wanted(ask[a]))
    <3>1. m = 1
      <4>1. \A j \in 1..(m - 1) : handler.keys[j] = d
        BY <1>0, <2>2 DEF Moving
      <4>2. handler.keys[1] # d /\ m \in Nat \ {0}
        BY <1>3, <1>9 DEF Moves
      <4> QED BY <4>1, <4>2
    <3> QED BY <1>0, <1>4, <2>2, <3>1 DEF Moving
  <2> QED BY <1>7, <1>9, <2>1, <2>2
<1>10. ASSUME NEW i \in DOMAIN pty' PROVE KeyInPlace(a, i)'
  <2>1. \A j \in 1..i : PressedBy(a, j)'
    BY <1>4, <1>5, <1>10 DEF AllPressedBy
  <2>2. i \in 1..n => pty'[i].key \in Moves
    BY <1>4, <1>8
  <2>3. pty'[i].key \in Leaves => i = n + 1
    BY <1>4, <1>10, <2>2 DEF Leaves, Moves
  <2>4. EnterReaches(a, i)'
    <3> SUFFICES ASSUME pty'[i].key = "Enter"
                 PROVE  \E d \in Moves : AllMove(d, i - 1)' /\ Reaches(d, i - 1, Wanted(ask[a]))'
      BY DEF EnterReaches
    <3>1. i = n + 1 /\ e.key = "Enter" /\ i - 1 = n
      BY <1>4, <2>3 DEF Leaves
    <3>2. PICK d \in Moves : AllMove(d, n) /\ Reaches(d, n, Wanted(ask[a]))
      BY <1>9, <3>1
    <3>3. AllMove(d, n)' /\ Reaches(d, n, Wanted(ask[a]))'
      BY <1>1, <1>4, <3>2 DEF AllMove, Reaches
    <3> QED BY <3>1, <3>3 DEF AllMove, Reaches
  <2>5. pty'[i].key \in Leaves => \A j \in DOMAIN pty' : i < j => ~PressedBy(a, j)'
    BY <1>4, <2>3
  <2> QED BY <1>6, <2>1, <2>4, <2>5 DEF KeyInPlace
<1>11. ASSUME handler'.step = "keys" PROVE Pressing(a)'
  <2>1. m > 1
    BY <1>3, <1>11
  <2>2. PICK d \in Moves : Moving(a, d)
    BY <1>7, <2>1
  <2>3. /\ AllMove(d, n) /\ handler.keys[m] = "Enter" /\ (\A j \in 1..(m - 1) : handler.keys[j] = d)
        /\ Reaches(d, n + (m - 1), Wanted(ask[a]))
    BY <1>0, <2>2 DEF Moving
  <2>4. AllMove(d, n + 1)'
    BY <1>3, <1>4, <2>1, <2>3 DEF AllMove
  <2>5. handler'.keys[m - 1] = "Enter" /\ \A j \in 1..(m - 2) : handler'.keys[j] = d
    BY <1>3, <2>1, <2>3
  <2>6. Reaches(d, n + (m - 1), Wanted(ask[a]))'
    BY <1>1, <2>3 DEF Reaches
  <2>7. Len(handler'.keys) = m - 1 /\ Len(pty') = n + 1 /\ (m - 1) - 1 = m - 2 /\ (n + 1) + ((m - 1) - 1) = n + (m - 1)
    BY <1>3, <1>4
  <2>8. Moving(a, d)'
    BY <2>4, <2>5, <2>6, <2>7 DEF Moving
  <2> QED BY <1>6, <2>8 DEF Pressing
<1> QED BY <1>3, <1>5, <1>10, <1>11 DEF KeysInPlace, LockInPlace

(* A key that moves brings the selection one nearer. *)
LEMMA MoveReaches ==
    ASSUME ScreenTypes, screen.menu # 0, NEW d \in Moves, NEW k, k.key = d, MenuKey(k),
           NEW n \in Nat \ {0}, NEW o, Reaches(d, n, o)
    PROVE  /\ screen'.sel = (IF d = "Down" THEN screen.sel + 1 ELSE screen.sel - 1)
           /\ (d = "Down" /\ screen'.sel + (n - 1) = o) \/ (d = "Up" /\ screen'.sel = o + (n - 1))
<1>1. screen \in [menu : Nat \ {0}, look : MenuLooks, sel : Options] /\ screen.sel \in Options /\ o \in Options
  BY NothingIsRead DEF ScreenTypes, Screens, Reaches
<1>2. Options = 1..NumOptions /\ NumOptions \in Nat \ {0}
  BY TuiBoundsAssumption DEF Options
<1>3. CASE d = "Down"
  <2>1. screen.sel + n = o
    BY <1>3 DEF Reaches
  <2>2. screen.sel < NumOptions
    BY <1>1, <1>2, <2>1
  <2>3. screen'.sel = (screen.sel % NumOptions) + 1
    BY <1>1, <1>3 DEF MenuKey
  <2>4. screen'.sel = screen.sel + 1
    BY <1>1, <2>2, <2>3, NextOption
  <2> QED BY <1>1, <1>2, <1>3, <2>1, <2>4
<1>4. CASE d = "Up"
  <2>1. screen.sel = o + n
    BY <1>4 DEF Reaches
  <2>2. screen.sel # 1
    BY <1>1, <1>2, <2>1
  <2>3. screen'.sel = screen.sel - 1
    BY <1>1, <1>4, <2>2 DEF MenuKey
  <2> QED BY <1>1, <1>2, <1>4, <2>1, <2>3
<1> QED BY <1>3, <1>4 DEF Moves

(* A menu that handles an answer's moving key leaves the answer steered.   *)
LEMMA MoveInMenu ==
    ASSUME TuiTypes, NEW a \in Answers, Steered(a), HandlesInMenu, Head(pty).by = a, Head(pty).key \in Moves
    PROVE  Steered(a)'
<1> SUFFICES ASSUME a \notin touched \cup mixed, Plain(a) PROVE KeysInPlace(a)' /\ LockInPlace(a)'
  BY DEF Steered, Plain, HandlesInMenu
<1>1. /\ screen.menu # 0 /\ pty # <<>> /\ pty' = Tail(pty) /\ pty \in Seq(Inputs)
      /\ MenuKey(Head(pty))
      /\ UNCHANGED <<ask, handler, restarted>>
  BY DEF HandlesInMenu, TuiTypes, InputTypes
<1>2. PICK n : n = Len(pty)
  OBVIOUS
<1>3. /\ n \in Nat \ {0} /\ DOMAIN pty = 1..n /\ DOMAIN pty' = 1..(n - 1) /\ Len(pty') = n - 1
      /\ \A i \in 1..(n - 1) : pty'[i] = pty[i + 1]
      /\ Head(pty) = pty[1]
  BY <1>1, <1>2, FirstInput
<1>4. KeysInPlace(a) /\ LockInPlace(a) /\ ScreenTypes
  BY DEF Steered, TuiTypes
<1>5. screen'.menu = screen.menu /\ unseen' = unseen
  <2>1. screen \in [menu : Nat \ {0}, look : MenuLooks, sel : Options]
    BY <1>1, <1>4, NothingIsRead DEF ScreenTypes, Screens
  <2> QED BY <1>1, <2>1 DEF MenuKey, NothingOpens, Moves
<1>6. ASSUME NEW d \in Moves, NEW k \in Nat \ {0}, AllMove(d, k), Reaches(d, k, Wanted(ask[a])), NEW l \in Nat, l = k - 1
      PROVE  Reaches(d, l, Wanted(ask[a]))'
  <2>1. Head(pty).key = d
    BY <1>3, <1>6 DEF AllMove
  <2> QED BY <1>1, <1>4, <1>6, <2>1, MoveReaches DEF Reaches
<1>7. RightMenu(a)'
  <2>1. KeyInPlace(a, 1)
    BY <1>3, <1>4 DEF KeysInPlace, PressedBy
  <2> QED BY <1>1, <1>5, <2>1 DEF KeyInPlace, RightMenu
<1>8. ASSUME NEW i \in DOMAIN pty', PressedBy(a, i)' PROVE KeyInPlace(a, i)'
  <2>1. i \in 1..(n - 1) /\ i + 1 \in 1..n /\ pty'[i] = pty[i + 1] /\ KeyInPlace(a, i + 1)
    BY <1>3, <1>4, <1>8 DEF KeysInPlace, PressedBy
  <2>2. \A j \in 1..i : PressedBy(a, j)'
    BY <1>3, <2>1 DEF KeyInPlace, PressedBy
  <2>3. pty'[i].key \in Leaves => \A j \in DOMAIN pty' : i < j => ~PressedBy(a, j)'
    BY <1>3, <2>1 DEF KeyInPlace, PressedBy
  <2>4. EnterReaches(a, i)'
    <3> SUFFICES ASSUME pty[i + 1].key = "Enter"
                 PROVE  \E d \in Moves : AllMove(d, i - 1)' /\ Reaches(d, i - 1, Wanted(ask[a]))'
      BY <2>1 DEF EnterReaches
    <3>1. PICK d \in Moves : AllMove(d, (i + 1) - 1) /\ Reaches(d, (i + 1) - 1, Wanted(ask[a]))
      BY <2>1 DEF KeyInPlace, EnterReaches
    <3>2. (i + 1) - 1 = i /\ i \in Nat \ {0} /\ i - 1 \in Nat
      BY <2>1
    <3>3. AllMove(d, i) /\ Reaches(d, i, Wanted(ask[a]))
      BY <3>1, <3>2
    <3>4. AllMove(d, i - 1)'
      BY <1>3, <2>1, <3>3 DEF AllMove
    <3> QED BY <1>6, <3>2, <3>3, <3>4
  <2> QED BY <1>7, <2>2, <2>3, <2>4 DEF KeyInPlace
<1>9. ASSUME handler.req = a
      PROVE  AllPressedBy(a)' /\ handler.step # "look" /\ (handler.step = "keys" => Pressing(a)')
  <2>1. AllPressedBy(a) /\ (handler.step = "look" => Looking(a)) /\ (handler.step = "keys" => Pressing(a))
    BY <1>4, <1>9 DEF LockInPlace
  <2>2. AllPressedBy(a)'
    BY <1>3, <2>1 DEF AllPressedBy, PressedBy
  <2>3. ASSUME handler.step = "keys" PROVE Pressing(a)'
    <3>1. PICK m : m = Len(handler.keys)
      OBVIOUS
    <3>2. m \in Nat \ {0}
      BY <2>3, <3>1 DEF TuiTypes, RequestTypes
    <3>3. PICK d \in Moves : Moving(a, d)
      BY <1>1, <2>1, <2>3 DEF Pressing, OnlyKey
    <3>4. /\ AllMove(d, n) /\ handler.keys[m] = "Enter" /\ (\A j \in 1..(m - 1) : handler.keys[j] = d)
          /\ Reaches(d, n + (m - 1), Wanted(ask[a]))
      BY <1>2, <3>1, <3>3 DEF Moving
    <3>5. AllMove(d, n - 1)'
      BY <1>3, <3>4 DEF AllMove
    <3>6. Reaches(d, (n - 1) + (m - 1), Wanted(ask[a]))'
      <4>1. Head(pty).key = d
        BY <1>3, <3>4 DEF AllMove
      <4>2. n + (m - 1) \in Nat \ {0} /\ (n - 1) + (m - 1) = (n + (m - 1)) - 1
        BY <1>3, <3>2
      <4> QED BY <1>1, <1>4, <3>4, <4>1, <4>2, MoveReaches DEF Reaches
    <3>7. Moving(a, d)'
      BY <1>1, <1>3, <3>1, <3>4, <3>5, <3>6 DEF Moving
    <3> QED BY <1>7, <3>7 DEF Pressing
  <2> QED BY <1>1, <2>1, <2>2, <2>3 DEF Looking
<1> QED BY <1>1, <1>8, <1>9 DEF KeysInPlace, LockInPlace

(* An answer that is let in is to the menu that is up, and has its         *)
(* selection.                                                              *)
LEMMA LetInSteered ==
    ASSUME TuiTypes, NEW a \in Answers, NEW b \in Answers, Respond(b), NEW q \in Asked, LetIn(b, q), Steered(a),
           SheetsAreOfMenu'
    PROVE  Steered(a)'
<1>1. /\ UNCHANGED <<pty, screen, unseen, restarted, mixed>> /\ touched \subseteq touched'
      /\ DOMAIN ask = Answers /\ known' = Seen(Detected)
  BY DEF Respond, LetIn, terminal, TuiTypes, AskTypes
<1>2. CASE a # b
  <2>1. ask'[a] = ask[a] /\ handler'.req = b
    BY <1>1, <1>2 DEF LetIn, NoRequest
  <2> QED BY <1>1, <1>2, <2>1, SteeredStays
<1>3. CASE a = b
  <2>1. /\ handler' = [req |-> a, step |-> "look", id |-> q.sheet.id, keys |-> <<>>, row |-> None]
        /\ ask'[a] = q /\ Pending(known') /\ q.sheet.id = known'
    BY <1>1, <1>3 DEF LetIn, NoRequest
  <2>2. CASE pty # <<>>
    BY <1>3, <2>2 DEF LetIn, Steered
  <2>3. CASE pty = <<>>
    <3>1. known'.fp = Detected /\ Detected.live # None
      <4>1. known \in Reads /\ Detected \in Fps
        BY DetectedIsRead DEF TuiTypes, ReadTypes
      <4> QED BY <1>1, <2>1, <4>1, SeenIsRead DEF Pending
    <3>2. screen.menu # 0 /\ Detected.live = screen.look /\ Detected.sel = screen.sel
      BY <3>1, DetectedIsRead DEF Detected, TuiTypes
    <3>3. RightMenu(a)'
      <4>1. Shown(q.sheet)'
        BY <2>1 DEF Shown
      <4>2. q.sheet \in Sheets /\ known'.fp.live = screen'.look /\ screen'.menu # 0
        BY <1>1, <3>1, <3>2 DEF Asked
      <4>3. ~restarted' /\ ~unseen' => q.sheet.menu = screen'.menu
        BY <2>1, <4>1, <4>2 DEF SheetsAreOfMenu
      <4> QED BY <2>1, <4>2, <4>3 DEF RightMenu
    <3>4. Looking(a)'
      BY <1>1, <2>1, <2>3, <3>1, <3>2, <3>3 DEF Looking
    <3> QED BY <1>1, <2>1, <2>3, <3>4 DEF Steered, KeysInPlace, LockInPlace, AllPressedBy
  <2> QED BY <2>2, <2>3
<1> QED BY <1>2, <1>3

(* What an answer whose reading is its sheet's presses: one key, or the    *)
(* keys that lead from the selection to its option, and Enter.             *)
LEMMA KeysLead ==
    ASSUME NEW q \in Asked, q.sheet.id.fp.as = q.sheet.id.fp.live, q.sheet.id.fp.sel \in Options
    PROVE  LET keys == KeysFor(q.what, q.sheet.id, q.sheet.id.fp) IN
           \/ Len(keys) = 1 /\ (keys[1] = "Enter" => Wanted(q) = q.sheet.id.fp.sel)
           \/ \E d \in Moves, n \in Nat :
                 /\ Len(keys) = n + 1 /\ keys[n + 1] = "Enter" /\ \A j \in 1..n : keys[j] = d
                 /\ Wanted(q) \in Options
                 /\ (d = "Down" /\ q.sheet.id.fp.sel + n = Wanted(q)) \/ (d = "Up" /\ q.sheet.id.fp.sel = Wanted(q) + n)
<1> DEFINE what == q.what
           keys == KeysFor(what, q.sheet.id, q.sheet.id.fp)
<1>1. Options = 1..NumOptions /\ NumOptions \in Nat \ {0} /\ what \in Whats
  BY TuiBoundsAssumption DEF Options, Asked
<1>2. CASE what.do = "pick"
  <2>1. PICK t, s : t = what.opt /\ s = q.sheet.id.fp.sel
    OBVIOUS
  <2>2. t \in Options /\ s \in Options /\ Wanted(q) = t
    BY <1>1, <1>2, <2>1, ActionsAssumption DEF Whats, Wanted
  <2>3. t \in Nat /\ s \in Nat
    BY <1>1, <2>2
  <2>4. keys = Append(IF t >= s THEN Repeat("Down", t - s) ELSE Repeat("Up", s - t), "Enter")
    BY <1>2, <2>1 DEF KeysFor, Place, Selected
  <2> HIDE DEF keys
  <2>5. ASSUME NEW d \in Moves, NEW n \in Nat, keys = Append(Repeat(d, n), "Enter")
        PROVE  Len(keys) = n + 1 /\ keys[n + 1] = "Enter" /\ \A j \in 1..n : keys[j] = d
    <3>1. Repeat(d, n) \in Seq(AnswerKeys) /\ Len(Repeat(d, n)) = n /\ \A j \in 1..n : Repeat(d, n)[j] = d
      BY DEF Repeat, AnswerKeys, Moves
    <3>2. PICK r \in Seq(AnswerKeys) : r = Repeat(d, n)
      BY <3>1
    <3> QED BY <2>5, <3>1, <3>2 DEF AnswerKeys
  <2>6. CASE t >= s
    <3>1. t - s \in Nat /\ s + (t - s) = t /\ keys = Append(Repeat("Down", t - s), "Enter") /\ "Down" \in Moves
      BY <2>3, <2>4, <2>6 DEF Moves
    <3>2. Len(keys) = (t - s) + 1 /\ keys[(t - s) + 1] = "Enter" /\ \A j \in 1..(t - s) : keys[j] = "Down"
      BY <2>5, <3>1
    <3> QED BY <2>1, <2>2, <3>1, <3>2 DEF keys
  <2>7. CASE ~(t >= s)
    <3>1. s - t \in Nat /\ s = t + (s - t) /\ keys = Append(Repeat("Up", s - t), "Enter") /\ "Up" \in Moves
      BY <2>3, <2>4, <2>7 DEF Moves
    <3>2. Len(keys) = (s - t) + 1 /\ keys[(s - t) + 1] = "Enter" /\ \A j \in 1..(s - t) : keys[j] = "Up"
      BY <2>5, <3>1
    <3> QED BY <2>1, <2>2, <3>1, <3>2 DEF keys
  <2> QED BY <2>6, <2>7
<1>3. CASE what.do = "previous"
  BY <1>3 DEF KeysFor
<1>4. CASE what.do = "next"
  BY <1>4 DEF KeysFor
<1>5. CASE what.do = "cancel"
  BY <1>5 DEF KeysFor
<1>6. CASE what.do = "choose"
  BY <1>6 DEF KeysFor, Wanted
<1> QED BY <1>1, <1>2, <1>3, <1>4, <1>5, <1>6, ActionsAssumption DEF Whats

(* An answer that reads what its id was given for presses what leads from  *)
(* there to its option.                                                    *)
LEMMA ReadSteered ==
    ASSUME TuiTypes, NEW a \in Answers, NEW b \in Answers, ReadsDetected(b), Steered(a)
    PROVE  Steered(a)'
<1>1. /\ UNCHANGED <<pty, screen, unseen, restarted, ask, touched>> /\ mixed \subseteq mixed'
      /\ handler.req = b /\ handler.step = "look"
  BY DEF ReadsDetected, terminal
<1>2. CASE handler' = NoRequest
  BY <1>1, <1>2, SteeredStays, NobodyAsks DEF Requests
<1>3. ASSUME handler' # NoRequest
      PROVE  /\ handler'.req = b /\ handler'.step = "keys"
             /\ handler'.keys = KeysFor(ask[b].what, handler.id, known.fp)
             /\ Pending(known) /\ mixed' = IF known.fp = handler.id.fp THEN mixed ELSE mixed \cup {b}
  <2>1. handler' = [handler EXCEPT !.step = "keys", !.row = RowOf(handler.id),
                                   !.keys = KeysFor(ask[b].what, handler.id, known.fp)]
    BY <1>3 DEF ReadsDetected
  <2> QED BY <1>1, <1>3, <2>1 DEF ReadsDetected, TuiTypes, RequestTypes
<1>4. CASE handler' # NoRequest /\ a # b
  BY <1>1, <1>3, <1>4, SteeredStays
<1>5. CASE handler' # NoRequest /\ a = b
  <2> SUFFICES ASSUME a \notin touched' \cup mixed', Plain(a)' PROVE KeysInPlace(a)' /\ LockInPlace(a)'
    BY DEF Steered
  <2>1. KeysInPlace(a) /\ Looking(a) /\ Plain(a)
    BY <1>1, <1>5 DEF Steered, Plain, LockInPlace
  <2>2. known.fp = ask[a].sheet.id.fp /\ handler.id = ask[a].sheet.id /\ screen.sel = ask[a].sheet.id.fp.sel
    BY <1>3, <1>5, <2>1 DEF Looking
  <2>3. screen.sel \in Options
    BY <2>1, NothingIsRead DEF Looking, RightMenu, TuiTypes, ScreenTypes, Screens
  <2>4. PICK keys : keys = KeysFor(ask[a].what, ask[a].sheet.id, ask[a].sheet.id.fp)
    OBVIOUS
  <2>5. \/ Len(keys) = 1 /\ (keys[1] = "Enter" => Wanted(ask[a]) = screen.sel)
        \/ \E d \in Moves, n \in Nat :
              /\ Len(keys) = n + 1 /\ keys[n + 1] = "Enter" /\ \A j \in 1..n : keys[j] = d
              /\ Wanted(ask[a]) \in Options
              /\ (d = "Down" /\ screen.sel + n = Wanted(ask[a])) \/ (d = "Up" /\ screen.sel = Wanted(ask[a]) + n)
    BY <2>1, <2>2, <2>3, <2>4, KeysLead DEF Plain
  <2>6. handler'.keys = keys
    BY <1>3, <1>5, <2>2, <2>4
  <2>7. RightMenu(a)' /\ pty' = <<>>
    BY <1>1, <2>1, InPlaceStays DEF Looking
  <2>8. CASE Len(keys) = 1 /\ (keys[1] = "Enter" => Wanted(ask[a]) = screen.sel)
    <3>1. OnlyKey(a)'
      <4>1. handler'.keys[1] = "Enter" => Reaches("Down", 0, Wanted(ask[a]))'
        <5>1. screen.sel + 0 = screen.sel
          BY <2>3, TuiBoundsAssumption DEF Options
        <5>2. screen.sel = Wanted(ask[a]) => Reaches("Down", 0, Wanted(ask[a]))
          BY <2>3, <5>1 DEF Reaches
        <5>3. Reaches("Down", 0, Wanted(ask[a])) => Reaches("Down", 0, Wanted(ask[a]))'
          BY <1>1 DEF Reaches
        <5> QED BY <2>6, <2>8, <5>2, <5>3
      <4> QED BY <2>6, <2>7, <2>8, <4>1 DEF OnlyKey
    <3> QED BY <1>3, <1>5, <2>7, <3>1 DEF KeysInPlace, LockInPlace, AllPressedBy, Pressing
  <2>9. ASSUME NEW d \in Moves, NEW n \in Nat,
               Len(keys) = n + 1, keys[n + 1] = "Enter", \A j \in 1..n : keys[j] = d, Wanted(ask[a]) \in Options,
               (d = "Down" /\ screen.sel + n = Wanted(ask[a])) \/ (d = "Up" /\ screen.sel = Wanted(ask[a]) + n)
        PROVE  Moving(a, d)'
    <3>1. Len(pty') = 0 /\ Len(handler'.keys) = n + 1 /\ (n + 1) - 1 = n /\ 0 + n = n
      BY <2>6, <2>7, <2>9
    <3> QED BY <1>1, <2>6, <2>9, <3>1 DEF Moving, AllMove, Reaches
  <2>10. CASE \E d \in Moves : Moving(a, d)'
    BY <1>3, <1>5, <2>7, <2>10 DEF KeysInPlace, LockInPlace, AllPressedBy, Pressing
  <2> QED BY <2>5, <2>8, <2>9, <2>10
<1> QED BY <1>2, <1>4, <1>5

(* The keys of an answer are handled only in the menu it is for.           *)
LEMMA SteeredAway ==
    ASSUME TuiTypes, NEW a \in Answers, Steered(a), screen.menu = 0, a \notin touched \cup mixed, Plain(a)
    PROVE  NonePressedBy(a) /\ (handler.req = a => pty = <<>> /\ handler.step \notin {"look", "keys"})
<1>1. KeysInPlace(a) /\ LockInPlace(a) /\ ~RightMenu(a)
  BY DEF Steered, RightMenu
<1>2. NonePressedBy(a)
  BY <1>1 DEF KeysInPlace, KeyInPlace, NonePressedBy
<1>3. ASSUME handler.req = a PROVE pty = <<>> /\ handler.step \notin {"look", "keys"}
  <2>1. AllPressedBy(a) /\ handler.step \notin {"look", "keys"}
    BY <1>1, <1>3 DEF LockInPlace, Looking, Pressing
  <2>2. 1 \notin DOMAIN pty
    BY <1>2, <2>1 DEF AllPressedBy, NonePressedBy
  <2> QED BY <2>1, <2>2 DEF TuiTypes, InputTypes
<1> QED BY <1>2, <1>3

(* Without a menu, keys that are handled are not the answer's.             *)
LEMMA HandledElsewhere ==
    ASSUME TuiTypes, NEW a \in Answers, Steered(a), screen.menu = 0,
           pty # <<>>, pty' = Tail(pty), UNCHANGED <<ask, handler, touched, mixed>>
    PROVE  Steered(a)'
<1> SUFFICES ASSUME a \notin touched \cup mixed, Plain(a) PROVE Steered(a)'
  BY DEF Steered, Plain
<1>1. NonePressedBy(a) /\ handler.req # a /\ pty \in Seq(Inputs)
  BY SteeredAway DEF TuiTypes, InputTypes
<1>2. \A i \in DOMAIN pty' : i + 1 \in DOMAIN pty /\ pty'[i] = pty[i + 1]
  BY <1>1, FirstInput
<1>3. NonePressedBy(a)'
  BY <1>1, <1>2 DEF NonePressedBy, PressedBy
<1> QED BY <1>1, <1>3, KeysAreGone

(* What a menu handles leaves every answer steered. *)
LEMMA HandledInMenu ==
    ASSUME TuiTypes, NEW a \in Answers, Steered(a), HandlesInMenu
    PROVE  Steered(a)'
<1> SUFFICES ASSUME a \notin touched \cup mixed, Plain(a) PROVE Steered(a)'
  BY DEF Steered, Plain, HandlesInMenu
<1>1. /\ pty # <<>> /\ pty' = Tail(pty) /\ pty \in Seq(Inputs) /\ handler' = handler
      /\ KeysInPlace(a) /\ LockInPlace(a)
  BY DEF HandlesInMenu, TuiTypes, InputTypes, Steered
<1>2. PICK n : n = Len(pty)
  OBVIOUS
<1>3. /\ n \in Nat \ {0} /\ DOMAIN pty = 1..n /\ DOMAIN pty' = 1..(n - 1)
      /\ \A i \in 1..(n - 1) : pty'[i] = pty[i + 1]
      /\ Head(pty) = pty[1] /\ pty[1] \in Inputs
  BY <1>1, <1>2, FirstInput
<1>4. CASE Head(pty).by # a
  <2>1. NonePressedBy(a)
    BY <1>1, <1>3, <1>4 DEF KeysInPlace, KeyInPlace, NonePressedBy, PressedBy
  <2>2. NonePressedBy(a)'
    BY <1>3, <2>1 DEF NonePressedBy, PressedBy
  <2>3. handler.req # a
    BY <1>1, <1>3, <1>4 DEF LockInPlace, AllPressedBy, PressedBy
  <2> QED BY <1>1, <2>2, <2>3, KeysAreGone
<1>5. CASE Head(pty).by = a /\ Head(pty).key \in Moves
  BY <1>5, MoveInMenu
<1>6. CASE Head(pty).by = a /\ Head(pty).key \notin Moves
  <2>1. KeyInPlace(a, 1) /\ pty[1].key \in Leaves
    <3>1. pty[1].key # "text"
      BY <1>3, <1>6 DEF TuiTypes, InputTypes
    <3> QED BY <1>1, <1>3, <1>6, <3>1 DEF KeysInPlace, PressedBy, Inputs, AnswerKeys, Moves, Leaves
  <2>2. NonePressedBy(a)'
    <3>1. \A j \in 2..n : ~PressedBy(a, j)
      BY <1>3, <2>1 DEF KeyInPlace
    <3> QED BY <1>3, <3>1 DEF NonePressedBy, PressedBy
  <2>3. ASSUME handler.req = a PROVE pty' = <<>> /\ handler.step \notin {"look", "keys"}
    <3>1. /\ AllPressedBy(a)
          /\ handler.step = "look" => Looking(a)
          /\ handler.step = "keys" => Pressing(a)
      BY <1>1, <2>3 DEF LockInPlace
    <3>2. n = 1
      <4> SUFFICES ASSUME n # 1 PROVE FALSE
        OBVIOUS
      <4>1. 2 \in DOMAIN pty /\ 1 < 2
        BY <1>3
      <4>2. PressedBy(a, 2) /\ ~PressedBy(a, 2)
        BY <2>1, <3>1, <4>1 DEF AllPressedBy, KeyInPlace
      <4> QED BY <4>2
    <3>3. pty' = <<>>
      <4>1. pty' \in Seq(Inputs) /\ Len(pty') = 0
        BY <1>1, <1>2, <3>2, FirstInput
      <4> QED BY <4>1
    <3>4. ~Looking(a) /\ ~OnlyKey(a)
      BY <1>1 DEF Looking, OnlyKey
    <3>5. ASSUME NEW d \in Moves, Moving(a, d) PROVE FALSE
      <4>1. pty[1].key = d
        BY <1>2, <1>3, <3>5 DEF Moving, AllMove
      <4> QED BY <1>3, <1>6, <4>1
    <3> QED BY <3>1, <3>3, <3>4, <3>5 DEF Pressing
  <2> QED BY <1>1, <2>2, <2>3, KeysAreGone
<1> QED BY <1>4, <1>5, <1>6

(* An answer that is not under way has no keys and no lock. *)
LEMMA NotUnderWay ==
    ASSUME TuiTypes, NEW a \in Answers, a \notin UnderWay
    PROVE  NonePressedBy(a) /\ handler.req # a
BY DEF UnderWay, NonePressedBy, PressedBy, TuiTypes, InputTypes

(* Every step leaves every answer steered. *)
LEMMA SteeredStep ==
    ASSUME TuiTypes, [TuiNext]_tuiVars, SheetsAreOfMenu', CodexIsAsking, NEW a \in Answers, Steered(a)
    PROVE  Steered(a)'
<1>1. ASSUME UNCHANGED <<pty, screen, unseen, ask, touched, mixed>>, restarted => restarted',
             handler' = handler \/ handler'.req \notin Answers
      PROVE  Steered(a)'
  BY <1>1, SteeredStays
<1>2. NoRequest.req \notin Answers
  BY NobodyAsks DEF Requests
<1>3. CASE Polls \/ PollIsLate \/ PollEnds \/ TurnEnds
  BY <1>1, <1>3 DEF Polls, PollIsLate, PollEnds, TurnEnds, terminal, history
<1>4. CASE OwnerStartsAgain
  BY <1>1, <1>2, <1>4 DEF OwnerStartsAgain, terminal
<1>5. ASSUME NEW b \in Answers, Respond(b) PROVE Steered(a)'
  <2>1. CASE UNCHANGED <<ask, handler, touched>>
    BY <1>1, <1>5, <2>1 DEF Respond, terminal
  <2> QED BY <1>5, <2>1, RespondSteps, LetInSteered
<1>6. ASSUME NEW b \in Answers, ReadsDetected(b) PROVE Steered(a)'
  BY <1>6, ReadSteered
<1>7. ASSUME NEW b \in Answers, Presses(b) PROVE Steered(a)'
  <2>1. CASE b = a
    BY <1>7, <2>1, OwnKey
  <2>2. CASE b # a
    <3>1. PICK e \in Inputs : e = [key |-> Head(handler.keys), by |-> b]
      BY <1>7, PressedKey
    <3>2. e.by # a /\ pty' = Append(pty, e) /\ UNCHANGED <<screen, unseen, restarted, ask, touched, mixed>>
      BY <1>7, <2>2, <3>1 DEF Presses, history
    <3>3. handler'.req # a
      BY <1>7, <2>2 DEF Presses, TuiTypes, RequestTypes
    <3> QED BY <3>2, <3>3, OtherKey DEF TuiTypes, InputTypes
  <2> QED BY <2>1, <2>2
<1>8. ASSUME NEW b \in Answers, SeesChange(b) \/ SeesNoChange(b) PROVE Steered(a)'
  BY <1>1, <1>2, <1>8 DEF SeesChange, SeesNoChange, terminal, history
<1>9. ASSUME NEW c \in Commands, Begin(c) PROVE Steered(a)'
  <2>1. handler' = handler \/ handler'.req = c
    BY <1>9 DEF Begin, NoRequest
  <2> QED BY <1>1, <1>9, <2>1, RequestsAreApart DEF Begin, terminal, history
<1>10. ASSUME NEW c \in Commands, NotPlaced(c) \/ Completes(c) \/ Ambiguous(c) PROVE Steered(a)'
  BY <1>1, <1>2, <1>10 DEF NotPlaced, Completes, Ambiguous, Fails, terminal, history
<1>11. ASSUME NEW c \in Commands, SeesCommand(c) PROVE Steered(a)'
  <2>1. handler'.req = c
    BY <1>11 DEF SeesCommand, TuiTypes, RequestTypes
  <2> QED BY <1>1, <1>11, <2>1, RequestsAreApart DEF SeesCommand, terminal, history
<1>12. ASSUME NEW c \in Commands, Types(c) \/ PressesEnter(c) PROVE Steered(a)'
  <2>1. handler'.req = c /\ c # a
    BY <1>12, RequestsAreApart DEF Types, PressesEnter, TuiTypes, RequestTypes
  <2>2. PICK e \in Inputs : pty' = Append(pty, e) /\ e.by = c
    BY <1>12 DEF Types, PressesEnter, Inputs, Requests, AnswerKeys
  <2>3. UNCHANGED <<screen, unseen, restarted, ask, touched, mixed>>
    BY <1>12 DEF Types, PressesEnter, history
  <2> QED BY <2>1, <2>2, <2>3, OtherKey DEF TuiTypes, InputTypes
<1>13. CASE HandlesInMenu
  BY <1>13, HandledInMenu
<1>14. CASE HandlesInComposer
  BY <1>14, HandledElsewhere DEF HandlesInComposer
<1>15. CASE ShellHandles
  BY <1>15, HandledElsewhere DEF ShellHandles, CodexIsAsking, history
<1>16. ASSUME NEW look \in MenuLooks, CodexAsks(look) PROVE Steered(a)'
  <2>1. pty' = pty /\ handler' = handler /\ touched' = touched \cup UnderWay
    BY <1>16 DEF CodexAsks
  <2>2. CASE a \in UnderWay
    BY <2>1, <2>2 DEF Steered
  <2>3. CASE a \notin UnderWay
    <3>1. NonePressedBy(a)' /\ handler'.req # a
      BY <2>1, <2>3, NotUnderWay DEF NonePressedBy, PressedBy
    <3> QED BY <3>1, KeysAreGone
  <2> QED BY <2>2, <2>3
<1>17. ASSUME NEW key \in {"Down", "Enter", "text"}, PersonActs(key) PROVE Steered(a)'
  <2>1. handler' = handler /\ touched' = touched \cup UnderWay
    BY <1>17 DEF PersonActs
  <2>2. PICK e \in Inputs : pty' = Append(pty, e) /\ e.by # a
    <3>1. [key |-> key, by |-> Person] \in Inputs /\ Person # a
      BY RequestsAreApart DEF Inputs, AnswerKeys, Person
    <3> QED BY <1>17, <3>1 DEF PersonActs
  <2>3. CASE a \in UnderWay
    BY <2>1, <2>3 DEF Steered
  <2>4. CASE a \notin UnderWay
    <3>1. \A i \in DOMAIN pty' : (i \in DOMAIN pty /\ pty'[i] = pty[i]) \/ pty'[i] = e
      BY <2>2, LastInput DEF TuiTypes, InputTypes
    <3>2. NonePressedBy(a)' /\ handler'.req # a
      BY <2>1, <2>2, <2>4, <3>1, NotUnderWay DEF NonePressedBy, PressedBy
    <3> QED BY <3>2, KeysAreGone
  <2> QED BY <2>3, <2>4
<1>18. CASE UNCHANGED tuiVars
  BY <1>1, <1>18 DEF tuiVars, terminal, history
<1> QED BY <1>3, <1>4, <1>5, <1>6, <1>7, <1>8, <1>9, <1>10, <1>11, <1>12, <1>13, <1>14, <1>15, <1>16, <1>17, <1>18
        DEF TuiNext

(* Every step keeps clicks in place. *)
LEMMA ClicksStep ==
    TuiTypes /\ ClicksInPlace /\ [TuiNext]_tuiVars => ClicksInPlace'
<1> SUFFICES ASSUME TuiTypes, ClicksInPlace, [TuiNext]_tuiVars PROVE ClicksInPlace'
  OBVIOUS
<1>1. IdsGrow' /\ SheetsAreOfMenu' /\ CodexIsAsking' /\ PressedWereAsked'
  BY IdsStep, SheetsStep, AskingStep, PressedStep DEF ClicksInPlace
<1>2. \A a \in Answers : Steered(a)'
  BY <1>1, SteeredStep DEF ClicksInPlace
<1> QED BY <1>1, <1>2 DEF ClicksInPlace

(* What ChoosesWhatWasClicked says of a step. *)
ChoosesRight ==
    (screen.menu # 0 /\ pty # <<>> /\ pty' = Tail(pty)) =>
      \A a \in Answers : LET q == ask[a] IN
         (/\ Head(pty) = [key |-> "Enter", by |-> a] /\ a \notin touched \cup mixed
          /\ q.sheet.id.fp.as = q.sheet.id.fp.live) =>
             /\ screen.sel = Wanted(q)
             /\ screen.menu = q.sheet.menu \/ unseen \/ restarted

(* An answer's Enter chooses the option that was clicked, in the menu it   *)
(* was clicked on, but for the exceptions the property names (respond).    *)
THEOREM ClickIsChosen == TuiSpec => ChoosesWhatWasClicked
<1>1. TuiInit => ClicksInPlace
  <2>1. \A a \in Answers : TuiInit => Steered(a)
    BY NobodyAsks DEF TuiInit, Steered, KeysInPlace, LockInPlace, Requests
  <2>2. TuiInit => IdsGrow /\ SheetsAreOfMenu /\ CodexIsAsking /\ PressedWereAsked
    <3> SUFFICES ASSUME TuiInit PROVE IdsGrow /\ SheetsAreOfMenu /\ CodexIsAsking /\ PressedWereAsked
      OBVIOUS
    <3>1. ASSUME NEW s, Shown(s) PROVE FALSE
      BY <3>1, NothingIsAsked DEF TuiInit, Shown
    <3> QED BY <3>1, NothingIsRead DEF TuiInit, IdsGrow, SheetsAreOfMenu, CodexIsAsking, PressedWereAsked
  <2> QED BY <2>1, <2>2 DEF ClicksInPlace
<1>2. TuiTypes /\ ClicksInPlace /\ [TuiNext]_tuiVars => [ChoosesRight]_tuiVars
  <2> SUFFICES ASSUME TuiTypes, ClicksInPlace, screen.menu # 0, pty # <<>>, pty' = Tail(pty), NEW a \in Answers,
                      Head(pty) = [key |-> "Enter", by |-> a], a \notin touched \cup mixed,
                      ask[a].sheet.id.fp.as = ask[a].sheet.id.fp.live
               PROVE  /\ screen.sel = Wanted(ask[a])
                      /\ screen.menu = ask[a].sheet.menu \/ unseen \/ restarted
    BY DEF ChoosesRight
  <2>1. 1 \in DOMAIN pty /\ pty[1].by = a /\ pty[1].key = "Enter"
    BY FirstInput DEF TuiTypes, InputTypes
  <2>2. KeyInPlace(a, 1)
    BY <2>1 DEF ClicksInPlace, PressedWereAsked, Steered, Plain, KeysInPlace, PressedBy
  <2>3. PICK d \in Moves : Reaches(d, 1 - 1, Wanted(ask[a]))
    BY <2>1, <2>2 DEF KeyInPlace, EnterReaches
  <2>4. screen.sel \in Options /\ Wanted(ask[a]) \in Options
    BY <2>3, NothingIsRead DEF Reaches, TuiTypes, ScreenTypes, Screens
  <2>5. screen.sel = Wanted(ask[a])
    BY <2>3, <2>4, TuiBoundsAssumption DEF Reaches, Options
  <2> QED BY <2>2, <2>5 DEF KeyInPlace, RightMenu
<1>3. ChoosesWhatWasClicked <=> [][ChoosesRight]_tuiVars
  BY DEF ChoosesWhatWasClicked, ChoosesRight
<1> QED BY <1>1, <1>2, <1>3, ClicksStep, TuiTypeCorrect, PTL DEF TuiSpec
=============================================================================
