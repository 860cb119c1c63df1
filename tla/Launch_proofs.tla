--------------------------- MODULE Launch_proofs ---------------------------
(* Theorems about Launch, for every length of a command line and every      *)
(* MAX_PIPELINE, and about BuiltinRedirect: the two ways the shell runs a   *)
(* command with redirections.                                               *)
EXTENDS Launch, BuiltinRedirect, FiniteSetTheorems, TLAPS

---------------------------------------------------------------------------
(* The inductive invariant, in the parts the steps change.                 *)

\* Steps before the job is added, with the job in the table, and after Abort.
Forking   == {"pipe", "fork", "setpgid", "next"}
Preparing == {"gate", "job_add"} \cup Forking
Adding    == {"process_add", "handoff", "release", "publish"}
Undoing   == {"reap", "remove", "restore"}

\* How many children the parent has forked at each step.
CountOK ==
    /\ pc = "gate" => count = 0
    /\ pc \in {"pipe", "fork"} => count < n
    /\ pc \in {"setpgid", "next"} => count > 0
    /\ pc \in {"job_add", "wait"} \cup Adding => count = n
    /\ result = "ok" => count = n
    /\ result # "none" => pc = "return"
    /\ pc = "return" => result # "none"

\* The descriptors the parent may have open at each step.
FdsOK ==
    /\ pc = "pipe" => fds \subseteq GateEnds \cup {"pipe_fd"}
    /\ pc = "fork" /\ count + 1 >= n => fds \subseteq GateEnds \cup {"pipe_fd"}
    /\ pc = "setpgid" /\ count >= n => fds \subseteq GateEnds \cup {"pipe_fd"}
    /\ pc = "next" /\ count >= n => fds \subseteq GateEnds \cup {"pipe_fd"}
    /\ pc \in {"job_add"} \cup Adding => fds \subseteq {"gate_w"}
    /\ pc \notin {"job_add"} \cup Adding \cup Forking => fds = {}

\* Children exist in pipeline order; a group has only children in it.
BirthOK ==
    /\ \A i \in Children : cpc[i] = "unborn" <=> i > count
    /\ joined \subseteq Forked

\* At each step, the children that have a process group for certain.
GroupOK ==
    /\ pc \in {"gate", "pipe", "fork", "next", "job_add", "wait"} \cup Adding
         => joined = Forked
    /\ pc = "setpgid" => 1..(count - 1) \subseteq joined
    /\ result = "ok" => joined = Forked

\* What is in the table, and who has the terminal.
TableOK ==
    /\ pc \in Preparing => ~job /\ registered = 0 /\ ~handed
    /\ pc = "process_add" => job /\ ~handed
    /\ pc = "handoff" => job /\ registered = n /\ ~handed
    /\ pc \in {"release", "publish", "wait"} \/ result = "ok" => Published
    /\ pc = "restore" => ~job /\ registered = 0
    /\ result = "error" => ~job /\ registered = 0 /\ ~handed

\* The gate: no byte before the job is whole, no child past it without one.
GateOK ==
    /\ bytes <= sent /\ sent <= count
    /\ pc \in Preparing \cup {"process_add", "handoff"} => sent = 0
    /\ pc = "publish" \/ pc = "wait" \/ result = "ok" => sent = n
    /\ sent > 0 => Published \/ Living = {}
    /\ pc = "kill" /\ sent > 0 => Published
    /\ pc \in Undoing => Living = {}
    /\ pc \in {"remove", "restore"} \/ result = "error" =>
         \A i \in Children : cpc[i] \in {"unborn", "gone"}
    /\ \A i \in Children : cpc[i] \in {"go", "exec"} => sent > 0

\* Children that still need a byte.
Waiting == {i \in Children : cpc[i] \in {"born", "closed", "at_gate"}}

\* Every byte that is no longer in the gate let another child pass.
BytesOK == Cardinality(Waiting) + sent <= count + bytes

IndInv ==
    /\ TypeOK /\ CountOK /\ FdsOK /\ BirthOK /\ GroupOK /\ TableOK /\ GateOK
    /\ BytesOK

---------------------------------------------------------------------------
(* The invariant holds initially, and every step keeps its parts.          *)

LEMMA InitInv == Init => IndInv
  <1> SUFFICES ASSUME Init PROVE IndInv
    OBVIOUS
  <1> USE MaxCommandsAssumption DEF Init, Children
  <1>1. TypeOK
    <2>1. background \in BOOLEAN /\ job \in BOOLEAN /\ handed \in BOOLEAN
      BY Zenon
    <2> QED
      BY <2>1 DEF TypeOK, ParentSteps, ChildSteps
  <1>2. CountOK /\ FdsOK /\ BirthOK /\ GroupOK /\ TableOK
    BY DEF CountOK, FdsOK, BirthOK, GroupOK, TableOK, Published, Forked, Forking,
           Preparing, Adding
  <1>3. GateOK
    BY DEF GateOK, Forking, Preparing, Undoing, Living
  <1>4. BytesOK
    <2>1. Waiting = {}
      BY DEF Waiting
    <2> QED
      BY <2>1, FS_EmptySet DEF BytesOK
  <1> QED
    BY <1>1, <1>2, <1>3, <1>4 DEF IndInv

\* Every step keeps the types.
LEMMA NextTypeOK == ASSUME IndInv, [Next]_vars PROVE TypeOK'
  <1> USE MaxCommandsAssumption DEF IndInv, TypeOK, CountOK, BirthOK, GateOK, Children, Parent,
            Forked, Living, ParentSteps, ChildSteps, GateEnds, LoopFds,
            Forking, Preparing, Adding, Undoing
  <1>1. CASE GateCreate
    BY <1>1 DEF GateCreate, childvars, cmdline, published
  <1>2. CASE MakePipe
    <2>1. pc' \in ParentSteps /\ fds' \subseteq LoopFds /\ result' \in {"none", "ok", "error"}
      BY <1>2 DEF MakePipe, Abort, childvars, cmdline, published
    <2>2. count' \in 0..n' /\ bytes' \in 0..n' /\ sent' \in 0..n' /\ registered' \in 0..n'
      BY <1>2 DEF MakePipe, Abort, childvars, cmdline, published
    <2>3. writers' \subseteq Children \cup {Parent} /\ joined' \subseteq Children
      BY <1>2 DEF MakePipe, Abort, childvars, cmdline, published
    <2>4. cpc' \in [Children -> ChildSteps]
      BY <1>2 DEF MakePipe, Abort, childvars, cmdline, published
    <2>5. n' \in Children /\ background' \in BOOLEAN /\ job' \in BOOLEAN /\ handed' \in BOOLEAN
      BY <1>2, Zenon DEF MakePipe, Abort, childvars, cmdline, published
    <2> QED
      BY <2>1, <2>2, <2>3, <2>4, <2>5
  <1>3. CASE ForkChild
    <2>0. count + 1 \in Children
      BY <1>3 DEF ForkChild, Abort, LoopFds, cmdline, published
    <2>1. pc' \in ParentSteps /\ fds' \subseteq LoopFds /\ result' \in {"none", "ok", "error"}
      BY <1>3 DEF ForkChild, Abort, LoopFds, cmdline, published
    <2>2. count' \in 0..n' /\ bytes' \in 0..n' /\ sent' \in 0..n' /\ registered' \in 0..n'
      BY <1>3 DEF ForkChild, Abort, LoopFds, cmdline, published
    <2>3. writers' \subseteq Children \cup {Parent} /\ joined' \subseteq Children
      BY <1>3, <2>0 DEF ForkChild, Abort, LoopFds, cmdline, published
    <2>4. cpc' \in [Children -> ChildSteps]
      BY <1>3 DEF ForkChild, Abort, LoopFds, cmdline, published
    <2>5. n' \in Children /\ background' \in BOOLEAN /\ job' \in BOOLEAN /\ handed' \in BOOLEAN
      BY <1>3, Zenon DEF ForkChild, Abort, LoopFds, cmdline, published
    <2> QED
      BY <2>1, <2>2, <2>3, <2>4, <2>5
  <1>4. CASE SetPgid
    <2>0. count \in Children
      BY <1>4 DEF SetPgid, Abort, LoopFds, cmdline, published
    <2>1. pc' \in ParentSteps /\ fds' \subseteq LoopFds /\ result' \in {"none", "ok", "error"}
      BY <1>4 DEF SetPgid, Abort, LoopFds, cmdline, published
    <2>2. count' \in 0..n' /\ bytes' \in 0..n' /\ sent' \in 0..n' /\ registered' \in 0..n'
      BY <1>4 DEF SetPgid, Abort, LoopFds, cmdline, published
    <2>3. writers' \subseteq Children \cup {Parent} /\ joined' \subseteq Children
      BY <1>4, <2>0 DEF SetPgid, Abort, LoopFds, cmdline, published
    <2>4. cpc' \in [Children -> ChildSteps]
      BY <1>4 DEF SetPgid, Abort, LoopFds, cmdline, published
    <2>5. n' \in Children /\ background' \in BOOLEAN /\ job' \in BOOLEAN /\ handed' \in BOOLEAN
      BY <1>4, Zenon DEF SetPgid, Abort, LoopFds, cmdline, published
    <2> QED
      BY <2>1, <2>2, <2>3, <2>4, <2>5
  <1>5. CASE NextCommand
    BY <1>5 DEF NextCommand, childvars, cmdline, gatevars, published
  <1>6. CASE JobAdd
    BY <1>6 DEF JobAdd, Abort, childvars, cmdline
  <1>7. CASE ProcessAdd
    <2>1. pc' \in ParentSteps /\ fds' \subseteq LoopFds /\ result' \in {"none", "ok", "error"}
      BY <1>7 DEF ProcessAdd, Abort, childvars, cmdline
    <2>2. count' \in 0..n' /\ bytes' \in 0..n' /\ sent' \in 0..n' /\ registered' \in 0..n'
      BY <1>7 DEF ProcessAdd, Abort, childvars, cmdline
    <2>3. writers' \subseteq Children \cup {Parent} /\ joined' \subseteq Children
      BY <1>7 DEF ProcessAdd, Abort, childvars, cmdline
    <2>4. cpc' \in [Children -> ChildSteps]
      BY <1>7 DEF ProcessAdd, Abort, childvars, cmdline
    <2>5. n' \in Children /\ background' \in BOOLEAN /\ job' \in BOOLEAN /\ handed' \in BOOLEAN
      BY <1>7, Zenon DEF ProcessAdd, Abort, childvars, cmdline
    <2> QED
      BY <2>1, <2>2, <2>3, <2>4, <2>5
  <1>8. CASE Handoff
    BY <1>8 DEF Handoff, Abort, childvars, cmdline
  <1>9. CASE Release
    <2>1. pc' \in ParentSteps /\ fds' \subseteq LoopFds /\ result' \in {"none", "ok", "error"}
      BY <1>9 DEF Release, Abort, childvars, cmdline, gatevars, published
    <2>2. count' \in 0..n' /\ bytes' \in 0..n' /\ sent' \in 0..n' /\ registered' \in 0..n'
      BY <1>9 DEF Release, Abort, childvars, cmdline, gatevars, published
    <2>3. writers' \subseteq Children \cup {Parent} /\ joined' \subseteq Children
      BY <1>9 DEF Release, Abort, childvars, cmdline, gatevars, published
    <2>4. cpc' \in [Children -> ChildSteps]
      BY <1>9 DEF Release, Abort, childvars, cmdline, gatevars, published
    <2>5. n' \in Children /\ background' \in BOOLEAN /\ job' \in BOOLEAN /\ handed' \in BOOLEAN
      BY <1>9, Zenon DEF Release, Abort, childvars, cmdline, gatevars, published
    <2> QED
      BY <2>1, <2>2, <2>3, <2>4, <2>5
  <1>10. CASE Publish
    BY <1>10 DEF Publish, childvars, cmdline, published
  <1>11. CASE RollbackKill
    BY <1>11 DEF RollbackKill, cmdline, published
  <1>12. CASE RollbackReap
    BY <1>12 DEF RollbackReap, cmdline, gatevars, published
  <1>13. CASE Remove
    <2>1. pc' \in ParentSteps /\ fds' \subseteq LoopFds /\ result' \in {"none", "ok", "error"}
      BY <1>13 DEF Remove, childvars, cmdline, gatevars
    <2>2. count' \in 0..n' /\ bytes' \in 0..n' /\ sent' \in 0..n' /\ registered' \in 0..n'
      BY <1>13 DEF Remove, childvars, cmdline, gatevars
    <2>3. writers' \subseteq Children \cup {Parent} /\ joined' \subseteq Children
      BY <1>13 DEF Remove, childvars, cmdline, gatevars
    <2>4. cpc' \in [Children -> ChildSteps]
      BY <1>13 DEF Remove, childvars, cmdline, gatevars
    <2>5. n' \in Children /\ background' \in BOOLEAN /\ job' \in BOOLEAN /\ handed' \in BOOLEAN
      BY <1>13, Zenon DEF Remove, childvars, cmdline, gatevars
    <2> QED
      BY <2>1, <2>2, <2>3, <2>4, <2>5
  <1>14. CASE RestoreTerminal
    BY <1>14 DEF RestoreTerminal, childvars, cmdline, gatevars
  <1>15. CASE ParentCrashes
    BY <1>15 DEF ParentCrashes, childvars, cmdline, published
  <1>16. ASSUME NEW i \in Children, CloseGateWrite(i)
        PROVE  TypeOK'
    BY <1>16 DEF CloseGateWrite, parentvars
  <1>17. ASSUME NEW i \in Children, JoinGroup(i)
        PROVE  TypeOK'
    BY <1>17 DEF JoinGroup, parentvars, Dies
  <1>18. ASSUME NEW i \in Children, GateOpens(i)
        PROVE  TypeOK'
    BY <1>18 DEF GateOpens, parentvars
  <1>19. ASSUME NEW i \in Children, GateEof(i)
        PROVE  TypeOK'
    BY <1>19 DEF GateEof, parentvars, Dies
  <1>20. ASSUME NEW i \in Children, Exec(i)
        PROVE  TypeOK'
    BY <1>20 DEF Exec, parentvars, Dies
  <1>21. ASSUME NEW i \in Children, ChildKilled(i)
        PROVE  TypeOK'
    BY <1>21 DEF ChildKilled, parentvars, Dies
  <1>22. CASE UNCHANGED vars
    BY <1>22 DEF vars
  <1> QED
    BY <1>1, <1>2, <1>3, <1>4, <1>5, <1>6, <1>7, <1>8, <1>9, <1>10, <1>11,
       <1>12, <1>13, <1>14, <1>15, <1>16, <1>17, <1>18, <1>19, <1>20, <1>21,
       <1>22
       DEF Next, ParentStep, ChildStep, Ended

\* Every step keeps CountOK.
LEMMA NextCountOK == ASSUME IndInv, [Next]_vars PROVE CountOK'
  <1> USE MaxCommandsAssumption DEF IndInv, TypeOK, CountOK, Children, Forking, Preparing, Adding,
            Undoing
  <1>1. CASE GateCreate
    BY <1>1 DEF GateCreate, childvars, cmdline, published
  <1>2. CASE MakePipe
    BY <1>2 DEF MakePipe, Abort, childvars, cmdline, published
  <1>3. CASE ForkChild
    BY <1>3 DEF ForkChild, Abort, LoopFds, cmdline, published
  <1>4. CASE SetPgid
    BY <1>4 DEF SetPgid, Abort, LoopFds, cmdline, published
  <1>5. CASE NextCommand
    BY <1>5 DEF NextCommand, childvars, cmdline, gatevars, published
  <1>6. CASE JobAdd
    BY <1>6 DEF JobAdd, Abort, childvars, cmdline
  <1>7. CASE ProcessAdd
    BY <1>7 DEF ProcessAdd, Abort, childvars, cmdline
  <1>8. CASE Handoff
    BY <1>8 DEF Handoff, Abort, childvars, cmdline
  <1>9. CASE Release
    BY <1>9 DEF Release, Abort, childvars, cmdline, gatevars, published
  <1>10. CASE Publish
    BY <1>10 DEF Publish, childvars, cmdline, published
  <1>11. CASE RollbackKill
    BY <1>11 DEF RollbackKill, cmdline, published
  <1>12. CASE RollbackReap
    BY <1>12 DEF RollbackReap, cmdline, gatevars, published
  <1>13. CASE Remove
    BY <1>13 DEF Remove, childvars, cmdline, gatevars
  <1>14. CASE RestoreTerminal
    BY <1>14 DEF RestoreTerminal, childvars, cmdline, gatevars
  <1>15. CASE ParentCrashes
    BY <1>15 DEF ParentCrashes, childvars, cmdline, published
  <1>16. ASSUME NEW i \in Children, CloseGateWrite(i)
        PROVE  CountOK'
    BY <1>16 DEF CloseGateWrite, parentvars
  <1>17. ASSUME NEW i \in Children, JoinGroup(i)
        PROVE  CountOK'
    BY <1>17 DEF JoinGroup, parentvars, Dies
  <1>18. ASSUME NEW i \in Children, GateOpens(i)
        PROVE  CountOK'
    BY <1>18 DEF GateOpens, parentvars
  <1>19. ASSUME NEW i \in Children, GateEof(i)
        PROVE  CountOK'
    BY <1>19 DEF GateEof, parentvars, Dies
  <1>20. ASSUME NEW i \in Children, Exec(i)
        PROVE  CountOK'
    BY <1>20 DEF Exec, parentvars, Dies
  <1>21. ASSUME NEW i \in Children, ChildKilled(i)
        PROVE  CountOK'
    BY <1>21 DEF ChildKilled, parentvars, Dies
  <1>22. CASE UNCHANGED vars
    BY <1>22 DEF vars
  <1> QED
    BY <1>1, <1>2, <1>3, <1>4, <1>5, <1>6, <1>7, <1>8, <1>9, <1>10, <1>11,
       <1>12, <1>13, <1>14, <1>15, <1>16, <1>17, <1>18, <1>19, <1>20, <1>21,
       <1>22
       DEF Next, ParentStep, ChildStep, Ended

\* Every step keeps FdsOK: Abort closes what is open at its step.
LEMMA NextFdsOK == ASSUME IndInv, [Next]_vars PROVE FdsOK'
  <1> USE MaxCommandsAssumption DEF IndInv, TypeOK, CountOK, FdsOK, Children, GateEnds, Forking,
            Preparing, Adding, Undoing
  <1>1. CASE GateCreate
    BY <1>1 DEF GateCreate, childvars, cmdline, published
  <1>2. CASE MakePipe
    <2>1. CASE pc' = "fork"
      <3>1. count + 1 >= n => fds' = fds
        BY <1>2, <2>1 DEF MakePipe, Abort
      <3> QED
        BY <1>2, <2>1, <3>1 DEF MakePipe, Abort, childvars, cmdline, published
    <2>2. CASE pc' = "kill"
      <3>1. fds' = {}
        BY <1>2, <2>2 DEF MakePipe, Abort
      <3> QED
        BY <1>2, <2>2, <3>1 DEF MakePipe, Abort, childvars, cmdline, published
    <2> QED
      BY <1>2, <2>1, <2>2 DEF MakePipe, Abort
  <1>3. CASE ForkChild
    BY <1>3 DEF ForkChild, Abort, LoopFds, cmdline, published
  <1>4. CASE SetPgid
    BY <1>4 DEF SetPgid, Abort, LoopFds, cmdline, published
  <1>5. CASE NextCommand
    BY <1>5 DEF NextCommand, childvars, cmdline, gatevars, published
  <1>6. CASE JobAdd
    BY <1>6 DEF JobAdd, Abort, childvars, cmdline
  <1>7. CASE ProcessAdd
    BY <1>7 DEF ProcessAdd, Abort, childvars, cmdline
  <1>8. CASE Handoff
    BY <1>8 DEF Handoff, Abort, childvars, cmdline
  <1>9. CASE Release
    BY <1>9 DEF Release, Abort, childvars, cmdline, gatevars, published
  <1>10. CASE Publish
    BY <1>10 DEF Publish, childvars, cmdline, published
  <1>11. CASE RollbackKill
    BY <1>11 DEF RollbackKill, cmdline, published
  <1>12. CASE RollbackReap
    BY <1>12 DEF RollbackReap, cmdline, gatevars, published
  <1>13. CASE Remove
    BY <1>13 DEF Remove, childvars, cmdline, gatevars
  <1>14. CASE RestoreTerminal
    BY <1>14 DEF RestoreTerminal, childvars, cmdline, gatevars
  <1>15. CASE ParentCrashes
    BY <1>15 DEF ParentCrashes, childvars, cmdline, published
  <1>16. ASSUME NEW i \in Children, CloseGateWrite(i)
        PROVE  FdsOK'
    BY <1>16 DEF CloseGateWrite, parentvars
  <1>17. ASSUME NEW i \in Children, JoinGroup(i)
        PROVE  FdsOK'
    BY <1>17 DEF JoinGroup, parentvars, Dies
  <1>18. ASSUME NEW i \in Children, GateOpens(i)
        PROVE  FdsOK'
    BY <1>18 DEF GateOpens, parentvars
  <1>19. ASSUME NEW i \in Children, GateEof(i)
        PROVE  FdsOK'
    BY <1>19 DEF GateEof, parentvars, Dies
  <1>20. ASSUME NEW i \in Children, Exec(i)
        PROVE  FdsOK'
    BY <1>20 DEF Exec, parentvars, Dies
  <1>21. ASSUME NEW i \in Children, ChildKilled(i)
        PROVE  FdsOK'
    BY <1>21 DEF ChildKilled, parentvars, Dies
  <1>22. CASE UNCHANGED vars
    BY <1>22 DEF vars
  <1> QED
    BY <1>1, <1>2, <1>3, <1>4, <1>5, <1>6, <1>7, <1>8, <1>9, <1>10, <1>11,
       <1>12, <1>13, <1>14, <1>15, <1>16, <1>17, <1>18, <1>19, <1>20, <1>21,
       <1>22
       DEF Next, ParentStep, ChildStep, Ended

\* Every step keeps BirthOK.
LEMMA NextBirthOK == ASSUME IndInv, [Next]_vars PROVE BirthOK'
  <1> USE MaxCommandsAssumption DEF IndInv, TypeOK, CountOK, BirthOK, Children, Forked, Living,
            ChildSteps
  <1>1. CASE GateCreate
    BY <1>1 DEF GateCreate, childvars, cmdline, published
  <1>2. CASE MakePipe
    BY <1>2 DEF MakePipe, Abort, childvars, cmdline, published
  <1>3. CASE ForkChild
    BY <1>3 DEF ForkChild, Abort, LoopFds, cmdline, published
  <1>4. CASE SetPgid
    <2>1. count \in Children /\ count \in Forked
      BY <1>4 DEF SetPgid, TypeOK, CountOK, Children, Forked
    <2>2. CASE joined' = joined \cup {count} /\ pc' = "next"
      BY <1>4, <2>1, <2>2 DEF SetPgid, Abort, LoopFds, cmdline, published
    <2>3. CASE pc' = "kill" /\ joined' = joined
      BY <1>4, <2>3 DEF SetPgid, Abort, LoopFds, cmdline, published
    <2> QED
      BY <1>4, <2>2, <2>3 DEF SetPgid, Abort
  <1>5. CASE NextCommand
    BY <1>5 DEF NextCommand, childvars, cmdline, gatevars, published
  <1>6. CASE JobAdd
    BY <1>6 DEF JobAdd, Abort, childvars, cmdline
  <1>7. CASE ProcessAdd
    BY <1>7 DEF ProcessAdd, Abort, childvars, cmdline
  <1>8. CASE Handoff
    BY <1>8 DEF Handoff, Abort, childvars, cmdline
  <1>9. CASE Release
    BY <1>9 DEF Release, Abort, childvars, cmdline, gatevars, published
  <1>10. CASE Publish
    BY <1>10 DEF Publish, childvars, cmdline, published
  <1>11. CASE RollbackKill
    BY <1>11 DEF RollbackKill, cmdline, published
  <1>12. CASE RollbackReap
    BY <1>12 DEF RollbackReap, cmdline, gatevars, published
  <1>13. CASE Remove
    BY <1>13 DEF Remove, childvars, cmdline, gatevars
  <1>14. CASE RestoreTerminal
    BY <1>14 DEF RestoreTerminal, childvars, cmdline, gatevars
  <1>15. CASE ParentCrashes
    BY <1>15 DEF ParentCrashes, childvars, cmdline, published
  <1>16. ASSUME NEW i \in Children, CloseGateWrite(i)
        PROVE  BirthOK'
    BY <1>16 DEF CloseGateWrite, parentvars
  <1>17. ASSUME NEW i \in Children, JoinGroup(i)
        PROVE  BirthOK'
    <2>1. i \in Forked
      BY <1>17 DEF JoinGroup, BirthOK, Forked
    <2>2. CASE joined' = joined
      BY <1>17, <2>2 DEF JoinGroup, parentvars, Dies
    <2>3. CASE joined' = joined \cup {i}
      BY <1>17, <2>1, <2>3 DEF JoinGroup, parentvars, Dies
    <2> QED
      BY <1>17, <2>2, <2>3 DEF JoinGroup
  <1>18. ASSUME NEW i \in Children, GateOpens(i)
        PROVE  BirthOK'
    BY <1>18 DEF GateOpens, parentvars
  <1>19. ASSUME NEW i \in Children, GateEof(i)
        PROVE  BirthOK'
    BY <1>19 DEF GateEof, parentvars, Dies
  <1>20. ASSUME NEW i \in Children, Exec(i)
        PROVE  BirthOK'
    BY <1>20 DEF Exec, parentvars, Dies
  <1>21. ASSUME NEW i \in Children, ChildKilled(i)
        PROVE  BirthOK'
    BY <1>21 DEF ChildKilled, parentvars, Dies
  <1>22. CASE UNCHANGED vars
    BY <1>22 DEF vars
  <1> QED
    BY <1>1, <1>2, <1>3, <1>4, <1>5, <1>6, <1>7, <1>8, <1>9, <1>10, <1>11,
       <1>12, <1>13, <1>14, <1>15, <1>16, <1>17, <1>18, <1>19, <1>20, <1>21,
       <1>22
       DEF Next, ParentStep, ChildStep, Ended

\* Every step keeps GroupOK.
LEMMA NextGroupOK == ASSUME IndInv, [Next]_vars PROVE GroupOK'
  <1> USE MaxCommandsAssumption DEF IndInv, TypeOK, CountOK, BirthOK, GroupOK, Children, Forked,
            Forking, Preparing, Adding, Undoing
  <1>1. CASE GateCreate
    BY <1>1 DEF GateCreate, childvars, cmdline, published
  <1>2. CASE MakePipe
    BY <1>2 DEF MakePipe, Abort, childvars, cmdline, published
  <1>3. CASE ForkChild
    BY <1>3 DEF ForkChild, Abort, LoopFds, cmdline, published
  <1>4. CASE SetPgid
    <2>1. count \in Children /\ Forked = 1..(count - 1) \cup {count}
      BY <1>4 DEF SetPgid, TypeOK, CountOK, Children, Forked
    <2>2. CASE joined' = joined \cup {count} /\ pc' = "next"
      BY <1>4, <2>1, <2>2 DEF SetPgid, Abort, LoopFds, cmdline, published
    <2>3. CASE pc' = "kill" /\ joined' = joined
      BY <1>4, <2>3 DEF SetPgid, Abort, LoopFds, cmdline, published
    <2> QED
      BY <1>4, <2>2, <2>3 DEF SetPgid, Abort
  <1>5. CASE NextCommand
    BY <1>5 DEF NextCommand, childvars, cmdline, gatevars, published
  <1>6. CASE JobAdd
    BY <1>6 DEF JobAdd, Abort, childvars, cmdline
  <1>7. CASE ProcessAdd
    BY <1>7 DEF ProcessAdd, Abort, childvars, cmdline
  <1>8. CASE Handoff
    BY <1>8 DEF Handoff, Abort, childvars, cmdline
  <1>9. CASE Release
    BY <1>9 DEF Release, Abort, childvars, cmdline, gatevars, published
  <1>10. CASE Publish
    BY <1>10 DEF Publish, childvars, cmdline, published
  <1>11. CASE RollbackKill
    BY <1>11 DEF RollbackKill, cmdline, published
  <1>12. CASE RollbackReap
    BY <1>12 DEF RollbackReap, cmdline, gatevars, published
  <1>13. CASE Remove
    BY <1>13 DEF Remove, childvars, cmdline, gatevars
  <1>14. CASE RestoreTerminal
    BY <1>14 DEF RestoreTerminal, childvars, cmdline, gatevars
  <1>15. CASE ParentCrashes
    BY <1>15 DEF ParentCrashes, childvars, cmdline, published
  <1>16. ASSUME NEW i \in Children, CloseGateWrite(i)
        PROVE  GroupOK'
    BY <1>16 DEF CloseGateWrite, parentvars
  <1>17. ASSUME NEW i \in Children, JoinGroup(i)
        PROVE  GroupOK'
    <2>1. i \in Forked
      BY <1>17 DEF JoinGroup, BirthOK, Forked
    <2>2. CASE joined' = joined
      BY <1>17, <2>2 DEF JoinGroup, parentvars, Dies
    <2>3. CASE joined' = joined \cup {i}
      BY <1>17, <2>1, <2>3 DEF JoinGroup, parentvars, Dies
    <2> QED
      BY <1>17, <2>2, <2>3 DEF JoinGroup
  <1>18. ASSUME NEW i \in Children, GateOpens(i)
        PROVE  GroupOK'
    BY <1>18 DEF GateOpens, parentvars
  <1>19. ASSUME NEW i \in Children, GateEof(i)
        PROVE  GroupOK'
    BY <1>19 DEF GateEof, parentvars, Dies
  <1>20. ASSUME NEW i \in Children, Exec(i)
        PROVE  GroupOK'
    BY <1>20 DEF Exec, parentvars, Dies
  <1>21. ASSUME NEW i \in Children, ChildKilled(i)
        PROVE  GroupOK'
    BY <1>21 DEF ChildKilled, parentvars, Dies
  <1>22. CASE UNCHANGED vars
    BY <1>22 DEF vars
  <1> QED
    BY <1>1, <1>2, <1>3, <1>4, <1>5, <1>6, <1>7, <1>8, <1>9, <1>10, <1>11,
       <1>12, <1>13, <1>14, <1>15, <1>16, <1>17, <1>18, <1>19, <1>20, <1>21,
       <1>22
       DEF Next, ParentStep, ChildStep, Ended

\* Every step keeps TableOK.
LEMMA NextTableOK == ASSUME IndInv, [Next]_vars PROVE TableOK'
  <1> USE MaxCommandsAssumption DEF IndInv, TypeOK, CountOK, BirthOK, GroupOK, TableOK, Published,
            Children, Forked, Forking, Preparing, Adding, Undoing
  <1>1. CASE GateCreate
    BY <1>1 DEF GateCreate, childvars, cmdline, published
  <1>2. CASE MakePipe
    BY <1>2 DEF MakePipe, Abort, childvars, cmdline, published
  <1>3. CASE ForkChild
    BY <1>3 DEF ForkChild, Abort, LoopFds, cmdline, published
  <1>4. CASE SetPgid
    BY <1>4 DEF SetPgid, Abort, LoopFds, cmdline, published
  <1>5. CASE NextCommand
    BY <1>5 DEF NextCommand, childvars, cmdline, gatevars, published
  <1>6. CASE JobAdd
    BY <1>6 DEF JobAdd, Abort, childvars, cmdline
  <1>7. CASE ProcessAdd
    BY <1>7 DEF ProcessAdd, Abort, childvars, cmdline
  <1>8. CASE Handoff
    BY <1>8 DEF Handoff, Abort, childvars, cmdline
  <1>9. CASE Release
    BY <1>9 DEF Release, Abort, childvars, cmdline, gatevars, published
  <1>10. CASE Publish
    BY <1>10 DEF Publish, childvars, cmdline, published
  <1>11. CASE RollbackKill
    BY <1>11 DEF RollbackKill, cmdline, published
  <1>12. CASE RollbackReap
    BY <1>12 DEF RollbackReap, cmdline, gatevars, published
  <1>13. CASE Remove
    BY <1>13 DEF Remove, childvars, cmdline, gatevars
  <1>14. CASE RestoreTerminal
    BY <1>14 DEF RestoreTerminal, childvars, cmdline, gatevars
  <1>15. CASE ParentCrashes
    BY <1>15 DEF ParentCrashes, childvars, cmdline, published
  <1>16. ASSUME NEW i \in Children, CloseGateWrite(i)
        PROVE  TableOK'
    BY <1>16 DEF CloseGateWrite, parentvars
  <1>17. ASSUME NEW i \in Children, JoinGroup(i)
        PROVE  TableOK'
    <2>1. i \in Forked
      BY <1>17 DEF JoinGroup, BirthOK, Forked
    <2>2. CASE joined' = joined
      BY <1>17, <2>2 DEF JoinGroup, parentvars, Dies
    <2>3. CASE joined' = joined \cup {i}
      BY <1>17, <2>1, <2>3 DEF JoinGroup, parentvars, Dies
    <2> QED
      BY <1>17, <2>2, <2>3 DEF JoinGroup
  <1>18. ASSUME NEW i \in Children, GateOpens(i)
        PROVE  TableOK'
    BY <1>18 DEF GateOpens, parentvars
  <1>19. ASSUME NEW i \in Children, GateEof(i)
        PROVE  TableOK'
    BY <1>19 DEF GateEof, parentvars, Dies
  <1>20. ASSUME NEW i \in Children, Exec(i)
        PROVE  TableOK'
    BY <1>20 DEF Exec, parentvars, Dies
  <1>21. ASSUME NEW i \in Children, ChildKilled(i)
        PROVE  TableOK'
    BY <1>21 DEF ChildKilled, parentvars, Dies
  <1>22. CASE UNCHANGED vars
    BY <1>22 DEF vars
  <1> QED
    BY <1>1, <1>2, <1>3, <1>4, <1>5, <1>6, <1>7, <1>8, <1>9, <1>10, <1>11,
       <1>12, <1>13, <1>14, <1>15, <1>16, <1>17, <1>18, <1>19, <1>20, <1>21,
       <1>22
       DEF Next, ParentStep, ChildStep, Ended

\* Every step keeps GateOK.
LEMMA NextGateOK == ASSUME IndInv, [Next]_vars PROVE GateOK'
  <1> USE MaxCommandsAssumption DEF IndInv, TypeOK, CountOK, BirthOK, GroupOK, TableOK, GateOK,
            Published, Children, Forked, Living, ChildSteps, Forking,
            Preparing, Adding, Undoing
  <1>1. CASE GateCreate
    BY <1>1 DEF GateCreate, childvars, cmdline, published
  <1>2. CASE MakePipe
    BY <1>2 DEF MakePipe, Abort, childvars, cmdline, published
  <1>3. CASE ForkChild
    BY <1>3 DEF ForkChild, Abort, LoopFds, cmdline, published
  <1>4. CASE SetPgid
    BY <1>4 DEF SetPgid, Abort, LoopFds, cmdline, published
  <1>5. CASE NextCommand
    BY <1>5 DEF NextCommand, childvars, cmdline, gatevars, published
  <1>6. CASE JobAdd
    BY <1>6 DEF JobAdd, Abort, childvars, cmdline
  <1>7. CASE ProcessAdd
    BY <1>7 DEF ProcessAdd, Abort, childvars, cmdline
  <1>8. CASE Handoff
    BY <1>8 DEF Handoff, Abort, childvars, cmdline
  <1>9. CASE Release
    BY <1>9 DEF Release, Abort, childvars, cmdline, gatevars, published
  <1>10. CASE Publish
    BY <1>10 DEF Publish, childvars, cmdline, published
  <1>11. CASE RollbackKill
    BY <1>11 DEF RollbackKill, cmdline, published
  <1>12. CASE RollbackReap
    BY <1>12 DEF RollbackReap, cmdline, gatevars, published
  <1>13. CASE Remove
    BY <1>13 DEF Remove, childvars, cmdline, gatevars
  <1>14. CASE RestoreTerminal
    BY <1>14 DEF RestoreTerminal, childvars, cmdline, gatevars
  <1>15. CASE ParentCrashes
    BY <1>15 DEF ParentCrashes, childvars, cmdline, published
  <1>16. ASSUME NEW i \in Children, CloseGateWrite(i)
        PROVE  GateOK'
    BY <1>16 DEF CloseGateWrite, parentvars
  <1>17. ASSUME NEW i \in Children, JoinGroup(i)
        PROVE  GateOK'
    <2>1. i \in Forked
      BY <1>17 DEF JoinGroup, BirthOK, Forked
    <2>2. CASE joined' = joined
      BY <1>17, <2>2 DEF JoinGroup, parentvars, Dies
    <2>3. CASE joined' = joined \cup {i}
      BY <1>17, <2>1, <2>3 DEF JoinGroup, parentvars, Dies
    <2> QED
      BY <1>17, <2>2, <2>3 DEF JoinGroup
  <1>18. ASSUME NEW i \in Children, GateOpens(i)
        PROVE  GateOK'
    BY <1>18 DEF GateOpens, parentvars
  <1>19. ASSUME NEW i \in Children, GateEof(i)
        PROVE  GateOK'
    BY <1>19 DEF GateEof, parentvars, Dies
  <1>20. ASSUME NEW i \in Children, Exec(i)
        PROVE  GateOK'
    BY <1>20 DEF Exec, parentvars, Dies
  <1>21. ASSUME NEW i \in Children, ChildKilled(i)
        PROVE  GateOK'
    BY <1>21 DEF ChildKilled, parentvars, Dies
  <1>22. CASE UNCHANGED vars
    BY <1>22 DEF vars
  <1> QED
    BY <1>1, <1>2, <1>3, <1>4, <1>5, <1>6, <1>7, <1>8, <1>9, <1>10, <1>11,
       <1>12, <1>13, <1>14, <1>15, <1>16, <1>17, <1>18, <1>19, <1>20, <1>21,
       <1>22
       DEF Next, ParentStep, ChildStep, Ended

\* Waiting is finite, and so is every part of it.
LEMMA WaitingFinite ==
    ASSUME TypeOK
    PROVE  /\ IsFiniteSet(Waiting) /\ Cardinality(Waiting) \in Nat
           /\ \A S \in SUBSET Waiting : Cardinality(S) \in Nat
                                        /\ Cardinality(S) <= Cardinality(Waiting)
  <1>1. IsFiniteSet(Children)
    BY MaxCommandsAssumption, FS_Interval DEF Children
  <1>2. IsFiniteSet(Waiting)
    BY <1>1, FS_Subset DEF Waiting
  <1> QED
    BY <1>2, FS_Subset, FS_CardinalityType

\* Every step keeps BytesOK: a child leaves Waiting with a byte or dead.
LEMMA NextBytesOK == ASSUME IndInv, [Next]_vars PROVE BytesOK'
  <1> USE MaxCommandsAssumption, WaitingFinite DEF IndInv, BytesOK
  <1>0. count \in Nat /\ sent \in Nat /\ bytes \in Nat /\ TypeOK /\ n \in Nat
    BY DEF TypeOK, Children
  <1>1. ASSUME Waiting' \subseteq Waiting, UNCHANGED <<count, sent, bytes>>
        PROVE  BytesOK'
    BY <1>0, <1>1
  <1>2. ASSUME UNCHANGED <<cpc, count, sent, bytes>>
        PROVE  BytesOK'
    <2>1. Waiting' = Waiting
      BY <1>2 DEF Waiting
    <2> QED
      BY <1>1, <1>2, <2>1
  <1>3. CASE GateCreate \/ MakePipe \/ SetPgid \/ NextCommand \/ JobAdd
    BY <1>3, <1>2 DEF GateCreate, MakePipe, SetPgid, NextCommand, JobAdd,
                      childvars, gatevars
  <1>4. CASE ProcessAdd \/ Handoff \/ Publish
    BY <1>4, <1>2 DEF ProcessAdd, Handoff, Publish, childvars
  <1>5. CASE Remove \/ RestoreTerminal \/ ParentCrashes \/ UNCHANGED vars
    BY <1>5, <1>2 DEF Remove, RestoreTerminal, ParentCrashes, vars, childvars,
                      gatevars
  <1>6. CASE ForkChild
    <2>1. CASE UNCHANGED <<count, cpc>>
      BY <1>6, <2>1, <1>2 DEF ForkChild
    <2>2. CASE count' = count + 1 /\ cpc' = [cpc EXCEPT ![count + 1] = "born"]
      <3>1. Waiting' = Waiting \cup {count + 1}
        BY <1>6, <2>2 DEF ForkChild, Waiting, TypeOK, CountOK, Children
      <3>2. count + 1 \notin Waiting
        BY <1>0 DEF Waiting, BirthOK, Children
      <3>3. Cardinality(Waiting') = Cardinality(Waiting) + 1
        BY <1>0, <3>1, <3>2, FS_AddElement
      <3> QED
        BY <1>0, <1>6, <2>2, <3>3 DEF ForkChild
    <2> QED
      BY <1>6, <2>1, <2>2 DEF ForkChild
  <1>7. CASE Release
    <2>1. Waiting' = Waiting
      BY <1>7 DEF Release, Waiting, childvars
    <2> QED
      BY <1>0, <1>7, <2>1 DEF Release, gatevars
  <1>8. CASE RollbackKill \/ RollbackReap
    <2>1. Waiting' \subseteq Waiting
      BY <1>8 DEF RollbackKill, RollbackReap, Waiting
    <2> QED
      BY <1>1, <1>8, <2>1 DEF RollbackKill, RollbackReap, gatevars
  <1>9. ASSUME NEW i \in Children,
               \/ CloseGateWrite(i) \/ JoinGroup(i) \/ GateEof(i) \/ Exec(i)
               \/ ChildKilled(i)
        PROVE  BytesOK'
    <2>1. Waiting' \subseteq Waiting
      BY <1>9 DEF CloseGateWrite, JoinGroup, GateEof, Exec, ChildKilled, Dies,
                  Waiting, TypeOK
    <2>2. UNCHANGED <<count, sent, bytes>>
      BY <1>9 DEF CloseGateWrite, JoinGroup, GateEof, Exec, ChildKilled,
                  parentvars
    <2> QED
      BY <1>1, <2>1, <2>2
  <1>10. ASSUME NEW i \in Children, GateOpens(i)
         PROVE  BytesOK'
    <2>1. Waiting' = Waiting \ {i} /\ i \in Waiting
      BY <1>10 DEF GateOpens, Waiting, TypeOK
    <2>2. Cardinality(Waiting') = Cardinality(Waiting) - 1
      BY <1>0, <2>1, FS_RemoveElement
    <2> QED
      BY <1>0, <1>10, <2>2 DEF GateOpens, parentvars
  <1> QED
    BY <1>3, <1>4, <1>5, <1>6, <1>7, <1>8, <1>9, <1>10
       DEF Next, ParentStep, ChildStep, Ended

---------------------------------------------------------------------------
(* The invariants of the runs.                                             *)

\* IndInv holds in every reachable state.
THEOREM Inductive == Spec => []IndInv
  <1>1. IndInv /\ [Next]_vars => IndInv'
    BY NextTypeOK, NextCountOK, NextFdsOK, NextBirthOK, NextGroupOK,
       NextTableOK, NextGateOK, NextBytesOK DEF IndInv
  <1> QED
    BY InitInv, <1>1, PTL DEF Spec

\* The variables of a launch keep their types; in particular the gate never
\* holds more bytes than the command line has commands.
THEOREM TypeCorrect == Spec => []TypeOK
  BY Inductive, PTL DEF IndInv

\* Every return path of execute_single and execute_pipeline has closed the
\* descriptors of the launch, whichever call failed and however long the line.
THEOREM DescriptorsClosed == Spec => []NoDescriptorLeak
  <1>1. IndInv => NoDescriptorLeak
    BY DEF IndInv, FdsOK, NoDescriptorLeak, Adding, Forking
  <1> QED
    BY Inductive, <1>1, PTL

\* A job that is waited for, or runs in the background, has all its processes,
\* and there is a byte in the gate for each that has not passed it.
THEOREM GateServesAll == Spec => []NobodyLeftAtGate
  <1>1. IndInv => NobodyLeftAtGate
    <2> SUFFICES ASSUME IndInv, pc = "wait" \/ (pc = "return" /\ result = "ok")
                 PROVE  /\ registered = n /\ \A i \in 1..n : cpc[i] # "unborn"
                        /\ Cardinality(Waiting) <= bytes
      BY DEF NobodyLeftAtGate, Waiting
    <2>1. count = n /\ sent = n /\ registered = n
      BY DEF IndInv, CountOK, GateOK, TableOK, Published
    <2>2. n \in Nat /\ bytes \in Nat /\ 1..n \subseteq Children
      BY MaxCommandsAssumption DEF IndInv, TypeOK, Children
    <2>3. \A i \in 1..n : cpc[i] # "unborn"
      BY <2>1, <2>2 DEF IndInv, BirthOK
    <2>4. Cardinality(Waiting) <= bytes
      BY <2>1, <2>2, WaitingFinite DEF IndInv, BytesOK
    <2> QED
      BY <2>1, <2>3, <2>4
  <1> QED
    BY Inductive, <1>1, PTL

---------------------------------------------------------------------------
(* Launch implements AtomicLaunch.                                         *)

\* The values AtomicLaunch gives to running and outcome.
Running == {i \in Children : cpc[i] = "exec"}
Outcome == IF pc = "wait" THEN "ok" ELSE result

\* Nothing is left of the command line.
Absent ==
    /\ ~job /\ registered = 0 /\ ~handed
    /\ \A i \in Children : cpc[i] \in {"unborn", "gone"}

\* Entry is "whole" exactly for a published job, and "absent" for nothing.
EntryOK ==
    /\ Entry \in {"absent", "partial", "whole"}
    /\ Entry = "whole" <=> Published
    /\ Absent /\ ~Published => Entry = "absent"

LEMMA EntryCases == EntryOK
  <1> USE DEF EntryOK
  <1>1. CASE Published
    BY <1>1 DEF Entry, Published
  <1>2. CASE ~Published /\ Absent
    BY <1>2 DEF Entry, Absent
  <1>3. CASE ~Published /\ ~Absent
    BY <1>3 DEF Entry, Absent
  <1> QED
    BY <1>1, <1>2, <1>3

\* The same after a step.
LEMMA EntryCasesPrime == EntryOK'
  BY EntryCases, PTL

\* Entry depends on the children, the table and the terminal only.
LEMMA SameEntry ==
    ASSUME UNCHANGED <<n, background, count, cpc, joined, job, registered, handed>>
    PROVE  Entry' = Entry
  BY DEF Entry, Published, Forked

\* A step that leaves them, the gate and the result alone is a stutter.
LEMMA Stutter ==
    ASSUME UNCHANGED <<n, background, count, cpc, joined, job, registered, handed>>,
           sent' > 0 <=> sent > 0, Outcome' = Outcome
    PROVE  UNCHANGED Atomic!vars
  <1>1. Entry' = Entry
    BY SameEntry
  <1>2. Running' = Running
    BY DEF Running
  <1>3. (sent > 0)' = (sent > 0)
    OBVIOUS
  <1> QED
    BY <1>1, <1>2, <1>3 DEF Atomic!vars, Running, Outcome

\* Before the gate is open and the launch has returned, anything may happen to
\* the entry as long as no program runs.
LEMMA IsPrepare ==
    ASSUME TypeOK, GateOK, sent = 0, sent' = 0, Outcome = "none",
           Outcome' = "none", Running' = {}
    PROVE  Atomic!Prepare
  <1>1. Running = {}
    BY DEF Running, GateOK
  <1>2. (sent > 0) = FALSE /\ (sent > 0)' = FALSE
    OBVIOUS
  <1>3. Entry' \in Atomic!Entries
    BY EntryCasesPrime DEF EntryOK, Atomic!Entries
  <1> QED
    BY <1>1, <1>2, <1>3 DEF Atomic!Prepare, Running, Outcome

\* With the job published, programs that end are End.
LEMMA IsEnd ==
    ASSUME Entry' = Entry, sent' = sent, Outcome' = Outcome, Running' \subseteq Running
    PROVE  Atomic!End
  BY DEF Atomic!End, Running, Outcome

\* A child's step, whichever: it starts its program, ends, or goes on.
LEMMA ChildSimulation ==
    ASSUME IndInv, IndInv', NEW i \in Children, ChildStep(i) \/ ChildKilled(i)
    PROVE  Atomic!Next
  <1> USE DEF IndInv
  <1>1. UNCHANGED parentvars /\ Outcome' = Outcome
    BY DEF ChildStep, ChildKilled, CloseGateWrite, JoinGroup, GateOpens, GateEof,
           Exec, parentvars, Outcome
  <1>2. i \in Living /\ i \in Forked
    BY DEF ChildStep, ChildKilled, CloseGateWrite, JoinGroup, GateOpens, GateEof,
           Exec, Living, BirthOK, Forked, TypeOK, Children
  <1>3. joined' \in {joined, joined \cup {i}}
    BY DEF ChildStep, ChildKilled, CloseGateWrite, JoinGroup, GateOpens, GateEof,
           Exec
  <1>4. Outcome \in {"none", "ok"}
    BY <1>2 DEF Outcome, TypeOK, GateOK, Living
  <1>5. CASE sent = 0
    <2>1. Running' = {}
      BY <1>1, <1>5 DEF Running, GateOK, parentvars
    <2>2. Outcome = "none"
      BY <1>4, <1>5, MaxCommandsAssumption DEF Outcome, GateOK, TypeOK, Children
    <2>3. Atomic!Prepare
      BY <1>1, <1>5, <2>1, <2>2, IsPrepare DEF parentvars
    <2> QED
      BY <2>3 DEF Atomic!Next
  <1>6. CASE sent > 0
    <2>1. Published
      BY <1>2, <1>6 DEF GateOK
    <2>2. Published'
      BY <1>1, <1>2, <1>3, <2>1 DEF Published, parentvars, Forked
    <2>3. Entry = "whole" /\ Entry' = "whole"
      BY <2>1, <2>2, EntryCases, EntryCasesPrime DEF EntryOK
    <2>4. CASE Running' \subseteq Running
      BY <1>1, <2>3, <2>4, IsEnd DEF parentvars, Atomic!Next
    <2>5. CASE Running' = Running \cup {i}
      <3>1. (sent > 0) = TRUE /\ (sent > 0)' = TRUE
        BY <1>1, <1>6 DEF parentvars
      <3>2. Atomic!Run(i)
        BY <1>1, <1>4, <2>3, <2>5, <3>1 DEF Atomic!Run, Running, Outcome
      <3> QED
        BY <3>2 DEF Atomic!Next
    <2>6. Running' \subseteq Running \/ Running' = Running \cup {i}
      BY DEF ChildStep, ChildKilled, CloseGateWrite, JoinGroup, GateOpens,
             GateEof, Exec, Dies, Running, TypeOK
    <2> QED
      BY <2>4, <2>5, <2>6
  <1> QED
    BY <1>5, <1>6 DEF TypeOK

\* Every step of Launch is a step of AtomicLaunch, or none.
LEMMA Simulation ==
    ASSUME IndInv, IndInv', [Next]_vars
    PROVE  [Atomic!Next]_(Atomic!vars)
  <1> USE MaxCommandsAssumption DEF IndInv
  <1>0. n \in Nat \ {0} /\ count \in Nat /\ sent \in Nat
    BY DEF TypeOK, Children
  <1>1. CASE GateCreate
    <2>1. CASE result' = "error"
      <3>1. Absent' /\ ~Published'
        BY <1>0, <1>1 DEF GateCreate, CountOK, TableOK, Preparing, BirthOK, TypeOK,
                    Children, Absent, Published, cmdline, childvars, published
      <3>2. Running = {} /\ Running' = {}
        BY <1>1 DEF GateCreate, GateOK, Preparing, Running, childvars
      <3>3. Outcome = "none" /\ Outcome' = "error"
        BY <1>1, <2>1 DEF GateCreate, CountOK, TypeOK, Outcome
      <3>4. (sent > 0)' = (sent > 0)
        BY <1>1 DEF GateCreate
      <3>5. Atomic!Fail
        BY <3>1, <3>2, <3>3, <3>4, EntryCasesPrime DEF EntryOK, Atomic!Fail, Running, Outcome
      <3> QED
        BY <3>5 DEF Atomic!Next
    <2>2. CASE result' = result
      <3>1. Outcome' = Outcome
        BY <1>1, <2>2 DEF GateCreate, Outcome, CountOK
      <3> QED
        BY <1>1, <3>1, Stutter DEF GateCreate, cmdline, childvars, published
    <2> QED
      BY <1>1, <2>1, <2>2 DEF GateCreate
  <1>2. CASE MakePipe \/ NextCommand \/ ParentCrashes
    <2>1. Outcome' = Outcome
      BY <1>2 DEF MakePipe, NextCommand, ParentCrashes, Abort, Outcome
    <2> QED
      BY <1>2, <2>1, Stutter DEF MakePipe, NextCommand, ParentCrashes, cmdline,
                                 childvars, published, gatevars
  <1>3. CASE ForkChild \/ SetPgid \/ JobAdd \/ ProcessAdd \/ Handoff
    <2>1. sent = 0 /\ sent' = 0
      BY <1>3 DEF ForkChild, SetPgid, JobAdd, ProcessAdd, Handoff, GateOK,
                  Preparing, Forking
    <2>2. Outcome = "none" /\ Outcome' = "none"
      BY <1>3 DEF ForkChild, SetPgid, JobAdd, ProcessAdd, Handoff, Abort, CountOK,
                  TypeOK, Outcome
    <2>3. Running' = {}
      BY <2>1 DEF Running, GateOK
    <2> QED
      BY <2>1, <2>2, <2>3, IsPrepare DEF Atomic!Next
  <1>4. CASE Release
    <2>1. Outcome = "none" /\ Outcome' = Outcome
      BY <1>4 DEF Release, Abort, CountOK, TypeOK, Outcome
    <2>2. UNCHANGED <<n, background, count, cpc, joined, job, registered, handed>>
      BY <1>4 DEF Release, cmdline, childvars, published
    <2>3. CASE sent = 0 /\ sent' = 1
      <3>1. Entry = "whole" /\ Entry' = Entry
        BY <1>4, <2>2, EntryCases, SameEntry DEF EntryOK, Release, TableOK
      <3>2. (sent > 0) = FALSE /\ (sent > 0)' = TRUE
        BY <2>3
      <3>3. Running' = Running
        BY <2>2 DEF Running
      <3>4. Atomic!OpenGate
        BY <2>1, <3>1, <3>2, <3>3 DEF Atomic!OpenGate, Running, Outcome
      <3> QED
        BY <3>4 DEF Atomic!Next
    <2>4. CASE sent > 0 \/ sent' = sent
      <3>1. sent' > 0 <=> sent > 0
        BY <1>0, <1>4, <2>4 DEF Release, gatevars
      <3> QED
        BY <2>1, <2>2, <3>1, Stutter
    <2> QED
      BY <1>0, <1>4, <2>3, <2>4 DEF Release, gatevars
  <1>5. CASE Publish
    <2>1. Entry = "whole" /\ Entry' = Entry
      BY <1>5, EntryCases, SameEntry DEF EntryOK, Publish, TableOK, cmdline, childvars,
                                         published
    <2>2. Outcome = "none" /\ Outcome' = "ok"
      BY <1>5 DEF Publish, CountOK, TypeOK, Outcome
    <2>3. (sent > 0) = TRUE /\ (sent > 0)' = TRUE
      BY <1>0, <1>5 DEF Publish, GateOK
    <2>4. Running' = Running
      BY <1>5 DEF Publish, Running, childvars
    <2>5. Atomic!Succeed
      BY <2>1, <2>2, <2>3, <2>4 DEF Atomic!Succeed, Running, Outcome
    <2> QED
      BY <2>5 DEF Atomic!Next
  <1>6. CASE RollbackKill \/ RollbackReap
    <2>1. Outcome = "none" /\ Outcome' = "none" /\ sent' = sent
      BY <1>6 DEF RollbackKill, RollbackReap, CountOK, TypeOK, Outcome, gatevars
    <2>2. Running' = {}
      BY <1>6 DEF RollbackKill, RollbackReap, GateOK, Undoing, Living, Running
    <2>3. CASE sent = 0
      BY <2>1, <2>2, <2>3, IsPrepare DEF Atomic!Next
    <2>4. CASE sent > 0 /\ Published
      <3>1. Published'
        BY <1>6, <2>4 DEF RollbackKill, RollbackReap, Published, Forked, cmdline,
                          published
      <3>2. Entry' = Entry
        BY <2>4, <3>1, EntryCases, EntryCasesPrime DEF EntryOK
      <3> QED
        BY <2>1, <2>2, <3>2, IsEnd DEF Atomic!Next
    <2>5. CASE sent > 0 /\ ~Published
      <3>1. pc = "reap" /\ RollbackReap /\ Running = {}
        BY <1>6, <2>5 DEF RollbackKill, RollbackReap, GateOK, Undoing, Living, Running
      <3>2. ~Published'
        BY <2>5, <3>1 DEF RollbackReap, Published, Forked, cmdline, published
      <3>3. (sent > 0) = TRUE /\ (sent > 0)' = TRUE
        BY <2>1, <2>5
      <3>4. Atomic!Withdraw
        BY <2>1, <2>2, <3>1, <3>2, <3>3, EntryCasesPrime
           DEF EntryOK, Atomic!Withdraw, Atomic!Entries, Running, Outcome
      <3> QED
        BY <3>4 DEF Atomic!Next
    <2> QED
      BY <1>0, <2>3, <2>4, <2>5
  <1>7. CASE Remove
    <2>1. Outcome = "none" /\ Outcome' = "none" /\ sent' = sent
      BY <1>7 DEF Remove, CountOK, TypeOK, Outcome, gatevars
    <2>2. Running = {} /\ Running' = {}
      BY <1>7 DEF Remove, GateOK, Running, childvars
    <2>3. CASE sent = 0
      BY <2>1, <2>2, <2>3, IsPrepare DEF Atomic!Next
    <2>4. CASE sent > 0
      <3>1. ~Published'
        BY <1>7 DEF Remove, Published
      <3>2. (sent > 0) = TRUE /\ (sent > 0)' = TRUE
        BY <2>1, <2>4
      <3>3. Atomic!Withdraw
        BY <2>1, <2>2, <3>1, <3>2, EntryCasesPrime
           DEF EntryOK, Atomic!Withdraw, Atomic!Entries, Running, Outcome
      <3> QED
        BY <3>3 DEF Atomic!Next
    <2> QED
      BY <1>0, <2>3, <2>4
  <1>8. CASE RestoreTerminal
    <2>1. Outcome = "none" /\ Outcome' = "error" /\ sent' = sent
      BY <1>8 DEF RestoreTerminal, CountOK, TypeOK, Outcome, gatevars
    <2>2. Running = {} /\ Running' = {}
      BY <1>8 DEF RestoreTerminal, GateOK, Running, childvars
    <2>3. Absent' /\ ~Published'
      BY <1>8 DEF RestoreTerminal, TableOK, GateOK, Absent, Published, childvars
    <2>4. (sent > 0)' = (sent > 0)
      BY <2>1
    <2>5. Atomic!Fail
      BY <2>1, <2>2, <2>3, <2>4, EntryCasesPrime DEF EntryOK, Atomic!Fail, Running, Outcome
    <2> QED
      BY <2>5 DEF Atomic!Next
  <1>9. ASSUME NEW i \in Children, ChildStep(i) \/ ChildKilled(i)
        PROVE  [Atomic!Next]_(Atomic!vars)
    BY <1>9, ChildSimulation
  <1>10. CASE UNCHANGED vars
    <2>1. Outcome' = Outcome
      BY <1>10 DEF vars, Outcome
    <2> QED
      BY <1>10, <2>1, Stutter DEF vars
  <1> QED
    BY <1>1, <1>2, <1>3, <1>4, <1>5, <1>6, <1>7, <1>8, <1>9, <1>10
       DEF Next, ParentStep, Ended

\* Launch implements AtomicLaunch: whichever call of execute_single or
\* execute_pipeline fails, and whenever the parent or a child is killed, a
\* command line becomes a job as a whole or leaves nothing, and no program runs
\* before the job is whole; for every length of the line.
THEOREM LaunchRefinement == Spec => LaunchIsAtomic
  <1>1. Init => Atomic!Init
    <2> SUFFICES ASSUME Init PROVE Atomic!Init
      OBVIOUS
    <2>1. Absent /\ ~Published /\ Running = {} /\ Outcome = "none"
      BY MaxCommandsAssumption DEF Init, Absent, Published, Running, Outcome, Children
    <2>2. Entry = "absent"
      BY <2>1, EntryCases DEF EntryOK
    <2>3. (sent > 0) = FALSE
      BY DEF Init
    <2> QED
      BY <2>1, <2>2, <2>3 DEF Atomic!Init, Running, Outcome
  <1> QED
    BY <1>1, Simulation, Inductive, PTL DEF Spec, LaunchIsAtomic, Atomic!Spec
---------------------------------------------------------------------------
(* The other way to run a command with redirections: a builtin, in the     *)
(* shell's own process (BuiltinRedirect).                                  *)

\* The streams that do not refer to what the shell started with.
Moved == {s \in Streams : fd[s] = "file"}

\* A stream is moved only after a copy of it has been saved, and the copy is
\* there until the stream is restored, or the restore has failed.
StreamsOK ==
    /\ Moved \subseteq want
    /\ broken \/ Moved \subseteq copies
    /\ broken => step = "restore" \/ (step = "prompt" /\ ~running)
    /\ step \in {"prompt", "flush"} => copies = {}
    /\ step = "flush" => "out" \in want /\ cur = "out"
    /\ step \in {"save", "open", "dup2"} => cur \in want
    /\ step \in {"save", "open", "dup2"} /\ cur = "out" => fd["out"] = "shell"
    /\ step \in {"save", "open", "dup2"} /\ cur = "in" /\ "out" \in want =>
         fd["out"] = "file"
    /\ step \in {"open", "dup2"} => cur \in copies
    /\ step \in {"handler", "check"} /\ "out" \in want => fd["out"] = "file"
    /\ files = IF step = "dup2" THEN 1 ELSE 0

\* Text of the builtin is in the buffer only until the check; once stdout may
\* be moved, no earlier text is in the buffer.
TextOK ==
    /\ step # "check" => "new" \notin buf
    /\ "out" \in want => step \in {"prompt", "flush"} \/ "old" \notin buf
    /\ RightPlace

\* Text of the builtin has been written somewhere.
Reached == \E d \in Places : <<"new", d>> \in landed

\* What was printed is written, or still to be flushed, or known to be lost.
StatusOK ==
    /\ step \in {"flush", "save", "open", "dup2", "handler"} => ~printed
    /\ step = "check" /\ printed => "new" \in buf \/ error \/ Reached
    /\ step \in {"restore", "prompt"} /\ printed /\ ret = "ok" => Reached

RedirectInv == RedirectTypeOK /\ StreamsOK /\ TextOK /\ StatusOK

\* The truth values among the variables.
Flags == error \in BOOLEAN /\ printed \in BOOLEAN /\ broken \in BOOLEAN /\ running \in BOOLEAN

\* The shell starts with its own streams.
LEMMA RedirectInitial == RedirectInit => RedirectInv
  <1> SUFFICES ASSUME RedirectInit PROVE RedirectInv
    OBVIOUS
  <1>1. Flags /\ ~error /\ ~printed /\ ~broken /\ running
    BY Zenon DEF RedirectInit, Flags
  <1>2. RedirectTypeOK
    BY <1>1 DEF RedirectInit, RedirectTypeOK, Flags, Streams, Texts,
                Places
  <1>3. StreamsOK
    BY <1>1 DEF RedirectInit, StreamsOK, Moved, Streams
  <1>4. TextOK /\ StatusOK
    BY <1>1 DEF RedirectInit, TextOK, StatusOK, RightPlace
  <1> QED
    BY <1>2, <1>3, <1>4 DEF RedirectInv

\* Each step of a builtin with redirections keeps the truth values.
LEMMA RedirectFlags == Flags /\ [RedirectNext]_redirect_vars => Flags'
  <1> SUFFICES ASSUME Flags, [RedirectNext]_redirect_vars
               PROVE  Flags'
    OBVIOUS
  <1> USE DEF Flags
  <1>1. CASE JobMessage \/ Start \/ UNCHANGED redirect_vars
    BY <1>1, Zenon DEF JobMessage, Start, redirect_vars
  <1>2. CASE FlushFirst
    BY <1>2, Zenon DEF FlushFirst
  <1>3. CASE Save \/ OpenFile
    BY <1>3, Zenon DEF Save, OpenFile
  <1>4. CASE Dup2
    BY <1>4, Zenon DEF Dup2, Dup2Fails
  <1>5. CASE Handler
    BY <1>5, Zenon DEF Handler
  <1>6. CASE Check
    BY <1>6, Zenon DEF Check
  <1>7. CASE Restore
    BY <1>7, Zenon DEF Restore
  <1>8. CASE Return
    BY <1>8, Zenon DEF Return
  <1> QED
    BY <1>1, <1>2, <1>3, <1>4, <1>5, <1>6, <1>7, <1>8 DEF RedirectNext, RedirectEnded

\* Each step keeps the types.
LEMMA RedirectTypes == RedirectInv /\ [RedirectNext]_redirect_vars => RedirectTypeOK'
  <1> SUFFICES ASSUME RedirectInv, [RedirectNext]_redirect_vars
               PROVE  RedirectTypeOK'
    OBVIOUS
  <1>0. Flags /\ Flags'
    <2>1. Flags
      BY Zenon DEF RedirectInv, RedirectTypeOK, Flags
    <2> QED
      BY <2>1, RedirectFlags
  <1> DEFINE Controls ==
               /\ step \in {"prompt", "flush", "save", "open", "dup2", "handler",
                            "check", "restore"}
               /\ cur \in Streams /\ want \subseteq Streams
               /\ ret \in {"ok", "error"}
             Holds ==
               /\ fd \in [Streams -> Places]
               /\ copies \subseteq Streams /\ files \in 0..1
             Prints ==
               /\ buf \subseteq Texts
               /\ landed \subseteq Texts \X Places
  <1>P. RedirectTypeOK = (Controls /\ Holds /\ Prints /\ Flags)
    BY Zenon DEF RedirectTypeOK, Flags
  <1>Q. RedirectTypeOK' = (Controls' /\ Holds' /\ Prints' /\ Flags')
    BY Zenon DEF RedirectTypeOK, Flags
  <1>T. Controls /\ Holds /\ Prints /\ (files = IF step = "dup2" THEN 1 ELSE 0)
    BY <1>P DEF RedirectInv, StreamsOK
  <1> SUFFICES Controls' /\ Holds' /\ Prints'
    BY <1>0, <1>Q
  <1> USE <1>T DEF Streams, Texts, Places
  <1> HIDE <1>P, <1>Q
  <1>1. CASE JobMessage \/ Start \/ UNCHANGED redirect_vars
    <2>1. CASE JobMessage
      BY <2>1 DEF JobMessage
    <2>2. CASE Start
      BY <2>2 DEF Start, FirstStep
    <2>3. CASE UNCHANGED redirect_vars
      BY <2>3 DEF redirect_vars
    <2> QED
      BY <1>1, <2>1, <2>2, <2>3
  <1>2. CASE FlushFirst
    BY <1>2 DEF FlushFirst, Flush, Written, Abandon
  <1>3. CASE Save \/ OpenFile
    <2>1. CASE Save
      BY <2>1 DEF Save, Abandon
    <2>2. CASE OpenFile
      <3>1. CASE Abandon
        BY <2>2, <3>1 DEF OpenFile, Abandon
      <3>2. CASE ~Abandon
        BY <2>2, <3>2 DEF OpenFile
      <3> QED
        BY <3>1, <3>2
    <2> QED
      BY <1>3, <2>1, <2>2
  <1>4. CASE Dup2
    <2>1. CASE Dup2Fails
      BY <1>4, <2>1 DEF Dup2, Dup2Fails, Abandon
    <2>2. CASE ~Dup2Fails
      <3>1. /\ step = "dup2" /\ fd' = [fd EXCEPT ![cur] = "file"] /\ files' = files - 1
            /\ cur' = "in" /\ want' = want /\ copies' = copies /\ broken' = broken
            /\ buf' = buf /\ landed' = landed /\ ret' = ret
            /\ step' = IF cur = "out" /\ "in" \in want THEN "save" ELSE "handler"
        BY <1>4, <2>2, Zenon DEF Dup2
      <3> QED
        BY <3>1
    <2> QED
      BY <2>1, <2>2
  <1>5. CASE Handler
    <2>1. PICK full \in SUBSET Texts :
            /\ buf' \in {full, {}, {"new"}}
            /\ landed' = landed \/ landed' = landed \cup {<<t, fd["out"]>> : t \in full}
      <3>1. (IF printed' THEN buf \cup {"new"} ELSE buf) \in SUBSET Texts
        OBVIOUS
      <3> QED
        BY <1>5, <3>1, Zenon DEF Handler
    <2>2. /\ step' = "check" /\ ret' \in {"ok", "error"} /\ cur' = cur /\ want' = want
          /\ fd' = fd /\ copies' = copies /\ files' = files
      BY <1>5 DEF Handler
    <2> QED
      BY <2>1, <2>2
  <1>6. CASE Check
    BY <1>6 DEF Check, Flush, Written
  <1>7. CASE Restore
    BY <1>7 DEF Restore
  <1>8. CASE Return
    BY <1>8 DEF Return
  <1> QED
    BY <1>1, <1>2, <1>3, <1>4, <1>5, <1>6, <1>7, <1>8 DEF RedirectNext, RedirectEnded

\* Each step keeps track of the streams that are moved.
LEMMA RedirectStreams == RedirectInv /\ [RedirectNext]_redirect_vars => StreamsOK'
  <1> SUFFICES ASSUME RedirectInv, [RedirectNext]_redirect_vars
               PROVE  StreamsOK'
    OBVIOUS
  <1> USE DEF RedirectInv, RedirectTypeOK, Streams, Places,
              StreamsOK, Moved
  <1>1. CASE JobMessage \/ Start \/ UNCHANGED redirect_vars
    <2>1. CASE JobMessage
      BY <2>1 DEF JobMessage
    <2>2. CASE Start
      BY <2>2 DEF Start, FirstStep
    <2>3. CASE UNCHANGED redirect_vars
      BY <2>3 DEF redirect_vars
    <2> QED
      BY <1>1, <2>1, <2>2, <2>3
  <1>2. CASE FlushFirst
    BY <1>2 DEF FlushFirst, Abandon
  <1>3. CASE Save \/ OpenFile
    <2>1. CASE Save
      BY <2>1 DEF Save, Abandon
    <2>2. CASE OpenFile
      <3>1. CASE Abandon
        BY <2>2, <3>1 DEF OpenFile, Abandon
      <3>2. CASE ~Abandon
        BY <2>2, <3>2 DEF OpenFile
      <3> QED
        BY <3>1, <3>2
    <2> QED
      BY <1>3, <2>1, <2>2
  <1>4. CASE Dup2
    <2>1. CASE Dup2Fails
      BY <1>4, <2>1 DEF Dup2, Dup2Fails, Abandon
    <2>2. CASE ~Dup2Fails
      <3>1. /\ step = "dup2" /\ fd' = [fd EXCEPT ![cur] = "file"] /\ files' = files - 1
            /\ cur' = "in" /\ want' = want /\ copies' = copies /\ broken' = broken
            /\ buf' = buf /\ landed' = landed /\ ret' = ret
            /\ step' = IF cur = "out" /\ "in" \in want THEN "save" ELSE "handler"
        BY <1>4, <2>2, Zenon DEF Dup2
      <3> QED
        BY <3>1
    <2> QED
      BY <2>1, <2>2
  <1>5. CASE Handler
    BY <1>5 DEF Handler
  <1>6. CASE Check
    BY <1>6 DEF Check
  <1>7. CASE Restore
    BY <1>7 DEF Restore
  <1>8. CASE Return
    BY <1>8 DEF Return
  <1> QED
    BY <1>1, <1>2, <1>3, <1>4, <1>5, <1>6, <1>7, <1>8 DEF RedirectNext, RedirectEnded

\* Each step keeps text apart and puts it in its place.
LEMMA RedirectText == RedirectInv /\ [RedirectNext]_redirect_vars => TextOK'
  <1> SUFFICES ASSUME RedirectInv, [RedirectNext]_redirect_vars
               PROVE  TextOK'
    OBVIOUS
  <1> USE DEF RedirectInv, RedirectTypeOK, Streams, Texts,
              Places, TextOK, RightPlace
  <1>0. /\ "out" \notin want => fd["out"] = "shell"
        /\ step = "flush" => fd["out"] = "shell"
        /\ step \in {"handler", "check"} /\ "out" \in want => fd["out"] = "file"
    BY DEF StreamsOK, Moved
  <1>1. CASE JobMessage \/ Start \/ UNCHANGED redirect_vars
    <2>1. CASE JobMessage
      BY <2>1 DEF JobMessage
    <2>2. CASE Start
      BY <2>2 DEF Start, FirstStep
    <2>3. CASE UNCHANGED redirect_vars
      BY <2>3 DEF redirect_vars
    <2> QED
      BY <1>1, <2>1, <2>2, <2>3
  <1>2. CASE FlushFirst
    BY <1>0, <1>2
       DEF FlushFirst, Flush, Written, Abandon
  <1>3. CASE Save \/ OpenFile
    <2>1. CASE Save
      BY <2>1 DEF Save, Abandon
    <2>2. CASE OpenFile
      <3>1. CASE Abandon
        BY <2>2, <3>1 DEF OpenFile, Abandon
      <3>2. CASE ~Abandon
        BY <2>2, <3>2 DEF OpenFile
      <3> QED
        BY <3>1, <3>2
    <2> QED
      BY <1>3, <2>1, <2>2
  <1>4. CASE Dup2
    <2>1. CASE Dup2Fails
      BY <1>4, <2>1 DEF Dup2, Dup2Fails, Abandon
    <2>2. CASE ~Dup2Fails
      BY <1>4, <2>2 DEF Dup2
    <2> QED
      BY <2>1, <2>2
  <1>5. CASE Handler
    BY <1>0, <1>5 DEF Handler
  <1>6. CASE Check
    BY <1>0, <1>6 DEF Check, Flush, Written
  <1>7. CASE Restore
    BY <1>7 DEF Restore
  <1>8. CASE Return
    BY <1>8 DEF Return
  <1> QED
    BY <1>1, <1>2, <1>3, <1>4, <1>5, <1>6, <1>7, <1>8 DEF RedirectNext, RedirectEnded

\* Each step knows what has become of the builtin's text.
LEMMA RedirectStatus == RedirectInv /\ [RedirectNext]_redirect_vars => StatusOK'
  <1> SUFFICES ASSUME RedirectInv, [RedirectNext]_redirect_vars
               PROVE  StatusOK'
    OBVIOUS
  <1> USE DEF RedirectInv, RedirectTypeOK, Streams, Texts,
              Places, StatusOK, Reached
  <1>1. CASE JobMessage \/ Start \/ UNCHANGED redirect_vars
    <2>1. CASE JobMessage
      BY <2>1 DEF JobMessage
    <2>2. CASE Start
      BY <2>2 DEF Start, FirstStep
    <2>3. CASE UNCHANGED redirect_vars
      BY <2>3 DEF redirect_vars
    <2> QED
      BY <1>1, <2>1, <2>2, <2>3
  <1>2. CASE FlushFirst
    BY <1>2 DEF FlushFirst, Abandon
  <1>3. CASE Save \/ OpenFile
    <2>1. CASE Save
      BY <2>1 DEF Save, Abandon
    <2>2. CASE OpenFile
      <3>1. CASE Abandon
        BY <2>2, <3>1 DEF OpenFile, Abandon
      <3>2. CASE ~Abandon
        BY <2>2, <3>2 DEF OpenFile
      <3> QED
        BY <3>1, <3>2
    <2> QED
      BY <1>3, <2>1, <2>2
  <1>4. CASE Dup2
    <2>1. CASE Dup2Fails
      BY <1>4, <2>1 DEF Dup2, Dup2Fails, Abandon
    <2>2. CASE ~Dup2Fails
      BY <1>4, <2>2 DEF Dup2
    <2> QED
      BY <2>1, <2>2
  <1>5. CASE Handler
    BY <1>5 DEF Handler
  <1>6. CASE Check
    <2>0. fd["out"] \in Places
      OBVIOUS
    <2> QED
      BY <1>6, <2>0 DEF Check, Flush, Written, Good
  <1>7. CASE Restore
    BY <1>7 DEF Restore
  <1>8. CASE Return
    <2>1. ret' = "ok" => ret = "ok"
      BY <1>8, Zenon DEF Return
    <2>2. step = "restore" /\ step' = "prompt" /\ printed' = printed /\ landed' = landed
      BY <1>8, Zenon DEF Return
    <2> QED
      BY <2>1, <2>2
  <1> QED
    BY <1>1, <1>2, <1>3, <1>4, <1>5, <1>6, <1>7, <1>8 DEF RedirectNext, RedirectEnded

\* The invariant holds in every behaviour of the builtins.
THEOREM RedirectInvariance == RedirectSpec => []RedirectInv
  <1>1. RedirectInv /\ [RedirectNext]_redirect_vars => RedirectInv'
    BY RedirectTypes, RedirectStreams, RedirectText, RedirectStatus DEF RedirectInv
  <1> QED
    BY <1>1, RedirectInitial, PTL DEF RedirectSpec

\* Whichever call of a redirection, of its flushes and of its restore fails, a
\* prompt that goes on has the shell's own stdin and stdout, and no saved copy
\* and no redirection file stays open.
THEOREM StreamsAreRestored == RedirectSpec => []StreamsRestored
  <1>1. RedirectInv => StreamsRestored
    BY DEF RedirectInv, RedirectTypeOK, StreamsOK, Moved, StreamsRestored,
           Places
  <1> QED
    BY <1>1, RedirectInvariance, PTL

\* The builtin's text goes where the command says, and what was printed before
\* it never reaches the file: stdout is flushed before it is moved, and what
\* cannot be flushed is dropped.
THEOREM TextInRightPlace == RedirectSpec => []RightPlace
  <1>1. RedirectInv => RightPlace
    BY DEF RedirectInv, TextOK
  <1> QED
    BY <1>1, RedirectInvariance, PTL

\* A builtin that printed something and has status ok has its text written:
\* fflush and the sticky error flag together miss no lost write.
THEOREM OkIsWritten == RedirectSpec => []SuccessMeansWritten
  <1>1. RedirectInv => SuccessMeansWritten
    BY DEF RedirectInv, StatusOK, Reached, SuccessMeansWritten
  <1> QED
    BY <1>1, RedirectInvariance, PTL

\* A builtin's variables keep their types: at most one redirection file open.
THEOREM RedirectTypeCorrect == RedirectSpec => []RedirectTypeOK
  <1>1. RedirectInv => RedirectTypeOK
    BY DEF RedirectInv
  <1> QED
    BY <1>1, RedirectInvariance, PTL
=============================================================================
