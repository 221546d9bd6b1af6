----------------------------- MODULE HomeProofs -----------------------------
(***************************************************************************)
(* Theorems about the components of a home that share no state, each for   *)
(* any processes and any kills.                                            *)
(***************************************************************************)
EXTENDS WorkerLifecycle, HomeIdentity, Enrollment, DocumentRemoval, Publication, IngestionSessions,
        FiniteSetTheorems, TLAPS

-----------------------------------------------------------------------------
(* The worker's lifecycle.  The lifetime lock alone makes the worker the only *)
(* one; that it can be found, and that "stopped" means stopped, rest on the   *)
(* startup lock, which covers a worker until its record is there.             *)

LifecycleForm == step = [p \in Proc |-> step[p]] /\ running \subseteq Proc /\ runtime \in Worker \cup {Nobody}

\* A worker that has taken the lifetime lock keeps it to its end.
LifetimeIsOwn ==
  \A w \in Worker : Alive(w) /\ step[w] \in {"owning", "running", "closing", "unlisted"} => lifetime = w

\* A living process under the startup lock has it.
StartupIsOwn ==
  \A p \in Command \cup Standing :
    /\ Alive(p)
    /\ \/ step[p] \in {"excluded", "spawning", "waiting", "terminating"}
       \/ p \in Standing /\ step[p] \in {"admitted", "owning"}
    => startup = p

\* A child comes into being when it is spawned, under the lock of its parent.
Unborn(c) == ~Alive(c) /\ step[c] = "idle"

ChildrenFollow ==
  \A s \in Starter :
    /\ step[s] \in {"idle", "excluded", "spawning"} => Unborn(ChildOf[s])
    /\ Alive(s) /\ startup = s /\ ~Unborn(ChildOf[s]) => step[s] \in {"waiting", "terminating"}

\* The startup lock is held for worker w, by itself or by its parent.
Covered(w) ==
  \/ startup = w
  \/ \E s \in Starter : /\ ChildOf[s] = w /\ startup = s /\ Alive(s)
                        /\ step[s] \in {"waiting", "terminating"}

\* Who looks for a worker that was not left behind finds its record, or has to
\* wait for the startup lock.
CanBeFound ==
  \A w \in Worker \ orphans : Alive(w) =>
    /\ step[w] \in {"excluded", "admitted", "owning"} => Covered(w)
    /\ step[w] = "closing" => runtime = w \/ Covered(w)
    /\ step[w] = "running" => runtime = w

\* Under the startup lock what was found to be still stays still.
StaysStill ==
  \A p \in Command :
    startup = p /\ Alive(p) /\ step[p] \in {"spawning", "stopped", "maintaining"} =>
      \A w \in Worker \ orphans : ~Active(w)

LifecycleInv ==
  LifecycleForm /\ LifetimeIsOwn /\ StartupIsOwn /\ ChildrenFollow /\ CanBeFound /\ StaysStill

LEMMA LifecycleInvInit == LifecycleInit => LifecycleInv
BY WorkerLifecycleAssumption DEF LifecycleInit, LifecycleInv, LifecycleForm, LifetimeIsOwn, StartupIsOwn,
  ChildrenFollow, Unborn, CanBeFound, Covered, StaysStill, Alive, Active, Proc, Worker, Command, Child

\* Without a living process in the record there is no worker but those left behind.
LEMMA NobodyFound ==
  ASSUME LifecycleInv, NEW p \in Command, startup = p, step[p] \notin {"waiting", "terminating"},
         ~Alive(runtime)
  PROVE  \A w \in Worker \ orphans : ~Active(w)
<1> SUFFICES ASSUME NEW w \in Worker \ orphans, Active(w) PROVE FALSE
  OBVIOUS
<1>1. runtime = w \/ Covered(w)
  BY DEF LifecycleInv, CanBeFound, Active
<1>2. ~Covered(w)
  BY WorkerLifecycleAssumption DEF Covered
<1> QED  BY <1>1, <1>2 DEF Active

LEMMA OwnerStopped == ASSUME LifecycleInv, Owner = "stopped" PROVE ~Alive(runtime)
BY WorkerLifecycleAssumption DEF Owner, LifecycleInv, LifecycleForm, Alive

LEMMA Parents ==
  ASSUME NEW c \in Child PROVE ParentOf(c) \in Starter /\ ChildOf[ParentOf(c)] = c
BY DEF Child, ParentOf

-----------------------------------------------------------------------------
\* A lifetime lock is taken from the dead, and removed by its owner.
LEMMA LifetimeIsOwnStep == LifecycleInv /\ [LifecycleNext]_procVars => LifetimeIsOwn'
<1> SUFFICES ASSUME LifecycleInv, [LifecycleNext]_procVars PROVE LifetimeIsOwn'
  OBVIOUS
<1>0. LifecycleForm /\ LifetimeIsOwn
  BY DEF LifecycleInv
<1> USE WorkerLifecycleAssumption DEF LifecycleForm, LifetimeIsOwn, Alive, Moves, Proc, Worker, Command
<1>1. ASSUME NEW p \in Proc, Exclude(p) \/ EnsureSettled(p) \/ EnsureInspect(p) \/ ChildReady(p) \/ GiveUp(p)
                             \/ ChildReaped(p) \/ StopSettled(p) \/ Poll(p) \/ StopReturns(p)
                             \/ Maintain(p) \/ FinishMaintenance(p)
      PROVE LifetimeIsOwn'
  BY <1>0, <1>1 DEF Exclude, EnsureSettled, EnsureInspect, ChildReady, GiveUp, ChildReaped, StopSettled, Poll,
    StopReturns, Maintain, FinishMaintenance
<1>2. ASSUME NEW s \in Proc, Spawn(s) PROVE LifetimeIsOwn'
  BY <1>0, <1>2 DEF Spawn, LifecycleInv, ChildrenFollow, Unborn, Child
<1>3. ASSUME NEW s \in Proc, TerminateChild(s) PROVE LifetimeIsOwn'
  BY <1>0, <1>3 DEF TerminateChild, Child
<1>4. ASSUME NEW w \in Proc, Inherit(w) \/ Refused(w) \/ Admitted(w) \/ Publish(w) \/ BeginClose(w) \/ CloseRecord(w)
      PROVE LifetimeIsOwn'
  BY <1>0, <1>4 DEF Inherit, Refused, Admitted, Publish, BeginClose, CloseRecord
<1>5. ASSUME NEW w \in Proc, TakeLifetime(w) PROVE LifetimeIsOwn'
  <2>1. CASE MayOwn /\ lifetime' = w /\ Moves(w, "admitted", "owning") /\ UNCHANGED running
    BY <1>0, <2>1 DEF MayOwn, Free
  <2>2. CASE Moves(w, "admitted", "gone") /\ running' = running \ {w} /\ UNCHANGED lifetime
    BY <1>0, <2>2
  <2> QED  BY <1>5, <2>1, <2>2 DEF TakeLifetime
<1>6. ASSUME NEW w \in Proc, CloseLifetime(w) PROVE LifetimeIsOwn'
  BY <1>0, <1>6 DEF CloseLifetime
<1>7. ASSUME NEW q \in Proc, AskToStop(q) PROVE LifetimeIsOwn'
  BY <1>0, <1>7 DEF AskToStop
<1>8. ASSUME NEW p \in Proc, Kill(p) PROVE LifetimeIsOwn'
  BY <1>0, <1>8 DEF Kill
<1>9. CASE UNCHANGED procVars
  BY <1>0, <1>9 DEF procVars
<1> QED
  BY <1>1, <1>2, <1>3, <1>4, <1>5, <1>6, <1>7, <1>8, <1>9 DEF LifecycleNext, LifecycleStep

\* So is the startup lock, but that a parent leaves it to what it has reaped or
\* seen ready.
LEMMA StartupIsOwnStep == LifecycleInv /\ [LifecycleNext]_procVars => StartupIsOwn'
<1> SUFFICES ASSUME LifecycleInv, [LifecycleNext]_procVars PROVE StartupIsOwn'
  OBVIOUS
<1>0. LifecycleForm /\ StartupIsOwn
  BY DEF LifecycleInv
<1> USE WorkerLifecycleAssumption DEF LifecycleForm, StartupIsOwn, Alive, Moves, Proc, Worker, Command, Released, Free
<1>1. ASSUME NEW p \in Proc, Exclude(p) \/ EnsureSettled(p) \/ EnsureInspect(p) \/ ChildReady(p) \/ GiveUp(p)
                             \/ ChildReaped(p) \/ StopSettled(p) \/ Poll(p) \/ StopReturns(p)
                             \/ Maintain(p) \/ FinishMaintenance(p)
      PROVE StartupIsOwn'
  BY <1>0, <1>1 DEF Exclude, EnsureSettled, EnsureInspect, ChildReady, GiveUp, ChildReaped, StopSettled, Poll,
    StopReturns, Maintain, FinishMaintenance
<1>2. ASSUME NEW s \in Proc, Spawn(s) \/ TerminateChild(s) PROVE StartupIsOwn'
  BY <1>0, <1>2 DEF Spawn, TerminateChild, Child
<1>3. ASSUME NEW w \in Proc, Inherit(w) \/ Refused(w) \/ Admitted(w) \/ Publish(w) \/ BeginClose(w) \/ CloseRecord(w)
      PROVE StartupIsOwn'
  BY <1>0, <1>3 DEF Inherit, Refused, Admitted, Publish, BeginClose, CloseRecord
<1>4. ASSUME NEW w \in Proc, TakeLifetime(w) \/ CloseLifetime(w) PROVE StartupIsOwn'
  BY <1>0, <1>4 DEF TakeLifetime, CloseLifetime
<1>5. ASSUME NEW q \in Proc, AskToStop(q) PROVE StartupIsOwn'
  BY <1>0, <1>5 DEF AskToStop
<1>6. ASSUME NEW p \in Proc, Kill(p) PROVE StartupIsOwn'
  BY <1>0, <1>6 DEF Kill
<1>7. CASE UNCHANGED procVars
  BY <1>0, <1>7 DEF procVars
<1> QED
  BY <1>1, <1>2, <1>3, <1>4, <1>5, <1>6, <1>7 DEF LifecycleNext, LifecycleStep

\* Nobody spawns twice, and what was spawned runs under its parent.
LEMMA ChildrenFollowStep == LifecycleInv /\ [LifecycleNext]_procVars => ChildrenFollow'
<1> SUFFICES ASSUME LifecycleInv, [LifecycleNext]_procVars PROVE ChildrenFollow'
  OBVIOUS
<1>0. LifecycleForm /\ ChildrenFollow
  BY DEF LifecycleInv
<1> USE WorkerLifecycleAssumption DEF LifecycleForm, ChildrenFollow, Unborn, Alive, Moves, Proc, Worker, Command,
  Child, Released, Free
<1>1. ASSUME NEW p \in Proc, Exclude(p) PROVE ChildrenFollow'
  BY <1>0, <1>1 DEF Exclude
<1>2. ASSUME NEW p \in Proc, EnsureSettled(p) \/ EnsureInspect(p) \/ ChildReady(p) \/ GiveUp(p) \/ ChildReaped(p)
      PROVE ChildrenFollow'
  BY <1>0, <1>2 DEF EnsureSettled, EnsureInspect, ChildReady, GiveUp, ChildReaped, LifecycleInv, StartupIsOwn
<1>3. ASSUME NEW p \in Proc, StopSettled(p) \/ Poll(p) \/ StopReturns(p) \/ Maintain(p) \/ FinishMaintenance(p)
      PROVE ChildrenFollow'
  BY <1>0, <1>3 DEF StopSettled, Poll, StopReturns, Maintain, FinishMaintenance
<1>4. ASSUME NEW s \in Proc, Spawn(s) PROVE ChildrenFollow'
  BY <1>0, <1>4 DEF Spawn
<1>5. ASSUME NEW s \in Proc, TerminateChild(s) PROVE ChildrenFollow'
  BY <1>0, <1>5 DEF TerminateChild
<1>6. ASSUME NEW w \in Proc, Inherit(w) \/ Refused(w) \/ Admitted(w) PROVE ChildrenFollow'
  BY <1>0, <1>6 DEF Inherit, Refused, Admitted
<1>7. ASSUME NEW w \in Proc, TakeLifetime(w) \/ Publish(w) \/ BeginClose(w) \/ CloseRecord(w) \/ CloseLifetime(w)
      PROVE ChildrenFollow'
  BY <1>0, <1>7 DEF TakeLifetime, Publish, BeginClose, CloseRecord, CloseLifetime
<1>8. ASSUME NEW q \in Proc, AskToStop(q) PROVE ChildrenFollow'
  BY <1>0, <1>8 DEF AskToStop
<1>9. ASSUME NEW p \in Proc, Kill(p) PROVE ChildrenFollow'
  BY <1>0, <1>9 DEF Kill
<1>10. CASE UNCHANGED procVars
  BY <1>0, <1>10 DEF procVars
<1> QED
  BY <1>1, <1>2, <1>3, <1>4, <1>5, <1>6, <1>7, <1>8, <1>9, <1>10 DEF LifecycleNext, LifecycleStep

\* A record is removed by its owner, by a fork, or by one who starts a worker
\* when there is none; a worker whose parent dies before it serves is left behind.
LEMMA CanBeFoundStep == LifecycleInv /\ [LifecycleNext]_procVars => CanBeFound'
<1> SUFFICES ASSUME LifecycleInv, [LifecycleNext]_procVars PROVE CanBeFound'
  OBVIOUS
<1>0. LifecycleForm /\ CanBeFound /\ StartupIsOwn /\ LifetimeIsOwn
  BY DEF LifecycleInv
<1> USE WorkerLifecycleAssumption DEF LifecycleForm, CanBeFound, Covered, Alive, Moves, Proc, Worker, Command,
  Child, Released, Free
<1>1. ASSUME NEW p \in Proc, Exclude(p) PROVE CanBeFound'
  BY <1>0, <1>1 DEF Exclude
<1>2. ASSUME NEW p \in Proc, EnsureSettled(p) \/ EnsureInspect(p) \/ GiveUp(p) \/ ChildReaped(p) PROVE CanBeFound'
  BY <1>0, <1>2 DEF EnsureSettled, EnsureInspect, GiveUp, ChildReaped, StartupIsOwn
<1>3. ASSUME NEW s \in Proc, ChildReady(s) PROVE CanBeFound'
  BY <1>0, <1>3 DEF ChildReady, Serving
<1>4. ASSUME NEW s \in Proc, Spawn(s) PROVE CanBeFound'
  BY <1>0, <1>4 DEF Spawn, LifecycleInv, ChildrenFollow, Unborn, StaysStill, StartupIsOwn, Active
<1>5. ASSUME NEW s \in Proc, TerminateChild(s) PROVE CanBeFound'
  BY <1>0, <1>5 DEF TerminateChild
<1>6. ASSUME NEW w \in Proc, Inherit(w) PROVE CanBeFound'
  <2>1. CASE startup = ParentOf(w) /\ Alive(ParentOf(w)) /\ Moves(w, "idle", "excluded") /\ UNCHANGED running
    <3>1. w \in Child /\ ParentOf(w) \in Starter /\ ChildOf[ParentOf(w)] = w
      BY <1>6, Parents DEF Inherit
    <3>2. ~Unborn(w)
      BY <2>1 DEF Unborn
    <3>3. step[ParentOf(w)] \in {"waiting", "terminating"}
      BY <2>1, <3>1, <3>2 DEF LifecycleInv, ChildrenFollow
    <3>4. \A v \in Worker : Covered(v) => Covered(v)'
      BY <1>0, <1>6, <2>1 DEF Inherit
    <3>5. Covered(w)'
      BY <1>0, <1>6, <2>1, <3>1, <3>3 DEF Inherit
    <3> HIDE DEF Covered
    <3> QED  BY <1>0, <1>6, <2>1, <3>4, <3>5 DEF Inherit
  <2>2. CASE Moves(w, "idle", "gone") /\ running' = running \ {w}
    <3>1. \A v \in Worker \ {w} : Covered(v) => Covered(v)'
      BY <1>0, <1>6, <2>2 DEF Inherit
    <3> HIDE DEF Covered
    <3> QED  BY <1>0, <1>6, <2>2, <3>1 DEF Inherit
  <2> QED  BY <1>6, <2>1, <2>2 DEF Inherit
<1>7. ASSUME NEW w \in Proc, Refused(w) PROVE CanBeFound'
  BY <1>0, <1>7 DEF Refused
<1>8. ASSUME NEW w \in Proc, Admitted(w) PROVE CanBeFound'
  <2>1. \A v \in Worker : Covered(v) => Covered(v)'
    BY <1>0, <1>8 DEF Admitted
  <2> HIDE DEF Covered
  <2> QED  BY <1>0, <1>8, <2>1 DEF Admitted
<1>9. ASSUME NEW w \in Proc, TakeLifetime(w) PROVE CanBeFound'
  <2>1. CASE Moves(w, "admitted", "owning") /\ UNCHANGED <<running, startup>>
    <3>1. \A v \in Worker : Covered(v) => Covered(v)'
      BY <1>0, <1>9, <2>1 DEF TakeLifetime
    <3> HIDE DEF Covered
    <3> QED  BY <1>0, <1>9, <2>1, <3>1 DEF TakeLifetime
  <2>2. CASE Moves(w, "admitted", "gone") /\ running' = running \ {w} /\ Released(w)
    <3>1. \A v \in Worker \ {w} : Covered(v) => Covered(v)'
      BY <1>0, <1>9, <2>2 DEF TakeLifetime
    <3> HIDE DEF Covered
    <3> QED  BY <1>0, <1>9, <2>2, <3>1 DEF TakeLifetime
  <2> QED  BY <1>9, <2>1, <2>2 DEF TakeLifetime
<1>10. ASSUME NEW w \in Proc, Publish(w) PROVE CanBeFound'
  BY <1>0, <1>10 DEF Publish, LifetimeIsOwn
<1>11. ASSUME NEW w \in Proc, BeginClose(w) \/ CloseRecord(w) PROVE CanBeFound'
  BY <1>0, <1>11 DEF BeginClose, CloseRecord, CleanRecord
<1>12. ASSUME NEW w \in Proc, CloseLifetime(w) PROVE CanBeFound'
  BY <1>0, <1>12 DEF CloseLifetime
<1>13. ASSUME NEW q \in Proc, StopSettled(q) \/ Poll(q) \/ StopReturns(q) PROVE CanBeFound'
  BY <1>0, <1>13 DEF StopSettled, Poll, StopReturns
<1>14. ASSUME NEW q \in Proc, AskToStop(q) PROVE CanBeFound'
  BY <1>0, <1>14 DEF AskToStop
<1>15. ASSUME NEW k \in Proc, Maintain(k) PROVE CanBeFound'
  BY <1>0, <1>15 DEF Maintain
<1>16. ASSUME NEW k \in Proc, FinishMaintenance(k) PROVE CanBeFound'
  BY <1>0, <1>16 DEF FinishMaintenance
<1>17. ASSUME NEW p \in Proc, Kill(p) PROVE CanBeFound'
  BY <1>0, <1>17 DEF Kill, Serving
<1>18. CASE UNCHANGED procVars
  BY <1>0, <1>18 DEF procVars
<1> QED
  BY <1>1, <1>2, <1>3, <1>4, <1>5, <1>6, <1>7, <1>8, <1>9, <1>10, <1>11, <1>12, <1>13, <1>14, <1>15, <1>16,
    <1>17, <1>18 DEF LifecycleNext, LifecycleStep

\* Under somebody's startup lock no worker starts that was not left behind.
LEMMA StaysStillStep == LifecycleInv /\ [LifecycleNext]_procVars => StaysStill'
<1> SUFFICES ASSUME LifecycleInv, [LifecycleNext]_procVars PROVE StaysStill'
  OBVIOUS
<1>0. LifecycleForm /\ StaysStill /\ StartupIsOwn
  BY DEF LifecycleInv
<1> USE WorkerLifecycleAssumption DEF LifecycleForm, StaysStill, Active, Alive, Moves, Proc, Worker, Command,
  Child, Released, Free
\* Who finds that nobody is in the record finds everything still.
<1>1. ASSUME NEW p \in Command, p \in Proc, NEW to, ~Alive(runtime),
             step[p] \notin {"waiting", "terminating"}, Moves(p, step[p], to), p \notin Worker,
             UNCHANGED <<running, orphans>>, UNCHANGED startup \/ Released(p)
      PROVE  StaysStill'
  <2>1. startup = p => \A w \in Worker \ orphans : ~Active(w)
    BY <1>1, NobodyFound
  <2>2. \A w \in Worker : Active(w)' => Active(w)
    BY <1>0, <1>1
  <2>3. startup' = p => startup = p
    BY <1>0, <1>1
  <2>4. ASSUME NEW q \in Command, q # p, startup' = q, Alive(q)', step'[q] \in {"spawning", "stopped", "maintaining"}
        PROVE  startup = q /\ Alive(q) /\ step[q] \in {"spawning", "stopped", "maintaining"}
    BY <1>0, <1>1, <2>4
  <2>5. \A q \in Command : startup' = q /\ Alive(q)' /\ step'[q] \in {"spawning", "stopped", "maintaining"} =>
          \A w \in Worker \ orphans : ~Active(w)
    <3> HIDE DEF Active
    <3> QED  BY <1>0, <2>1, <2>3, <2>4
  <2> HIDE DEF Active
  <2> QED  BY <1>1, <2>2, <2>5
<1>2. ASSUME NEW p \in Proc, Exclude(p) \/ EnsureSettled(p) \/ ChildReady(p) \/ GiveUp(p) \/ ChildReaped(p)
                             \/ StopReturns(p) \/ FinishMaintenance(p)
      PROVE StaysStill'
  BY <1>0, <1>2 DEF Exclude, EnsureSettled, ChildReady, GiveUp, ChildReaped, StopReturns, FinishMaintenance
<1>3. ASSUME NEW s \in Proc, EnsureInspect(s) PROVE StaysStill'
  BY <1>1, <1>3, OwnerStopped DEF EnsureInspect
<1>4. ASSUME NEW s \in Proc, Spawn(s) PROVE StaysStill'
  BY <1>0, <1>4 DEF Spawn, LifecycleInv, ChildrenFollow, Unborn
<1>5. ASSUME NEW s \in Proc, TerminateChild(s) PROVE StaysStill'
  BY <1>0, <1>5 DEF TerminateChild
<1>6. ASSUME NEW w \in Proc, Inherit(w) PROVE StaysStill'
  BY <1>0, <1>6 DEF Inherit
<1>7. ASSUME NEW w \in Proc, Refused(w) \/ Admitted(w) \/ Publish(w) \/ BeginClose(w) \/ CloseRecord(w) \/ CloseLifetime(w)
      PROVE StaysStill'
  <2>1. \A q \in Command : /\ step'[q] = step[q] /\ (Alive(q)' => Alive(q))
                           /\ startup' = q => startup = q
    BY <1>0, <1>7 DEF Refused, Admitted, Publish, BeginClose, CloseRecord, CloseLifetime
  <2>2. UNCHANGED orphans /\ \A v \in Worker : Active(v)' => Active(v)
    BY <1>0, <1>7 DEF Refused, Admitted, Publish, BeginClose, CloseRecord, CloseLifetime
  <2> HIDE DEF Active, Alive
  <2> QED  BY <1>0, <2>1, <2>2
<1>8. ASSUME NEW w \in Proc, TakeLifetime(w) PROVE StaysStill'
  <2>1. CASE Moves(w, "admitted", "owning") /\ UNCHANGED <<running, startup>>
    <3>1. w \in Worker /\ UNCHANGED orphans
      BY <1>8 DEF TakeLifetime
    <3>2. w \notin orphans => Covered(w)
      BY <2>1, <3>1 DEF LifecycleInv, CanBeFound
    <3>3. ASSUME NEW q \in Command, startup = q, step[q] \in {"spawning", "stopped", "maintaining"}, w \notin orphans
          PROVE  FALSE
      BY <3>1, <3>2, <3>3 DEF Covered
    <3>4. \A v \in Worker \ {w} : Active(v)' => Active(v)
      BY <1>0, <2>1
    <3>5. \A q \in Command : step'[q] = step[q] /\ (Alive(q)' <=> Alive(q))
      BY <1>0, <2>1, <3>1
    <3> HIDE DEF Active, Alive
    <3> QED  BY <1>0, <2>1, <3>1, <3>3, <3>4, <3>5
  <2>2. CASE Moves(w, "admitted", "gone") /\ running' = running \ {w} /\ Released(w)
    BY <1>0, <1>8, <2>2 DEF TakeLifetime
  <2> QED  BY <1>8, <2>1, <2>2 DEF TakeLifetime
<1>9. ASSUME NEW q \in Proc, StopSettled(q) \/ Poll(q) PROVE StaysStill'
  <2>1. CASE Moves(q, "excluded", "stopped") /\ Owner = "stopped"
    BY <1>1, <1>9, <2>1, OwnerStopped DEF StopSettled, Poll
  <2>2. CASE Moves(q, "polling", "stopped") /\ Gone
    BY <1>0, <1>1, <1>9, <2>2 DEF StopSettled, Poll, Gone
  <2>3. CASE Moves(q, "excluded", "failed") \/ Moves(q, "polling", "failed")
    BY <1>0, <1>9, <2>3 DEF StopSettled, Poll
  <2> QED  BY <1>9, <2>1, <2>2, <2>3 DEF StopSettled, Poll
<1>10. ASSUME NEW q \in Proc, AskToStop(q) PROVE StaysStill'
  BY <1>0, <1>10 DEF AskToStop
<1>11. ASSUME NEW k \in Proc, Maintain(k) PROVE StaysStill'
  <2>1. CASE SecondLook
    BY <1>1, <1>11, <2>1 DEF Maintain, SecondLook
  <2>2. CASE ~SecondLook
    BY <1>0, <1>11, <2>2 DEF Maintain
  <2> QED  BY <2>1, <2>2
<1>12. ASSUME NEW p \in Proc, Kill(p) PROVE StaysStill'
  BY <1>0, <1>12 DEF Kill
<1>13. CASE UNCHANGED procVars
  BY <1>0, <1>13 DEF procVars
<1> QED
  BY <1>2, <1>3, <1>4, <1>5, <1>6, <1>7, <1>8, <1>9, <1>10, <1>11, <1>12, <1>13
  DEF LifecycleNext, LifecycleStep

LEMMA LifecycleFormStep == LifecycleInv /\ [LifecycleNext]_procVars => LifecycleForm'
<1> SUFFICES ASSUME LifecycleInv, [LifecycleNext]_procVars PROVE LifecycleForm'
  OBVIOUS
<1>0. LifecycleForm
  BY DEF LifecycleInv
<1> USE WorkerLifecycleAssumption DEF LifecycleForm, Moves, Proc, Worker, Command, Child
<1>1. ASSUME NEW p \in Proc, LifecycleStep(p) \/ Kill(p) PROVE LifecycleForm'
  <2>1. step' = [q \in Proc |-> step'[q]]
    BY <1>0, <1>1 DEF LifecycleStep, Exclude, EnsureSettled, EnsureInspect, Spawn, ChildReady, GiveUp, TerminateChild,
      ChildReaped, Inherit, Refused, Admitted, TakeLifetime, Publish, BeginClose, CloseRecord, CloseLifetime,
      StopSettled, AskToStop, Poll, StopReturns, Maintain, FinishMaintenance, Kill
  <2>2. running' \subseteq Proc
    BY <1>0, <1>1 DEF LifecycleStep, Exclude, EnsureSettled, EnsureInspect, Spawn, ChildReady, GiveUp, TerminateChild,
      ChildReaped, Inherit, Refused, Admitted, TakeLifetime, Publish, BeginClose, CloseRecord, CloseLifetime,
      StopSettled, AskToStop, Poll, StopReturns, Maintain, FinishMaintenance, Kill
  <2>3. runtime' \in Worker \cup {Nobody}
    BY <1>0, <1>1 DEF LifecycleStep, Exclude, EnsureSettled, EnsureInspect, Spawn, ChildReady, GiveUp, TerminateChild,
      ChildReaped, Inherit, Refused, Admitted, TakeLifetime, Publish, BeginClose, CloseRecord, CleanRecord, CloseLifetime,
      StopSettled, AskToStop, Poll, StopReturns, Maintain, FinishMaintenance, Kill
  <2> QED  BY <2>1, <2>2, <2>3
<1> QED  BY <1>0, <1>1 DEF LifecycleNext, procVars

\* Two workers never replicate for one home, whoever starts, stops or maintains
\* it and whoever is killed meanwhile; and what was found stopped stays so under
\* the lock it was found under (`ensureOwnedSyncWorker`, `startOwnedSyncWorker`,
\* `stopWorkerUnderExclusion`, `maintainSyncIdentity`).
THEOREM WorkersExcludeAlways == LifecycleSpec => []WorkersExclude
<1>1. LifecycleInv /\ [LifecycleNext]_procVars => LifecycleInv'
  BY LifecycleFormStep, LifetimeIsOwnStep, StartupIsOwnStep, ChildrenFollowStep, CanBeFoundStep, StaysStillStep
  DEF LifecycleInv
<1>2. LifecycleInv => WorkersExclude
  <2> SUFFICES ASSUME LifecycleInv PROVE WorkersExclude
    OBVIOUS
  <2>1. OneWorker
    BY DEF LifecycleInv, LifetimeIsOwn, CanBeFound, OneWorker, Active, Serving
  <2>2. StoppedIsStopped
    BY DEF LifecycleInv, StaysStill, StoppedIsStopped, Command
  <2> QED  BY <2>1, <2>2 DEF WorkersExclude
<1> QED  BY <1>1, <1>2, LifecycleInvInit, PTL DEF LifecycleSpec

-----------------------------------------------------------------------------
(* Which home signs.  A copy keeps the place its owner was anchored at, so   *)
(* that it is anchored itself only once it is quarantined, and signs again   *)
(* only under an id that was drawn for it.                                   *)

MaybeInbox == Inbox \cup {Unset}

OwnerRecord  == [inbox : MaybeInbox, phase : {"none", "forking", "complete"}, quarantined : BOOLEAN,
                 anchor : Home \cup {Unset}, known : SUBSET MaybeInbox]
WorkerRecord == [inbox : MaybeInbox, here : BOOLEAN, alive : BOOLEAN]

IdentityForm ==
  /\ owner \in [Home -> OwnerRecord] /\ reader \in [Home -> MaybeInbox]
  /\ keys \in [Home -> SUBSET MaybeInbox] /\ workerOf \in [Home -> WorkerRecord]
  /\ catalog \in MaybeInbox /\ transition \in [home : Home \cup {Unset}, old : MaybeInbox, new : MaybeInbox]
  /\ DOMAIN upkeep = Home /\ chosen \subseteq Inbox /\ signers \in [Inbox -> SUBSET Home]

\* A home knows the inbox it has and those it had, all of them drawn, and was
\* anchored where there is a home still; where there is none, nothing happens.
KnownWereDrawn ==
  \A h \in Home :
    /\ Exists(h) => /\ owner[h].inbox \in owner[h].known /\ owner[h].known \subseteq chosen
                    /\ owner[h].phase # "none" /\ owner[h].anchor \in Home
    /\ \A a \in Home : Exists(h) /\ owner[h].anchor = a => Exists(a)
    /\ ~Exists(h) => upkeep[h] = "idle" /\ reader[h] = Unset /\ ~workerOf[h].here

\* Where a home may be found to sign.
Entitled(h) == Exists(h) /\ Anchored(h) /\ ~owner[h].quarantined

\* Whoever is entitled to an inbox is the only one, and whoever signed for it
\* was: no other home will be.
SignerAlone ==
  /\ \A g, h \in Home : Entitled(g) /\ Entitled(h) /\ owner[g].inbox = owner[h].inbox => g = h
  /\ \A i \in Inbox : signers[i] # {} => i \in chosen
  /\ \A i \in Inbox, s \in Home : s \in signers[i] =>
       /\ \A g \in signers[i] : g = s
       /\ \A g \in Home : Entitled(g) /\ owner[g].inbox = i => g = s

\* The id of a recorded fork is that of the home it was drawn for, or nobody's.
DrawnForOne ==
  \/ transition = NoTransition
  \/ /\ transition.home \in Home /\ Exists(transition.home)
     /\ transition.old \in chosen /\ transition.new \in chosen /\ transition.old # transition.new
     /\ \/ owner[transition.home].inbox = transition.new
        \/ /\ owner[transition.home].inbox = transition.old
           /\ signers[transition.new] = {}
           /\ \A g \in Home : transition.new \notin owner[g].known

\* Where the fork of a home is, and what it has done by then.
ProceedsIn(h) ==
  /\ registrar = h => transition.home = h /\ Exists(h)
  /\ upkeep[h] \in {"transition", "retiring to fork", "keyed", "committed", "replacing", "replaced",
                    "recovering", "finished", "rebound"} => registrar = h
  /\ upkeep[h] \in {"fork", "quarantine", "idle", "retiring"} => registrar # h
  /\ upkeep[h] = "retiring to fork" => owner[h].inbox = transition.old
  /\ upkeep[h] \in {"retiring", "retiring to fork", "keyed"} => owner[h].quarantined
  /\ upkeep[h] = "keyed" => owner[h].inbox = transition.old /\ transition.new \in keys[h]
  /\ \/ upkeep[h] \in {"committed", "replacing", "replaced", "recovering", "finished", "rebound"}
     \/ upkeep[h] = "forked" /\ registrar = h
     => owner[h].inbox = transition.new
  /\ upkeep[h] \in {"committed", "replacing", "replaced"} =>
       owner[h].phase = "forking" /\ Entitled(h)
  /\ upkeep[h] \in {"replacing", "replaced"} => keys[h] \cap owner[h].known = {owner[h].inbox}
  /\ upkeep[h] = "replaced" => reader[h] = owner[h].inbox

ForkProceeds == \A h \in Home : ProceedsIn(h)

\* What the files of a home say while no fork of it is to be resumed.
AgreesIn(h) ==
  /\ owner[h].phase = "complete" => reader[h] = owner[h].inbox
  /\ owner[h].phase = "complete" /\ Entitled(h) => keys[h] \cap owner[h].known = {owner[h].inbox}
  /\ owner[h].phase = "forking" /\ Entitled(h) => owner[h].inbox \in keys[h]

FilesAgree == \A h \in Home : AgreesIn(h)

\* What the catalog names, while a fork is on its way and when it has ended.
CatalogKnows ==
  /\ Exists(Original)
  /\ transition.home # Original => catalog \in {Unset, owner[Original].inbox}
  /\ transition.home = Original => catalog \in {Unset, transition.old, transition.new}
  /\ transition.home = Original /\ upkeep[Original] = "rebound" => catalog \in {Unset, transition.new}

\* What the record of a worker names: the inbox, or the one it was.
RecordKnowsIn(h) ==
  workerOf[h].here =>
    /\ Anchored(h)
    /\ \/ workerOf[h].inbox = owner[h].inbox
       \/ /\ transition.home = h /\ workerOf[h].inbox = transition.old
          /\ upkeep[h] \notin {"finished", "rebound"}

RecordKnows == \A h \in Home : RecordKnowsIn(h)

IdentityInv ==
  /\ IdentityForm /\ KnownWereDrawn /\ SignerAlone /\ DrawnForOne /\ ForkProceeds
  /\ FilesAgree /\ CatalogKnows /\ RecordKnows

LEMMA IdentityInvInit == IdentityInit => IdentityInv
<1> SUFFICES ASSUME IdentityInit PROVE IdentityInv
  OBVIOUS
<1> USE HomeIdentityAssumption DEF IdentityInit, NoOwner, NoWorker, NoTransition, Exists, Entitled, Anchored
<1>1. IdentityForm /\ KnownWereDrawn
  BY DEF IdentityForm, KnownWereDrawn, OwnerRecord, WorkerRecord, MaybeInbox
<1>2. SignerAlone
  BY DEF SignerAlone
<1>3. DrawnForOne /\ CatalogKnows /\ RecordKnows
  BY DEF DrawnForOne, CatalogKnows, RecordKnows, RecordKnowsIn
<1>4. ForkProceeds
  BY DEF ForkProceeds, ProceedsIn
<1>5. FilesAgree
  BY DEF FilesAgree, AgreesIn
<1> QED  BY <1>1, <1>2, <1>3, <1>4, <1>5 DEF IdentityInv

\* What the steps of maintenance have in common: one home moves from one place
\* to another.
LEMMA Moved ==
  ASSUME NEW h \in Home, DOMAIN upkeep = Home, NEW from, NEW to, To(h, from, to)
  PROVE  /\ DOMAIN upkeep' = Home /\ upkeep[h] = from /\ upkeep'[h] = to
         /\ \A g \in Home \ {h} : upkeep'[g] = upkeep[g]
BY DEF To
\* The records of a home that a step changes stay records.
LEMMA RecordChanges ==
  ASSUME IdentityForm, NEW h \in Home
  PROVE  /\ Resume(h) \in [Home -> OwnerRecord] /\ Quarantined(h) \in [Home -> OwnerRecord]
         /\ [workerOf EXCEPT ![h].alive = FALSE] \in [Home -> WorkerRecord]
         /\ [workerOf[h] EXCEPT !.here = FALSE, !.alive = FALSE] \in WorkerRecord
         /\ owner[h].inbox \in MaybeInbox
<1> owner[h] \in OwnerRecord /\ workerOf[h] \in WorkerRecord
  BY DEF IdentityForm
<1>1. /\ [owner[h] EXCEPT !.phase = "complete"] \in OwnerRecord
      /\ [owner[h] EXCEPT !.quarantined = TRUE, !.anchor = h] \in OwnerRecord
      /\ owner[h].inbox \in MaybeInbox
  BY DEF OwnerRecord
<1>2. /\ [workerOf[h] EXCEPT !.alive = FALSE] \in WorkerRecord
      /\ [workerOf[h] EXCEPT !.here = FALSE, !.alive = FALSE] \in WorkerRecord
  BY DEF WorkerRecord
<1>3. Resume(h) = [owner EXCEPT ![h] = [owner[h] EXCEPT !.phase = "complete"]]
  BY DEF Resume, IdentityForm
<1>4. Quarantined(h) = [owner EXCEPT ![h] = [owner[h] EXCEPT !.quarantined = TRUE, !.anchor = h]]
  BY DEF Quarantined, IdentityForm
<1>5. [workerOf EXCEPT ![h].alive = FALSE] = [workerOf EXCEPT ![h] = [workerOf[h] EXCEPT !.alive = FALSE]]
  BY DEF IdentityForm
<1> QED  BY <1>1, <1>2, <1>3, <1>4, <1>5 DEF IdentityForm

\* A fork begins with the intent that is recorded for this home, or records one.
LEMMA TransitionBegins ==
  ASSUME NEW h \in Home, BeginTransition(h)
  PROVE  /\ registrar = Unset /\ registrar' = h /\ To(h, "fork", "transition")
         /\ UNCHANGED <<owner, reader, keys, workerOf, catalog, signers, stops>>
         /\ \/ /\ transition.home = h /\ (Recorded(h) \/ transition.old = owner[h].inbox)
               /\ UNCHANGED <<transition, chosen>>
            \/ /\ transition = NoTransition /\ (h = Original => catalog \in {Unset, owner[h].inbox})
               /\ \E i \in Inbox \ chosen :
                    /\ transition' = [home |-> h, old |-> owner[h].inbox, new |-> i]
                    /\ chosen' = chosen \cup {i}
BY DEF BeginTransition

\* Every file keeps its form.
LEMMA IdentityFormStep == IdentityInv /\ [IdentityNext]_idVars => IdentityForm'
<1> SUFFICES ASSUME IdentityInv, [IdentityNext]_idVars PROVE IdentityForm'
  OBVIOUS
<1>0. IdentityForm
  BY DEF IdentityInv
<1> USE HomeIdentityAssumption DEF IdentityForm, To, MaybeInbox
<1>1. ASSUME NEW h \in Home, NEW to \in Home, CopyHome(h, to)
      PROVE  IdentityForm'
  BY <1>0, <1>1, RecordChanges DEF CopyHome, NoWorker
<1>2. ASSUME NEW h \in Home, RecoverHome(h)
      PROVE  IdentityForm'
  BY <1>0, <1>2, RecordChanges DEF RecoverHome, RetiredKeys
<1>3. ASSUME NEW h \in Home, Sign(h)
      PROVE  IdentityForm'
  BY <1>0, <1>3 DEF Sign, MaySign, InUse
<1>4. ASSUME NEW h \in Home, StartWorker(h)
      PROVE  IdentityForm'
  BY <1>0, <1>4 DEF StartWorker, OwnerRecord, WorkerRecord, InUse
<1>5. ASSUME NEW h \in Home, KillWorker(h)
      PROVE  IdentityForm'
  BY <1>0, <1>5, RecordChanges DEF KillWorker
<1>6. ASSUME NEW h \in Home, NEW action \in {"fork", "quarantine"}, BeginUpkeep(h, action)
      PROVE  IdentityForm'
  BY <1>0, <1>6 DEF BeginUpkeep, OwnerRecord, WorkerRecord, NoWorker
<1>7. ASSUME NEW h \in Home, CommitQuarantine(h)
      PROVE  IdentityForm'
  BY <1>0, <1>7, RecordChanges DEF CommitQuarantine
<1>8. ASSUME NEW h \in Home, RetireKeys(h)
      PROVE  IdentityForm'
  BY <1>0, <1>8 DEF RetireKeys, RetiredKeys
<1>9. ASSUME NEW h \in Home, BeginTransition(h)
      PROVE  IdentityForm'
  <2>1. CASE UNCHANGED <<transition, chosen>>
    BY <1>0, <1>9, <2>1, TransitionBegins
  <2>2. CASE \E i \in Inbox \ chosen :
               /\ transition' = [home |-> h, old |-> owner[h].inbox, new |-> i]
               /\ chosen' = chosen \cup {i}
    <3>1. PICK i \in Inbox \ chosen : /\ transition' = [home |-> h, old |-> owner[h].inbox, new |-> i]
                                    /\ chosen' = chosen \cup {i}
      BY <2>2
    <3>2. PICK o : o = owner[h].inbox
      OBVIOUS
    <3>3. o \in MaybeInbox /\ transition' = [home |-> h, old |-> o, new |-> i]
      BY <1>0, <3>1, <3>2, RecordChanges
    <3>4. transition' \in [home : Home \cup {Unset}, old : MaybeInbox, new : MaybeInbox]
      BY <3>3
    <3> QED  BY <1>0, <1>9, <3>1, <3>4, TransitionBegins
  <2> QED  BY <1>9, <2>1, <2>2, TransitionBegins
<1>10. ASSUME NEW h \in Home, TransitionRefused(h)
      PROVE  IdentityForm'
  BY <1>0, <1>10 DEF TransitionRefused
<1>11. ASSUME NEW h \in Home, ForkAgain(h)
      PROVE  IdentityForm'
  BY <1>0, <1>11 DEF ForkAgain
<1>12. ASSUME NEW h \in Home, CreateKey(h)
      PROVE  IdentityForm'
  BY <1>0, <1>12 DEF CreateKey
<1>13. ASSUME NEW h \in Home, CommitFork(h)
      PROVE  IdentityForm'
  BY <1>0, <1>13 DEF CommitFork, OwnerRecord, WorkerRecord, ForkedPhase
<1>14. ASSUME NEW h \in Home, ReplaceReader(h)
      PROVE  IdentityForm'
  BY <1>0, <1>14, RecordChanges DEF ReplaceReader
<1>15. ASSUME NEW h \in Home, CompleteFork(h)
      PROVE  IdentityForm'
  BY <1>0, <1>15, RecordChanges DEF CompleteFork
<1>16. ASSUME NEW h \in Home, FinishUpkeep(h)
      PROVE  IdentityForm'
  BY <1>0, <1>16 DEF FinishUpkeep, OwnerRecord, WorkerRecord, NoWorker
<1>17. ASSUME NEW h \in Home, RebindCatalog(h)
      PROVE  IdentityForm'
  BY <1>0, <1>17 DEF RebindCatalog, Rebound
<1>18. ASSUME NEW h \in Home, EndTransition(h)
      PROVE  IdentityForm'
  BY <1>0, <1>18 DEF EndTransition, NoTransition
<1>19. ASSUME NEW h \in Home, KillUpkeep(h)
      PROVE  IdentityForm'
  BY <1>0, <1>19 DEF KillUpkeep
<1>20. CASE UNCHANGED idVars
  BY <1>0, <1>20 DEF idVars
<1> QED
  BY <1>1, <1>2, <1>3, <1>4, <1>5, <1>6, <1>7, <1>8, <1>9, <1>10, <1>11, <1>12, <1>13, <1>14, <1>15, <1>16, <1>17, <1>18, <1>19, <1>20 DEF IdentityNext, Upkeep

\* What a recovery, a quarantine and a fork write into the ledger of a home.
LEMMA OwnerResumes ==
  ASSUME IdentityForm, NEW h \in Home, owner' = Resume(h)
  PROVE  \A g \in Home :
           /\ owner'[g].inbox = owner[g].inbox /\ owner'[g].known = owner[g].known
           /\ owner'[g].quarantined = owner[g].quarantined /\ owner'[g].anchor = owner[g].anchor
           /\ owner'[g].phase = IF g = h THEN "complete" ELSE owner[g].phase
           /\ Exists(g)' <=> g = h \/ Exists(g)
BY DEF IdentityForm, OwnerRecord, Resume, Exists, NoOwner

LEMMA OwnerQuarantined ==
  ASSUME IdentityForm, NEW h \in Home, owner' = Quarantined(h)
  PROVE  /\ \A g \in Home \ {h} : owner'[g] = owner[g] /\ (Exists(g)' <=> Exists(g))
         /\ owner'[h].inbox = owner[h].inbox /\ owner'[h].known = owner[h].known
         /\ owner'[h].phase = owner[h].phase /\ owner'[h].quarantined /\ owner'[h].anchor = h /\ Exists(h)'
<1>1. \A g \in Home \ {h} : owner'[g] = owner[g]
  BY DEF IdentityForm, Quarantined
<1>2. owner'[h] = [owner[h] EXCEPT !.quarantined = TRUE, !.anchor = h]
  BY DEF IdentityForm, Quarantined
<1>3. owner[h] \in OwnerRecord
  BY DEF IdentityForm
<1>4. /\ owner'[h].inbox = owner[h].inbox /\ owner'[h].known = owner[h].known
      /\ owner'[h].phase = owner[h].phase /\ owner'[h].quarantined /\ owner'[h].anchor = h
  BY <1>2, <1>3 DEF OwnerRecord
<1> QED  BY <1>1, <1>4, HomeIdentityAssumption DEF Exists, NoOwner

LEMMA OwnerForks ==
  ASSUME IdentityForm, NEW h \in Home, CommitFork(h)
  PROVE  /\ \A g \in Home \ {h} : owner'[g] = owner[g] /\ (Exists(g)' <=> Exists(g))
         /\ owner'[h].inbox = transition.new /\ owner'[h].phase = "forking" /\ ~owner'[h].quarantined
         /\ owner'[h].anchor = h /\ owner'[h].known = owner[h].known \cup {transition.new} /\ Exists(h)'
BY DEF IdentityForm, OwnerRecord, CommitFork, ForkedPhase, Exists, NoOwner

\* A home takes an id that was drawn, and nothing happens where there is none.
LEMMA KnownWereDrawnStep == IdentityInv /\ [IdentityNext]_idVars => KnownWereDrawn'
<1> SUFFICES ASSUME IdentityInv, [IdentityNext]_idVars PROVE KnownWereDrawn'
  OBVIOUS
<1>0. IdentityForm /\ KnownWereDrawn /\ DrawnForOne /\ ForkProceeds
  BY DEF IdentityInv
<1> USE HomeIdentityAssumption DEF IdentityForm, KnownWereDrawn, To
<1>1. ASSUME NEW h \in Home, NEW to \in Home, CopyHome(h, to)
      PROVE  KnownWereDrawn'
  BY <1>0, <1>1 DEF CopyHome, Exists, NoOwner, NoWorker
<1>2. ASSUME NEW h \in Home, RecoverHome(h)
      PROVE  KnownWereDrawn'
  BY <1>0, <1>2, OwnerResumes DEF RecoverHome, RetiredKeys
<1>3. ASSUME NEW h \in Home, Sign(h)
      PROVE  KnownWereDrawn'
  BY <1>0, <1>3 DEF Exists, Sign, MaySign, InUse
<1>4. ASSUME NEW h \in Home, StartWorker(h)
      PROVE  KnownWereDrawn'
  BY <1>0, <1>4 DEF Exists, StartWorker, InUse
<1>5. ASSUME NEW h \in Home, KillWorker(h)
      PROVE  KnownWereDrawn'
  BY <1>0, <1>5 DEF Exists, KillWorker
<1>6. ASSUME NEW h \in Home, NEW action \in {"fork", "quarantine"}, BeginUpkeep(h, action)
      PROVE  KnownWereDrawn'
  BY <1>0, <1>6 DEF Exists, BeginUpkeep, NoWorker
<1>7. ASSUME NEW h \in Home, CommitQuarantine(h)
      PROVE  KnownWereDrawn'
  <2>1. /\ upkeep[h] # "idle" /\ owner' = Quarantined(h) /\ \A g \in Home \ {h} : upkeep'[g] = upkeep[g]
        /\ UNCHANGED <<reader, workerOf, chosen>>
    BY <1>0, <1>7 DEF CommitQuarantine
  <2>2. Exists(h)
    BY <1>0, <2>1
  <2>3. \A a \in Home : Exists(a)' <=> Exists(a)
    BY <1>0, <2>1, <2>2, OwnerQuarantined
  <2>4. /\ \A g \in Home \ {h} : owner'[g] = owner[g]
        /\ owner'[h].inbox = owner[h].inbox /\ owner'[h].known = owner[h].known
        /\ owner'[h].phase = owner[h].phase /\ owner'[h].anchor = h
    BY <1>0, <2>1, OwnerQuarantined
  <2>5. \A g \in Home : /\ owner'[g].inbox = owner[g].inbox /\ owner'[g].known = owner[g].known
                        /\ owner'[g].phase = owner[g].phase
                        /\ owner'[g].anchor = IF g = h THEN h ELSE owner[g].anchor
    BY <2>4
  <2> HIDE DEF IdentityForm, To
  <2>6. ASSUME NEW g \in Home, Exists(g)'
        PROVE  /\ owner'[g].inbox \in owner'[g].known /\ owner'[g].known \subseteq chosen'
               /\ owner'[g].phase # "none" /\ owner'[g].anchor \in Home
    <3>1. Exists(g)
      BY <2>3, <2>6
    <3> QED  BY <1>0, <3>1, <2>1, <2>5
  <2>7. ASSUME NEW g \in Home, NEW a \in Home, Exists(g)', owner'[g].anchor = a PROVE Exists(a)'
    BY <1>0, <2>2, <2>3, <2>5, <2>7
  <2>8. ASSUME NEW g \in Home, ~Exists(g)' PROVE upkeep'[g] = "idle" /\ reader'[g] = Unset /\ ~workerOf'[g].here
    BY <1>0, <2>1, <2>2, <2>3, <2>8
  <2> QED  BY <2>6, <2>7, <2>8 DEF KnownWereDrawn
<1>8. ASSUME NEW h \in Home, RetireKeys(h)
      PROVE  KnownWereDrawn'
  <2>1. /\ upkeep[h] # "idle" /\ \A g \in Home \ {h} : upkeep'[g] = upkeep[g]
        /\ UNCHANGED <<owner, reader, workerOf, chosen>>
    BY <1>0, <1>8 DEF RetireKeys
  <2> HIDE DEF IdentityForm, To
  <2> QED  BY <1>0, <2>1 DEF Exists
<1>9. ASSUME NEW h \in Home, BeginTransition(h)
      PROVE  KnownWereDrawn'
  BY <1>0, <1>9 DEF Exists, BeginTransition
<1>10. ASSUME NEW h \in Home, TransitionRefused(h)
      PROVE  KnownWereDrawn'
  BY <1>0, <1>10 DEF Exists, TransitionRefused
<1>11. ASSUME NEW h \in Home, ForkAgain(h)
      PROVE  KnownWereDrawn'
  BY <1>0, <1>11 DEF Exists, ForkAgain
<1>12. ASSUME NEW h \in Home, CreateKey(h)
      PROVE  KnownWereDrawn'
  BY <1>0, <1>12 DEF Exists, CreateKey
<1>13. ASSUME NEW h \in Home, CommitFork(h)
      PROVE  KnownWereDrawn'
  <2>1. /\ upkeep[h] = "keyed" /\ \A g \in Home \ {h} : upkeep'[g] = upkeep[g]
        /\ UNCHANGED <<reader, workerOf, chosen>>
    BY <1>0, <1>13 DEF CommitFork
  <2>a. transition.home = h /\ Exists(h)
    BY <1>0, <2>1 DEF ForkProceeds, ProceedsIn
  <2>b. transition # NoTransition
    BY <2>a DEF NoTransition
  <2>2. Exists(h) /\ transition.new \in chosen
    BY <1>0, <2>a, <2>b DEF DrawnForOne
  <2>3. ASSUME NEW g \in Home \ {h} PROVE UNCHANGED <<owner[g], upkeep[g], reader[g], workerOf[g]>> /\ (Exists(g)' <=> Exists(g))
    BY <1>0, <1>13, <2>1, OwnerForks
  <2> QED  BY <1>0, <1>13, <2>1, <2>2, <2>3, OwnerForks
<1>14. ASSUME NEW h \in Home, ReplaceReader(h)
      PROVE  KnownWereDrawn'
  BY <1>0, <1>14 DEF Exists, ReplaceReader
<1>15. ASSUME NEW h \in Home, CompleteFork(h)
      PROVE  KnownWereDrawn'
  BY <1>0, <1>15, OwnerResumes DEF CompleteFork
<1>16. ASSUME NEW h \in Home, FinishUpkeep(h)
      PROVE  KnownWereDrawn'
  BY <1>0, <1>16 DEF Exists, FinishUpkeep, NoWorker
<1>17. ASSUME NEW h \in Home, RebindCatalog(h)
      PROVE  KnownWereDrawn'
  BY <1>0, <1>17 DEF Exists, RebindCatalog, Rebound
<1>18. ASSUME NEW h \in Home, EndTransition(h)
      PROVE  KnownWereDrawn'
  BY <1>0, <1>18 DEF Exists, EndTransition, NoTransition
<1>19. ASSUME NEW h \in Home, KillUpkeep(h)
      PROVE  KnownWereDrawn'
  BY <1>0, <1>19 DEF Exists, KillUpkeep
<1>20. CASE UNCHANGED idVars
  BY <1>0, <1>20 DEF idVars, Exists
<1> QED
  BY <1>1, <1>2, <1>3, <1>4, <1>5, <1>6, <1>7, <1>8, <1>9, <1>10, <1>11, <1>12, <1>13, <1>14, <1>15, <1>16, <1>17, <1>18, <1>19, <1>20 DEF IdentityNext, Upkeep

\* No step but a fork makes a home sign that did not, or for another inbox.
LEMMA EntitledBefore ==
  ASSUME IdentityInv, IdentityNext, NEW g \in Home, ~CommitFork(g), Entitled(g)'
  PROVE  Entitled(g) /\ owner'[g].inbox = owner[g].inbox
<1>0. IdentityForm /\ KnownWereDrawn
  BY DEF IdentityInv
<1> USE <1>0 DEF Entitled, Anchored
<1>1. ASSUME NEW h \in Home, NEW to \in Home, CopyHome(h, to) PROVE Entitled(g) /\ owner'[g].inbox = owner[g].inbox
  BY <1>1 DEF CopyHome, IdentityForm, KnownWereDrawn, Exists
<1>2. ASSUME NEW h \in Home, RecoverHome(h) PROVE Entitled(g) /\ owner'[g].inbox = owner[g].inbox
  BY <1>2, OwnerResumes DEF RecoverHome
<1>3. ASSUME NEW h \in Home, CompleteFork(h) PROVE Entitled(g) /\ owner'[g].inbox = owner[g].inbox
  <2>1. Exists(h) /\ owner' = Resume(h)
    BY <1>3 DEF KnownWereDrawn, CompleteFork, To
  <2> QED  BY <2>1, OwnerResumes
<1>4. ASSUME NEW h \in Home, CommitQuarantine(h) PROVE Entitled(g) /\ owner'[g].inbox = owner[g].inbox
  BY <1>4, OwnerQuarantined DEF CommitQuarantine
<1>5. ASSUME NEW h \in Home, h # g, CommitFork(h) PROVE Entitled(g) /\ owner'[g].inbox = owner[g].inbox
  BY <1>5, OwnerForks
<1>6. CASE owner' = owner
  BY <1>6 DEF Exists
<1>7. ASSUME NEW h \in Home, \/ Sign(h) \/ StartWorker(h) \/ KillWorker(h) \/ KillUpkeep(h) \/ RetireKeys(h)
                             \/ BeginUpkeep(h, "fork") \/ BeginUpkeep(h, "quarantine") \/ BeginTransition(h)
                             \/ TransitionRefused(h) \/ ForkAgain(h) \/ CreateKey(h) \/ ReplaceReader(h)
                             \/ FinishUpkeep(h) \/ RebindCatalog(h) \/ EndTransition(h)
      PROVE  owner' = owner
  BY <1>7 DEF Sign, StartWorker, KillWorker, KillUpkeep, RetireKeys, BeginUpkeep, BeginTransition,
    TransitionRefused, ForkAgain, CreateKey, ReplaceReader, FinishUpkeep, RebindCatalog, EndTransition
<1> QED
  BY <1>1, <1>2, <1>3, <1>4, <1>5, <1>6, <1>7 DEF IdentityNext, Upkeep


\* What is left alone: all steps but these leave the ledgers alone, and all but
\* `Sign` what was signed.
LEMMA ChosenGrows == ASSUME IdentityForm, IdentityNext PROVE chosen \subseteq chosen'
<1>1. ASSUME NEW h \in Home, BeginTransition(h) PROVE chosen \subseteq chosen'
  BY <1>1, TransitionBegins
<1> QED
  BY <1>1 DEF IdentityNext, Upkeep, CopyHome, RecoverHome, Sign, StartWorker, KillWorker, KillUpkeep, BeginUpkeep,
    CommitQuarantine, RetireKeys, TransitionRefused, ForkAgain, CreateKey, CommitFork, ReplaceReader,
    CompleteFork, FinishUpkeep, RebindCatalog, EndTransition

LEMMA SignersStay ==
  ASSUME IdentityNext, \A h \in Home : ~Sign(h) PROVE signers' = signers
BY DEF IdentityNext, Upkeep, CopyHome, RecoverHome, StartWorker, KillWorker, KillUpkeep, BeginUpkeep,
  CommitQuarantine, RetireKeys, BeginTransition, TransitionRefused, ForkAgain, CreateKey, CommitFork,
  ReplaceReader, CompleteFork, FinishUpkeep, RebindCatalog, EndTransition

\* A fork commits under an id that no home knows and nobody has signed for.
LEMMA ForkIsNew ==
  ASSUME IdentityInv, NEW h \in Home, CommitFork(h)
  PROVE  /\ transition.home = h /\ transition.new \in chosen /\ transition.old \in chosen
         /\ owner[h].inbox = transition.old /\ transition.old # transition.new
         /\ signers[transition.new] = {} /\ \A g \in Home : transition.new \notin owner[g].known
<1>1. upkeep[h] = "keyed"
  BY DEF CommitFork, To
<1>2. transition.home = h /\ owner[h].inbox = transition.old
  BY <1>1 DEF IdentityInv, ForkProceeds, ProceedsIn
<1>3. transition # NoTransition
  BY <1>2, HomeIdentityAssumption DEF NoTransition
<1> QED  BY <1>2, <1>3 DEF IdentityInv, DrawnForOne

\* A home that signs is entitled to; a fork commits under an id of its own.
LEMMA SignerAloneStep == IdentityInv /\ [IdentityNext]_idVars => SignerAlone'
<1> SUFFICES ASSUME IdentityInv, [IdentityNext]_idVars PROVE SignerAlone'
  OBVIOUS
<1>0. IdentityForm /\ KnownWereDrawn /\ SignerAlone
  BY DEF IdentityInv
<1>1. ASSUME NEW h \in Home, CommitFork(h), IdentityNext PROVE SignerAlone'
  <2>1. UNCHANGED <<signers, chosen>>
    BY <1>1 DEF CommitFork
  <2>2. PICK new : new = transition.new
    OBVIOUS
  <2>3. new \in chosen /\ signers[new] = {} /\ \A g \in Home : new \notin owner[g].known
    BY <1>1, <2>2, ForkIsNew
  <2>4. owner'[h].inbox = new
    BY <1>0, <1>1, <2>2, OwnerForks
  <2>5. ASSUME NEW g \in Home \ {h}, Entitled(g)'
        PROVE  Entitled(g) /\ owner'[g].inbox = owner[g].inbox /\ owner[g].inbox # new
    <3>1. ~CommitFork(g)
      BY <1>1, <1>0 DEF CommitFork, To, IdentityForm
    <3>2. Entitled(g) /\ owner'[g].inbox = owner[g].inbox
      BY <1>1, <2>5, <3>1, EntitledBefore
    <3> QED  BY <1>0, <2>3, <3>2 DEF KnownWereDrawn, Entitled
  <2>6. \A a, b \in Home : Entitled(a)' /\ Entitled(b)' /\ owner'[a].inbox = owner'[b].inbox => a = b
    BY <1>0, <2>4, <2>5 DEF SignerAlone
  <2>7. ASSUME NEW i \in Inbox, NEW s \in Home, s \in signers[i], NEW g \in Home, Entitled(g)', owner'[g].inbox = i
        PROVE  g = s
    BY <1>0, <2>3, <2>4, <2>5, <2>7 DEF SignerAlone
  <2> QED  BY <1>0, <2>1, <2>6, <2>7 DEF SignerAlone
<1>2. ASSUME NEW h \in Home, Sign(h), IdentityNext PROVE SignerAlone'
  <2>1. PICK i \in Inbox : i = owner[h].inbox /\ i \in chosen
    BY <1>0, <1>2 DEF Sign, MaySign, InUse, KnownWereDrawn, IdentityForm
  <2>2. signers' = [signers EXCEPT ![i] = @ \cup {h}] /\ UNCHANGED <<owner, chosen>> /\ Entitled(h)
    BY <1>2, <2>1 DEF Sign, MaySign, InUse, Entitled
  <2>3. \A g \in Home : (Entitled(g)' <=> Entitled(g)) /\ owner'[g].inbox = owner[g].inbox
    BY <2>2 DEF Entitled, Exists, Anchored
  <2>4. \A s \in signers[i] : s = h
    BY <1>0, <2>1, <2>2 DEF SignerAlone, IdentityForm
  <2>5. signers'[i] = {h} /\ \A j \in Inbox \ {i} : signers'[j] = signers[j]
    BY <1>0, <2>2, <2>4 DEF IdentityForm
  <2>6. \A a, b \in Home : Entitled(a)' /\ Entitled(b)' /\ owner'[a].inbox = owner'[b].inbox => a = b
    BY <1>0, <2>3 DEF SignerAlone
  <2>7. \A j \in Inbox : signers'[j] # {} => j \in chosen
    BY <1>0, <2>1, <2>5 DEF SignerAlone
  <2>8. ASSUME NEW j \in Inbox, NEW s \in Home, s \in signers'[j]
        PROVE  /\ \A g \in signers'[j] : g = s
               /\ \A g \in Home : Entitled(g)' /\ owner'[g].inbox = j => g = s
    <3>1. CASE j = i
      BY <1>0, <2>1, <2>2, <2>3, <2>5, <2>8, <3>1 DEF SignerAlone
    <3>2. CASE j # i
      BY <1>0, <2>3, <2>5, <2>8, <3>2 DEF SignerAlone
    <3> QED  BY <3>1, <3>2
  <2> QED  BY <2>2, <2>6, <2>7, <2>8 DEF SignerAlone
<1>3. CASE IdentityNext /\ \A h \in Home : ~CommitFork(h) /\ ~Sign(h)
  <2>1. signers' = signers /\ chosen \subseteq chosen'
    BY <1>0, <1>3, SignersStay, ChosenGrows
  <2>2. \A g \in Home : Entitled(g)' => Entitled(g) /\ owner'[g].inbox = owner[g].inbox
    BY <1>3, EntitledBefore
  <2>3. \A a, b \in Home : Entitled(a)' /\ Entitled(b)' /\ owner'[a].inbox = owner'[b].inbox => a = b
    BY <1>0, <2>2 DEF SignerAlone
  <2>4. ASSUME NEW i \in Inbox, NEW s \in Home, s \in signers[i], NEW g \in Home, Entitled(g)', owner'[g].inbox = i
        PROVE  g = s
    BY <1>0, <2>2, <2>4 DEF SignerAlone
  <2> QED  BY <1>0, <2>1, <2>3, <2>4 DEF SignerAlone
<1>4. CASE UNCHANGED idVars
  BY <1>0, <1>4 DEF idVars, SignerAlone, Entitled, Exists, Anchored
<1> QED  BY <1>1, <1>2, <1>3, <1>4


\* What every home knows, no step but a copy and a fork changes.
LEMMA KnownStays ==
  ASSUME IdentityInv, IdentityNext, NEW g \in Home, ~CommitFork(g)
  PROVE  \/ owner'[g].known = owner[g].known
         \/ \E h \in Home : Exists(h) /\ owner'[g].known = owner[h].known
<1>0. IdentityForm /\ KnownWereDrawn
  BY DEF IdentityInv
<1> USE <1>0
<1> DEFINE Stays == \/ owner'[g].known = owner[g].known
                    \/ \E h \in Home : Exists(h) /\ owner'[g].known = owner[h].known
<1>1. ASSUME NEW h \in Home, NEW to \in Home, CopyHome(h, to) PROVE Stays
  BY <1>1 DEF CopyHome, IdentityForm
<1>2. ASSUME NEW h \in Home, RecoverHome(h) PROVE Stays
  BY <1>2, OwnerResumes DEF RecoverHome
<1>3. ASSUME NEW h \in Home, CompleteFork(h) PROVE Stays
  BY <1>3, OwnerResumes DEF CompleteFork
<1>4. ASSUME NEW h \in Home, CommitQuarantine(h) PROVE Stays
  BY <1>4, OwnerQuarantined DEF CommitQuarantine
<1>5. ASSUME NEW h \in Home, h # g, CommitFork(h) PROVE Stays
  BY <1>5, OwnerForks
<1>6. ASSUME NEW h \in Home, \/ Sign(h) \/ StartWorker(h) \/ KillWorker(h) \/ KillUpkeep(h) \/ RetireKeys(h)
                             \/ BeginUpkeep(h, "fork") \/ BeginUpkeep(h, "quarantine") \/ BeginTransition(h)
                             \/ TransitionRefused(h) \/ ForkAgain(h) \/ CreateKey(h) \/ ReplaceReader(h)
                             \/ FinishUpkeep(h) \/ RebindCatalog(h) \/ EndTransition(h)
      PROVE  Stays
  BY <1>6 DEF Sign, StartWorker, KillWorker, KillUpkeep, RetireKeys, BeginUpkeep, BeginTransition,
    TransitionRefused, ForkAgain, CreateKey, ReplaceReader, FinishUpkeep, RebindCatalog, EndTransition
<1> QED
  BY <1>1, <1>2, <1>3, <1>4, <1>5, <1>6 DEF IdentityNext, Upkeep

\* So with the inbox of a home there is, and the home itself.
LEMMA InboxStays ==
  ASSUME IdentityInv, IdentityNext, NEW g \in Home, ~CommitFork(g), Exists(g)
  PROVE  Exists(g)' /\ owner'[g].inbox = owner[g].inbox
<1>0. IdentityForm /\ KnownWereDrawn
  BY DEF IdentityInv
<1> USE <1>0
<1> DEFINE Stays == Exists(g)' /\ owner'[g].inbox = owner[g].inbox
<1>1. ASSUME NEW h \in Home, NEW to \in Home, CopyHome(h, to) PROVE Stays
  BY <1>1 DEF CopyHome, IdentityForm, Exists
<1>2. ASSUME NEW h \in Home, RecoverHome(h) PROVE Stays
  BY <1>2, OwnerResumes DEF RecoverHome
<1>3. ASSUME NEW h \in Home, CompleteFork(h) PROVE Stays
  BY <1>3, OwnerResumes DEF CompleteFork
<1>4. ASSUME NEW h \in Home, CommitQuarantine(h) PROVE Stays
  BY <1>4, OwnerQuarantined DEF CommitQuarantine
<1>5. ASSUME NEW h \in Home, h # g, CommitFork(h) PROVE Stays
  BY <1>5, OwnerForks
<1>6. ASSUME NEW h \in Home, \/ Sign(h) \/ StartWorker(h) \/ KillWorker(h) \/ KillUpkeep(h) \/ RetireKeys(h)
                             \/ BeginUpkeep(h, "fork") \/ BeginUpkeep(h, "quarantine") \/ BeginTransition(h)
                             \/ TransitionRefused(h) \/ ForkAgain(h) \/ CreateKey(h) \/ ReplaceReader(h)
                             \/ FinishUpkeep(h) \/ RebindCatalog(h) \/ EndTransition(h)
      PROVE  owner' = owner
  BY <1>6 DEF Sign, StartWorker, KillWorker, KillUpkeep, RetireKeys, BeginUpkeep, BeginTransition,
    TransitionRefused, ForkAgain, CreateKey, ReplaceReader, FinishUpkeep, RebindCatalog, EndTransition
<1>7. CASE owner' = owner
  BY <1>7 DEF Exists
<1> QED
  BY <1>1, <1>2, <1>3, <1>4, <1>5, <1>6, <1>7 DEF IdentityNext, Upkeep

\* The recorded intent changes where a fork begins and where it has ended.
LEMMA TransitionStays ==
  ASSUME IdentityNext, \A h \in Home : ~BeginTransition(h) /\ ~EndTransition(h) PROVE transition' = transition
BY DEF IdentityNext, Upkeep, CopyHome, RecoverHome, Sign, StartWorker, KillWorker, KillUpkeep, BeginUpkeep,
  CommitQuarantine, RetireKeys, TransitionRefused, ForkAgain, CreateKey, CommitFork, ReplaceReader,
  CompleteFork, FinishUpkeep, RebindCatalog

\* A new id is drawn for one home, which is the one that takes it.
LEMMA DrawnForOneStep == IdentityInv /\ [IdentityNext]_idVars => DrawnForOne'
<1> SUFFICES ASSUME IdentityInv, [IdentityNext]_idVars PROVE DrawnForOne'
  OBVIOUS
<1>0. IdentityForm /\ KnownWereDrawn /\ SignerAlone /\ DrawnForOne
  BY DEF IdentityInv
<1>1. ASSUME NEW h \in Home, BeginTransition(h) PROVE DrawnForOne'
  <2>1. Exists(h) /\ UNCHANGED <<owner, signers>>
    BY <1>0, <1>1, TransitionBegins DEF KnownWereDrawn, To
  <2>2. CASE UNCHANGED <<transition, chosen>>
    BY <1>0, <2>1, <2>2 DEF DrawnForOne, Exists
  <2>3. CASE \E i \in Inbox \ chosen : /\ transition' = [home |-> h, old |-> owner[h].inbox, new |-> i]
                                       /\ chosen' = chosen \cup {i}
    <3>1. PICK i \in Inbox \ chosen : /\ transition' = [home |-> h, old |-> owner[h].inbox, new |-> i]
                                      /\ chosen' = chosen \cup {i}
      BY <2>3
    <3>2. \A g \in Home : i \notin owner[g].known
      BY <1>0 DEF KnownWereDrawn, Exists, NoOwner
    <3>3. signers[i] = {}
      BY <1>0 DEF SignerAlone
    <3>4. owner[h].inbox \in chosen
      BY <1>0, <2>1 DEF KnownWereDrawn
    <3>5. transition'.home = h /\ transition'.old = owner[h].inbox /\ transition'.new = i
      BY <3>1
    <3> QED  BY <2>1, <3>1, <3>2, <3>3, <3>4, <3>5 DEF DrawnForOne, Exists
  <2> QED  BY <1>1, <2>2, <2>3, TransitionBegins
<1>2. ASSUME NEW h \in Home, EndTransition(h) PROVE DrawnForOne'
  BY <1>2 DEF EndTransition, DrawnForOne, NoTransition
<1>3. CASE IdentityNext /\ \A h \in Home : ~BeginTransition(h) /\ ~EndTransition(h)
  <2>1. transition' = transition /\ chosen \subseteq chosen'
    BY <1>0, <1>3, TransitionStays, ChosenGrows
  <2>2. CASE transition = NoTransition
    BY <2>1, <2>2 DEF DrawnForOne, NoTransition
  <2>3. CASE transition # NoTransition
    <3>1. PICK h : h = transition.home
      OBVIOUS
    <3>2. PICK new : new = transition.new
      OBVIOUS
    <3>3. PICK old : old = transition.old
      OBVIOUS
    <3>4. /\ h \in Home /\ Exists(h) /\ old \in chosen /\ new \in chosen /\ old # new
          /\ \/ owner[h].inbox = new
             \/ owner[h].inbox = old /\ signers[new] = {} /\ \A g \in Home : new \notin owner[g].known
      BY <1>0, <2>3, <3>1, <3>2, <3>3 DEF DrawnForOne
    <3>5. CASE CommitFork(h)
      BY <1>0, <2>1, <3>1, <3>2, <3>3, <3>4, <3>5, OwnerForks DEF DrawnForOne
    <3>6. CASE ~CommitFork(h)
      <4>1. Exists(h)' /\ owner'[h].inbox = owner[h].inbox
        BY <1>3, <3>4, <3>6, InboxStays
      <4>2. CASE owner[h].inbox = new
        BY <2>1, <3>1, <3>2, <3>3, <3>4, <4>1, <4>2 DEF DrawnForOne
      <4>3. CASE owner[h].inbox = old /\ signers[new] = {} /\ \A g \in Home : new \notin owner[g].known
        <5>1. ASSUME NEW g \in Home PROVE new \notin owner'[g].known
          <6>1. ~CommitFork(g)
            BY <3>1, <3>6, ForkIsNew
          <6> QED  BY <1>3, <4>3, <6>1, KnownStays
        <5>2. signers'[new] = {}
          <6>1. ASSUME NEW s \in Home, Sign(s) PROVE owner[s].inbox # new /\ signers' = [signers EXCEPT ![owner[s].inbox] = @ \cup {s}]
            BY <1>0, <4>3, <6>1 DEF Sign, MaySign, InUse, KnownWereDrawn
          <6> QED  BY <1>0, <1>3, <3>4, <4>3, <6>1, SignersStay DEF IdentityForm
        <5> QED  BY <2>1, <3>1, <3>2, <3>3, <3>4, <4>1, <4>3, <5>1, <5>2 DEF DrawnForOne
      <4> QED  BY <3>4, <4>2, <4>3
    <3> QED  BY <3>5, <3>6
  <2> QED  BY <2>2, <2>3
<1>4. CASE UNCHANGED idVars
  BY <1>0, <1>4 DEF idVars, DrawnForOne, Exists, NoTransition
<1> QED  BY <1>1, <1>2, <1>3, <1>4


\* A copy is entitled to nothing, and is not a home whose worker lives.
LEMMA CopyIsPassive ==
  ASSUME IdentityInv, NEW h \in Home, NEW to \in Home, CopyHome(h, to)
  PROVE  /\ ~Entitled(to)' /\ ~workerOf'[to].here /\ owner'[to] = owner[h] /\ reader'[to] = reader[h]
         /\ Exists(h) /\ ~Exists(to) /\ h # to
         /\ \A g \in Home \ {to} : UNCHANGED <<owner[g], reader[g], keys[g], workerOf[g]>>
         /\ UNCHANGED <<catalog, transition, registrar, upkeep, chosen, signers>>
<1>0. IdentityForm /\ KnownWereDrawn
  BY DEF IdentityInv
<1>1. Exists(h) /\ ~Exists(to) /\ h # to
  BY DEF CopyHome
<1>2. owner'[to] = owner[h] /\ reader'[to] = reader[h] /\ ~workerOf'[to].here
  BY <1>0, <1>1 DEF CopyHome, IdentityForm, WorkerRecord, NoWorker
<1>3. owner[h].anchor # to
  BY <1>0, <1>1 DEF KnownWereDrawn
<1>4. /\ \A g \in Home \ {to} : UNCHANGED <<owner[g], reader[g], keys[g], workerOf[g]>>
      /\ UNCHANGED <<catalog, transition, registrar, upkeep, chosen, signers>>
  BY <1>0, <1>1 DEF CopyHome, IdentityForm
<1> QED  BY <1>1, <1>2, <1>3, <1>4 DEF Entitled, Anchored

\* What a step of one home leaves of the others.
LEMMA OthersStay ==
  ASSUME IdentityInv, NEW h \in Home, NEW g \in Home \ {h},
         \/ RecoverHome(h) \/ Sign(h) \/ StartWorker(h) \/ KillWorker(h)
         \/ Upkeep(h) \/ KillUpkeep(h)
  PROVE  /\ UNCHANGED <<owner[g], keys[g], reader[g], upkeep[g], workerOf[g]>>
         /\ registrar' = g <=> registrar = g
         /\ transition.home = g => transition' = transition
<1>0. IdentityForm /\ KnownWereDrawn /\ ForkProceeds
  BY DEF IdentityInv
<1>1. CASE RecoverHome(h)
  BY <1>0, <1>1 DEF RecoverHome, IdentityForm, Resume
<1>2. CASE Sign(h) \/ StartWorker(h) \/ KillWorker(h)
  BY <1>0, <1>2 DEF Sign, StartWorker, KillWorker, IdentityForm
<1>3. CASE BeginUpkeep(h, "fork") \/ BeginUpkeep(h, "quarantine") \/ TransitionRefused(h) \/ ForkAgain(h)
           \/ CreateKey(h) \/ ReplaceReader(h) \/ FinishUpkeep(h) \/ RebindCatalog(h) \/ RetireKeys(h)
  BY <1>0, <1>3 DEF BeginUpkeep, TransitionRefused, ForkAgain, CreateKey, ReplaceReader, FinishUpkeep, RebindCatalog,
    RetireKeys, IdentityForm, To
<1>4. CASE CommitQuarantine(h) \/ CommitFork(h) \/ CompleteFork(h)
  BY <1>0, <1>4 DEF CommitQuarantine, CommitFork, CompleteFork, IdentityForm, To, Quarantined, Resume
<1>5. CASE BeginTransition(h)
  BY <1>0, <1>5, TransitionBegins, HomeIdentityAssumption DEF IdentityForm, To, NoTransition
<1>6. CASE EndTransition(h)
  <2>1. registrar = h /\ transition.home = h
    BY <1>0, <1>6 DEF EndTransition, ForkProceeds, ProceedsIn, To
  <2> QED  BY <1>0, <1>6, <2>1, HomeIdentityAssumption DEF EndTransition, IdentityForm, To
<1>7. CASE KillUpkeep(h)
  BY <1>0, <1>7, HomeIdentityAssumption DEF KillUpkeep, IdentityForm
<1> QED  BY <1>1, <1>2, <1>3, <1>4, <1>5, <1>6, <1>7 DEF Upkeep


\* Maintenance of a home goes its way, and wherever it is killed it begins again.
LEMMA HomeProceeds ==
  ASSUME IdentityInv, NEW h \in Home,
         RecoverHome(h) \/ Sign(h) \/ StartWorker(h) \/ KillWorker(h) \/ Upkeep(h) \/ KillUpkeep(h)
  PROVE  ProceedsIn(h)'
<1>0. IdentityForm /\ KnownWereDrawn /\ ProceedsIn(h)
  BY DEF IdentityInv, ForkProceeds
<1> USE HomeIdentityAssumption DEF ProceedsIn
<1>1. CASE RecoverHome(h)
  <2>1. /\ \/ upkeep'[h] = upkeep[h] /\ upkeep[h] # "recovering"
           \/ upkeep[h] = "recovering" /\ upkeep'[h] = "forked"
        /\ UNCHANGED <<registrar, transition>> /\ ~StoreLocked(h) /\ owner' = Resume(h)
        /\ Exists(h)
    BY <1>0, <1>1 DEF RecoverHome, IdentityForm
  <2>2. keys'[h] = RetiredKeys(h, owner[h])
    BY <1>0, <1>1 DEF RecoverHome, IdentityForm
  <2>3. upkeep[h] \notin {"retiring", "retiring to fork", "keyed", "committed", "replacing", "replaced"}
    BY <2>1 DEF StoreLocked
  <2>4. Exists(h)' /\ owner'[h].inbox = owner[h].inbox
    BY <1>0, <2>1, OwnerResumes
  <2> QED  BY <1>0, <2>1, <2>3, <2>4
<1>2. CASE Sign(h) \/ StartWorker(h) \/ KillWorker(h)
  BY <1>0, <1>2 DEF Sign, StartWorker, KillWorker, Entitled, Exists, Anchored
<1>3. CASE BeginUpkeep(h, "fork") \/ BeginUpkeep(h, "quarantine")
  <2>1. /\ upkeep[h] = "idle" /\ upkeep'[h] \in {"fork", "quarantine"}
        /\ UNCHANGED <<registrar, transition, owner>>
    BY <1>0, <1>3 DEF BeginUpkeep, To, IdentityForm
  <2> QED  BY <1>0, <2>1
<1>4. CASE CommitQuarantine(h)
  <2>1. /\ UNCHANGED <<registrar, transition>> /\ owner' = Quarantined(h)
        /\ \/ upkeep[h] = "quarantine" /\ upkeep'[h] = "retiring"
           \/ upkeep[h] = "transition" /\ upkeep'[h] = "retiring to fork" /\ owner[h].inbox = transition.old
    BY <1>0, <1>4 DEF CommitQuarantine, To, IdentityForm
  <2>2. owner'[h].quarantined /\ owner'[h].inbox = owner[h].inbox /\ Exists(h)'
    BY <1>0, <2>1, OwnerQuarantined
  <2>3. CASE upkeep[h] = "quarantine"
    BY <1>0, <2>1, <2>2, <2>3
  <2>4. CASE upkeep[h] = "transition"
    BY <1>0, <2>1, <2>2, <2>4
  <2> QED  BY <2>1, <2>3, <2>4
<1>5. CASE RetireKeys(h)
  <2>1. /\ UNCHANGED <<registrar, transition, owner, reader>>
        /\ \/ upkeep[h] = "retiring" /\ upkeep'[h] = "forked" /\ registrar # h
           \/ upkeep[h] = "retiring to fork" /\ upkeep'[h] = "transition"
           \/ upkeep[h] = "committed" /\ upkeep'[h] = "replacing"
    BY <1>0, <1>5 DEF RetireKeys, To, IdentityForm
  <2>2. keys'[h] = RetiredKeys(h, owner[h])
    BY <1>0, <1>5 DEF RetireKeys, IdentityForm
  <2>3. upkeep[h] = "committed" => keys'[h] \cap owner[h].known = {owner[h].inbox}
    <3>1. upkeep[h] = "committed" => Entitled(h) /\ owner[h].phase = "forking"
      BY <1>0
    <3>2. owner[h].phase = "forking" /\ Entitled(h) => owner[h].inbox \in keys[h]
      BY DEF IdentityInv, FilesAgree, AgreesIn
    <3>3. Exists(h) => owner[h].inbox \in owner[h].known
      BY <1>0 DEF KnownWereDrawn
    <3> QED  BY <2>2, <3>1, <3>2, <3>3 DEF RetiredKeys, Entitled
  <2> QED  BY <1>0, <2>1, <2>3 DEF Entitled, Exists, Anchored
<1>6. CASE BeginTransition(h)
  <2>0. registrar' = h /\ UNCHANGED owner /\ To(h, "fork", "transition")
    BY <1>6, TransitionBegins
  <2>1. upkeep[h] = "fork" /\ upkeep'[h] = "transition" /\ registrar' = h /\ UNCHANGED owner
    BY <1>0, <2>0 DEF IdentityForm, To
  <2>2. Exists(h)
    BY <1>0, <2>1 DEF KnownWereDrawn
  <2>3. transition'.home = h
    BY <1>6, TransitionBegins
  <2> QED  BY <2>1, <2>2, <2>3 DEF Exists
<1>7. CASE TransitionRefused(h) \/ ForkAgain(h)
  <2>1. /\ UNCHANGED <<registrar, transition, owner, reader, keys>>
        /\ \/ upkeep[h] = "fork" /\ upkeep'[h] = "idle"
           \/ upkeep[h] = "transition" /\ upkeep'[h] = "recovering" /\ owner[h].inbox = transition.new
    BY <1>0, <1>7 DEF TransitionRefused, ForkAgain, To, IdentityForm
  <2> QED  BY <1>0, <2>1 DEF Exists
<1>8. CASE CreateKey(h)
  <2>1. /\ UNCHANGED <<registrar, transition, owner, reader>> /\ owner[h].quarantined
        /\ upkeep[h] = "transition" /\ upkeep'[h] = "keyed" /\ owner[h].inbox = transition.old
        /\ transition.new \in keys'[h]
    BY <1>0, <1>8 DEF CreateKey, To, IdentityForm
  <2> QED  BY <1>0, <2>1 DEF Exists
<1>9. CASE CommitFork(h)
  <2>1. UNCHANGED <<registrar, transition>> /\ upkeep[h] = "keyed" /\ upkeep'[h] = "committed"
    BY <1>0, <1>9 DEF CommitFork, To, IdentityForm
  <2>2. /\ owner'[h].inbox = transition.new /\ owner'[h].phase = "forking" /\ ~owner'[h].quarantined
        /\ owner'[h].anchor = h /\ Exists(h)'
    BY <1>0, <1>9, OwnerForks
  <2> QED  BY <1>0, <2>1, <2>2 DEF Entitled, Anchored
<1>10. CASE ReplaceReader(h)
  <2>1. /\ UNCHANGED <<registrar, transition, owner, keys>> /\ reader'[h] = owner[h].inbox
        /\ upkeep[h] = "replacing" /\ upkeep'[h] = "replaced"
    BY <1>0, <1>10 DEF ReplaceReader, To, IdentityForm
  <2> QED  BY <1>0, <2>1 DEF Entitled, Exists, Anchored
<1>11. CASE CompleteFork(h)
  <2>1. /\ UNCHANGED <<registrar, transition>> /\ owner' = Resume(h)
        /\ upkeep[h] = "replaced" /\ upkeep'[h] = "forked"
    BY <1>0, <1>11 DEF CompleteFork, To, IdentityForm
  <2> QED  BY <1>0, <2>1, OwnerResumes
<1>12. CASE FinishUpkeep(h)
  <2>1. /\ UNCHANGED <<registrar, transition, owner, keys>> /\ upkeep[h] = "forked"
        /\ upkeep'[h] = IF registrar = h THEN "finished" ELSE "idle"
    BY <1>0, <1>12 DEF FinishUpkeep, To, IdentityForm
  <2> QED  BY <1>0, <2>1 DEF Exists
<1>13. CASE RebindCatalog(h)
  <2>1. /\ UNCHANGED <<registrar, transition, owner, keys>> /\ upkeep[h] = "finished" /\ upkeep'[h] = "rebound"
    BY <1>0, <1>13 DEF RebindCatalog, To, IdentityForm
  <2> QED  BY <1>0, <2>1 DEF Exists
<1>14. CASE EndTransition(h)
  <2>1. registrar' = Unset /\ upkeep'[h] = "idle"
    BY <1>0, <1>14 DEF EndTransition, To, IdentityForm
  <2> QED  BY <2>1
<1>15. CASE KillUpkeep(h)
  <2>1. registrar' # h /\ upkeep'[h] = "idle"
    BY <1>0, <1>15 DEF KillUpkeep, IdentityForm
  <2> QED  BY <2>1
<1> QED
  BY <1>1, <1>2, <1>3, <1>4, <1>5, <1>6, <1>7, <1>8, <1>9, <1>10, <1>11, <1>12, <1>13, <1>14, <1>15 DEF Upkeep

LEMMA ForkProceedsStep == IdentityInv /\ [IdentityNext]_idVars => ForkProceeds'
<1> SUFFICES ASSUME IdentityInv, [IdentityNext]_idVars, NEW g \in Home PROVE ProceedsIn(g)'
  BY DEF ForkProceeds
<1>0. IdentityForm /\ KnownWereDrawn /\ ProceedsIn(g)
  BY DEF IdentityInv, ForkProceeds
<1>1. ASSUME NEW h \in Home, NEW to \in Home, CopyHome(h, to) PROVE ProceedsIn(g)'
  <2>1. UNCHANGED <<transition, registrar, upkeep>>
    BY <1>1, CopyIsPassive
  <2>2. CASE g = to
    <3>1. upkeep[g] = "idle" /\ registrar # g
      BY <1>0, <1>1, <2>2, CopyIsPassive DEF KnownWereDrawn, ProceedsIn
    <3> QED  BY <2>1, <3>1 DEF ProceedsIn
  <2>3. CASE g # to
    <3>1. UNCHANGED <<owner[g], keys[g], reader[g]>>
      BY <1>1, <2>3, CopyIsPassive
    <3> QED  BY <1>0, <2>1, <3>1 DEF ProceedsIn, Entitled, Exists, Anchored
  <2> QED  BY <2>2, <2>3
<1>2. ASSUME NEW h \in Home \ {g}, \/ RecoverHome(h) \/ Sign(h) \/ StartWorker(h) \/ KillWorker(h)
                                   \/ Upkeep(h) \/ KillUpkeep(h)
      PROVE  ProceedsIn(g)'
  <2>1. /\ UNCHANGED <<owner[g], keys[g], reader[g], upkeep[g]>>
        /\ registrar' = g <=> registrar = g
        /\ transition.home = g => transition' = transition
    BY <1>2, OthersStay
  <2> QED  BY <1>0, <2>1 DEF ProceedsIn, Entitled, Exists, Anchored
<1>3. CASE RecoverHome(g) \/ Sign(g) \/ StartWorker(g) \/ KillWorker(g) \/ Upkeep(g) \/ KillUpkeep(g)
  BY <1>3, HomeProceeds
<1>4. CASE UNCHANGED idVars
  BY <1>0, <1>4 DEF idVars, ProceedsIn, Entitled, Exists, Anchored
<1> QED  BY <1>1, <1>2, <1>3, <1>4 DEF IdentityNext


\* A recovery and a fork leave the keys and the reader's file as the ledger says.
LEMMA HomeAgrees ==
  ASSUME IdentityInv, NEW h \in Home,
         RecoverHome(h) \/ Sign(h) \/ StartWorker(h) \/ KillWorker(h) \/ Upkeep(h) \/ KillUpkeep(h)
  PROVE  AgreesIn(h)'
<1>0. IdentityForm /\ KnownWereDrawn /\ ProceedsIn(h) /\ AgreesIn(h)
  BY DEF IdentityInv, ForkProceeds, FilesAgree
<1>1. CASE RecoverHome(h)
  <2>1. owner' = Resume(h) /\ Exists(h) /\ reader'[h] = owner[h].inbox /\ keys'[h] = RetiredKeys(h, owner[h])
    BY <1>0, <1>1 DEF RecoverHome, IdentityForm
  <2>2. /\ owner'[h].inbox = owner[h].inbox /\ owner'[h].known = owner[h].known /\ owner'[h].phase = "complete"
        /\ owner'[h].quarantined = owner[h].quarantined /\ owner'[h].anchor = owner[h].anchor
    BY <1>0, <2>1, OwnerResumes
  <2>3. owner[h].inbox \in owner[h].known /\ owner[h].phase \in {"forking", "complete"}
    BY <1>0, <2>1 DEF KnownWereDrawn, IdentityForm, OwnerRecord
  <2>4. ASSUME Entitled(h)' PROVE keys'[h] \cap owner[h].known = {owner[h].inbox}
    <3>1. Entitled(h) /\ ~owner[h].quarantined
      BY <2>1, <2>2, <2>4 DEF Entitled, Anchored
    <3>2. owner[h].inbox \in keys[h]
      BY <1>0, <2>3, <3>1 DEF AgreesIn
    <3> QED  BY <2>1, <2>3, <3>1, <3>2 DEF RetiredKeys
  <2> QED  BY <2>1, <2>2, <2>4 DEF AgreesIn
<1>2. CASE \/ Sign(h) \/ StartWorker(h) \/ KillWorker(h) \/ KillUpkeep(h) \/ BeginUpkeep(h, "fork")
           \/ BeginUpkeep(h, "quarantine") \/ TransitionRefused(h) \/ ForkAgain(h) \/ FinishUpkeep(h)
           \/ RebindCatalog(h) \/ EndTransition(h) \/ BeginTransition(h)
  <2>1. UNCHANGED <<owner, reader, keys>>
    BY <1>2, TransitionBegins DEF Sign, StartWorker, KillWorker, KillUpkeep, BeginUpkeep, TransitionRefused, ForkAgain,
      FinishUpkeep, RebindCatalog, EndTransition
  <2> QED  BY <1>0, <2>1 DEF AgreesIn, Entitled, Exists, Anchored
<1>3. CASE CommitQuarantine(h)
  <2>1. UNCHANGED reader /\ owner' = Quarantined(h)
    BY <1>3 DEF CommitQuarantine
  <2> QED  BY <1>0, <2>1, OwnerQuarantined DEF AgreesIn, Entitled
<1>4. CASE RetireKeys(h)
  <2>1. /\ UNCHANGED <<owner, reader>> /\ keys'[h] = RetiredKeys(h, owner[h])
        /\ upkeep[h] \in {"retiring", "retiring to fork", "committed"}
    BY <1>0, <1>4 DEF RetireKeys, IdentityForm, To
  <2>2. ASSUME Entitled(h) PROVE owner[h].phase = "forking" /\ owner[h].inbox \in keys'[h]
    BY <1>0, <2>1, <2>2 DEF ProceedsIn, AgreesIn, RetiredKeys, Entitled
  <2> QED  BY <1>0, <2>1, <2>2 DEF AgreesIn, Entitled, Exists, Anchored
<1>5. CASE CreateKey(h)
  <2>1. UNCHANGED <<owner, reader>> /\ owner[h].quarantined
    BY <1>5 DEF CreateKey
  <2> QED  BY <1>0, <2>1 DEF AgreesIn, Entitled
<1>6. CASE CommitFork(h)
  <2>1. UNCHANGED <<keys, reader>> /\ upkeep[h] = "keyed"
    BY <1>6 DEF CommitFork, To
  <2>2. owner'[h].phase = "forking" /\ owner'[h].inbox = transition.new
    BY <1>0, <1>6, OwnerForks
  <2> QED  BY <1>0, <2>1, <2>2 DEF AgreesIn, ProceedsIn
<1>7. CASE ReplaceReader(h)
  <2>1. UNCHANGED <<owner, keys>> /\ reader'[h] = owner[h].inbox
    BY <1>0, <1>7 DEF ReplaceReader, IdentityForm
  <2> QED  BY <1>0, <2>1 DEF AgreesIn, Entitled, Exists, Anchored
<1>8. CASE CompleteFork(h)
  <2>1. UNCHANGED <<keys, reader>> /\ upkeep[h] = "replaced" /\ owner' = Resume(h)
    BY <1>8 DEF CompleteFork, To
  <2>2. /\ owner'[h].inbox = owner[h].inbox /\ owner'[h].known = owner[h].known /\ owner'[h].phase = "complete"
    BY <1>0, <2>1, OwnerResumes
  <2> QED  BY <1>0, <2>1, <2>2 DEF AgreesIn, ProceedsIn
<1> QED  BY <1>1, <1>2, <1>3, <1>4, <1>5, <1>6, <1>7, <1>8 DEF Upkeep

LEMMA FilesAgreeStep == IdentityInv /\ [IdentityNext]_idVars => FilesAgree'
<1> SUFFICES ASSUME IdentityInv, [IdentityNext]_idVars, NEW g \in Home PROVE AgreesIn(g)'
  BY DEF FilesAgree
<1>0. IdentityForm /\ KnownWereDrawn /\ AgreesIn(g) /\ ForkProceeds /\ \A h \in Home : AgreesIn(h)
  BY DEF IdentityInv, FilesAgree
<1>1. ASSUME NEW h \in Home, NEW to \in Home, CopyHome(h, to) PROVE AgreesIn(g)'
  <2>1. CASE g = to
    <3>1. AgreesIn(h)
      BY <1>0
    <3> QED  BY <1>1, <2>1, <3>1, CopyIsPassive DEF AgreesIn
  <2>2. CASE g # to
    <3>1. UNCHANGED <<owner[g], reader[g], keys[g]>>
      BY <1>1, <2>2, CopyIsPassive
    <3> QED  BY <1>0, <3>1 DEF AgreesIn, Entitled, Exists, Anchored
  <2> QED  BY <2>1, <2>2
<1>2. CASE RecoverHome(g) \/ Sign(g) \/ StartWorker(g) \/ KillWorker(g) \/ Upkeep(g) \/ KillUpkeep(g)
  BY <1>2, HomeAgrees
<1>3. ASSUME NEW h \in Home \ {g}, \/ RecoverHome(h) \/ Sign(h) \/ StartWorker(h) \/ KillWorker(h)
                                   \/ Upkeep(h) \/ KillUpkeep(h)
      PROVE  AgreesIn(g)'
  <2>1. UNCHANGED <<owner[g], reader[g], keys[g]>>
    BY <1>3, OthersStay
  <2> QED  BY <1>0, <2>1 DEF AgreesIn, Entitled, Exists, Anchored
<1>4. CASE UNCHANGED idVars
  BY <1>0, <1>4 DEF idVars, AgreesIn, Entitled, Exists, Anchored
<1> QED  BY <1>1, <1>2, <1>3, <1>4 DEF IdentityNext


\* The catalog is rebound to the new id, by the home whose fork it was.
LEMMA CatalogKnowsStep == IdentityInv /\ [IdentityNext]_idVars => CatalogKnows'
<1> SUFFICES ASSUME IdentityInv, [IdentityNext]_idVars PROVE CatalogKnows'
  OBVIOUS
<1>0. IdentityForm /\ KnownWereDrawn /\ ForkProceeds /\ DrawnForOne /\ CatalogKnows
  BY DEF IdentityInv
<1> USE HomeIdentityAssumption
<1>1. Exists(Original)' /\ ((\E h \in Home : CommitFork(h)) \/ owner'[Original].inbox = owner[Original].inbox)
  <2>1. CASE CommitFork(Original)
    BY <1>0, <2>1, OwnerForks
  <2>2. CASE IdentityNext /\ ~CommitFork(Original)
    BY <1>0, <2>2, InboxStays DEF CatalogKnows
  <2>3. CASE UNCHANGED idVars
    BY <1>0, <2>3 DEF idVars, CatalogKnows, Exists
  <2> QED  BY <2>1, <2>2, <2>3
<1>2. ASSUME NEW h \in Home, CommitFork(h) PROVE CatalogKnows'
  <2>1. UNCHANGED <<catalog, transition>> /\ transition.home = h /\ upkeep'[h] = "committed"
    BY <1>0, <1>2, ForkIsNew DEF CommitFork, To, IdentityForm
  <2>2. h # Original => owner'[Original] = owner[Original]
    BY <1>0, <1>2, OwnerForks
  <2> QED  BY <1>0, <1>1, <2>1, <2>2 DEF CatalogKnows
<1>3. ASSUME NEW h \in Home, BeginTransition(h), ~\E g \in Home : CommitFork(g) PROVE CatalogKnows'
  <2>1. UNCHANGED <<catalog, owner>> /\ upkeep[h] = "fork" /\ upkeep'[h] = "transition" /\ registrar = Unset
    <3>1. UNCHANGED <<catalog, owner>> /\ To(h, "fork", "transition") /\ registrar = Unset
      BY <1>3, TransitionBegins
    <3> QED  BY <1>0, <3>1 DEF IdentityForm, To
  <2>2. upkeep'[Original] # "rebound"
    <3>1. upkeep[Original] # "rebound"
      BY <1>0, <2>1 DEF ForkProceeds, ProceedsIn
    <3>2. To(h, "fork", "transition")
      BY <1>3, TransitionBegins
    <3> QED  BY <1>0, <2>1, <3>1, <3>2 DEF IdentityForm, To
  <2>3. CASE UNCHANGED transition
    BY <1>0, <1>1, <2>1, <2>2, <2>3 DEF CatalogKnows, Exists
  <2>4. CASE transition = NoTransition /\ (h = Original => catalog \in {Unset, owner[h].inbox})
             /\ \E i \in Inbox \ chosen : transition' = [home |-> h, old |-> owner[h].inbox, new |-> i]
    <3>1. catalog \in {Unset, owner[Original].inbox}
      BY <1>0, <2>4 DEF CatalogKnows, NoTransition
    <3>2. transition'.home = h /\ transition'.old = owner[h].inbox
      BY <2>4
    <3> QED  BY <1>1, <2>1, <2>2, <3>1, <3>2 DEF CatalogKnows
  <2> QED  BY <1>3, <2>3, <2>4, TransitionBegins
<1>4. ASSUME NEW h \in Home, EndTransition(h) PROVE CatalogKnows'
  <2>1. upkeep[h] = "rebound" /\ UNCHANGED <<catalog, owner>> /\ transition' = NoTransition
    BY <1>4 DEF EndTransition, To
  <2>2. transition.home = h /\ owner[h].inbox = transition.new
    BY <1>0, <2>1 DEF ForkProceeds, ProceedsIn
  <2>3. catalog \in {Unset, owner[Original].inbox}
    BY <1>0, <2>1, <2>2 DEF CatalogKnows
  <2>4. transition'.home # Original
    BY <2>1 DEF NoTransition
  <2> QED  BY <1>1, <2>1, <2>3, <2>4 DEF CatalogKnows
<1>5. ASSUME NEW h \in Home, RebindCatalog(h) PROVE CatalogKnows'
  <2>1. upkeep[h] = "finished" /\ UNCHANGED <<owner, transition>> /\ catalog' = Rebound(h)
    BY <1>5 DEF RebindCatalog, To
  <2>2. transition.home = h
    BY <1>0, <2>1 DEF ForkProceeds, ProceedsIn
  <2> QED  BY <1>0, <1>1, <2>1, <2>2 DEF CatalogKnows, Rebound
<1>6. CASE /\ IdentityNext
           /\ \A h \in Home : ~CommitFork(h) /\ ~BeginTransition(h) /\ ~EndTransition(h) /\ ~RebindCatalog(h)
  <2>1. transition' = transition /\ owner'[Original].inbox = owner[Original].inbox
    BY <1>1, <1>6, TransitionStays
  <2>2. catalog' = catalog
    BY <1>6 DEF IdentityNext, Upkeep, CopyHome, RecoverHome, Sign, StartWorker, KillWorker, KillUpkeep, BeginUpkeep,
      CommitQuarantine, RetireKeys, TransitionRefused, ForkAgain, CreateKey, ReplaceReader, CompleteFork, FinishUpkeep
  <2>3. upkeep'[Original] = "rebound" => upkeep[Original] = "rebound"
    <3>1. ASSUME NEW h \in Home, \/ (\E to \in Home : CopyHome(h, to)) \/ RecoverHome(h) \/ Sign(h) \/ StartWorker(h)
                                 \/ KillWorker(h) \/ KillUpkeep(h)
          PROVE  upkeep'[Original] = "rebound" => upkeep[Original] = "rebound"
      BY <1>0, <3>1 DEF CopyHome, RecoverHome, Sign, StartWorker, KillWorker, KillUpkeep, IdentityForm
    <3>2. ASSUME NEW h \in Home, \/ BeginUpkeep(h, "fork") \/ BeginUpkeep(h, "quarantine") \/ CommitQuarantine(h)
                                 \/ RetireKeys(h) \/ TransitionRefused(h) \/ ForkAgain(h)
          PROVE  upkeep'[Original] = "rebound" => upkeep[Original] = "rebound"
      BY <1>0, <3>2 DEF BeginUpkeep, CommitQuarantine, RetireKeys, TransitionRefused, ForkAgain, To, IdentityForm
    <3>3. ASSUME NEW h \in Home, CreateKey(h) \/ ReplaceReader(h) \/ CompleteFork(h) \/ FinishUpkeep(h)
          PROVE  upkeep'[Original] = "rebound" => upkeep[Original] = "rebound"
      BY <1>0, <3>3 DEF CreateKey, ReplaceReader, CompleteFork, FinishUpkeep, To, IdentityForm
    <3> QED  BY <1>6, <3>1, <3>2, <3>3 DEF IdentityNext, Upkeep
  <2> QED  BY <1>0, <1>1, <2>1, <2>2, <2>3 DEF CatalogKnows
<1>7. CASE UNCHANGED idVars
  BY <1>0, <1>7 DEF idVars, CatalogKnows, Exists
<1> QED  BY <1>2, <1>3, <1>4, <1>5, <1>6, <1>7

\* A worker is recorded under the inbox of its home; what it is called after a
\* fork is what the intent remembers.
LEMMA HomeRecordKnows ==
  ASSUME IdentityInv, NEW h \in Home,
         RecoverHome(h) \/ Sign(h) \/ StartWorker(h) \/ KillWorker(h) \/ Upkeep(h) \/ KillUpkeep(h)
  PROVE  RecordKnowsIn(h)'
<1>0. IdentityForm /\ KnownWereDrawn /\ ProceedsIn(h) /\ RecordKnowsIn(h)
  BY DEF IdentityInv, ForkProceeds, RecordKnows
<1> USE HomeIdentityAssumption
<1>1. CASE RecoverHome(h)
  <2>1. /\ owner' = Resume(h) /\ UNCHANGED <<workerOf, transition>>
        /\ upkeep'[h] = upkeep[h] \/ upkeep'[h] = "forked"
    BY <1>0, <1>1 DEF RecoverHome, IdentityForm
  <2>2. owner'[h].inbox = owner[h].inbox /\ owner'[h].anchor = owner[h].anchor
    BY <1>0, <2>1, OwnerResumes
  <2> QED  BY <1>0, <2>1, <2>2 DEF RecordKnowsIn, Anchored
<1>2. CASE Sign(h) \/ TransitionRefused(h) \/ ForkAgain(h) \/ CreateKey(h) \/ ReplaceReader(h) \/ RetireKeys(h)
           \/ KillUpkeep(h) \/ KillWorker(h) \/ BeginUpkeep(h, "fork") \/ BeginUpkeep(h, "quarantine")
  <2>1. /\ UNCHANGED <<owner, transition>>
        /\ workerOf'[h].here => workerOf[h].here /\ workerOf'[h].inbox = workerOf[h].inbox
    <3>1. CASE KillWorker(h)
      BY <1>0, <3>1 DEF KillWorker, IdentityForm, WorkerRecord
    <3>2. CASE BeginUpkeep(h, "fork") \/ BeginUpkeep(h, "quarantine")
      BY <1>0, <3>2 DEF BeginUpkeep, IdentityForm, NoWorker
    <3>3. CASE ~KillWorker(h) /\ ~BeginUpkeep(h, "fork") /\ ~BeginUpkeep(h, "quarantine")
      BY <1>2, <3>3 DEF Sign, TransitionRefused, ForkAgain, CreateKey, ReplaceReader, RetireKeys, KillUpkeep
    <3> QED  BY <3>1, <3>2, <3>3
  <2>2. upkeep'[h] = upkeep[h] \/ upkeep'[h] \notin {"finished", "rebound"}
    BY <1>0, <1>2 DEF Sign, TransitionRefused, ForkAgain, CreateKey, ReplaceReader, RetireKeys, KillUpkeep, KillWorker,
      BeginUpkeep, IdentityForm, To
  <2> QED  BY <1>0, <2>1, <2>2 DEF RecordKnowsIn, Anchored
<1>3. CASE StartWorker(h)
  <2>1. UNCHANGED owner /\ Anchored(h) /\ workerOf'[h].inbox = owner[h].inbox
    BY <1>0, <1>3 DEF StartWorker, InUse, IdentityForm
  <2> QED  BY <2>1 DEF RecordKnowsIn, Anchored
<1>4. CASE CommitQuarantine(h)
  <2>1. /\ owner' = Quarantined(h) /\ UNCHANGED <<workerOf, transition>>
        /\ upkeep'[h] \notin {"finished", "rebound"}
    BY <1>0, <1>4 DEF CommitQuarantine, IdentityForm, To
  <2>2. owner'[h].inbox = owner[h].inbox /\ owner'[h].anchor = h
    BY <1>0, <2>1, OwnerQuarantined
  <2> QED  BY <1>0, <2>1, <2>2 DEF RecordKnowsIn, Anchored
<1>5. CASE BeginTransition(h)
  <2>1. UNCHANGED <<owner, workerOf>> /\ To(h, "fork", "transition")
    BY <1>5, TransitionBegins
  <2>2. upkeep'[h] = "transition"
    BY <1>0, <2>1 DEF IdentityForm, To
  <2>3. transition' = transition \/ transition.home # h
    BY <1>5, TransitionBegins DEF NoTransition
  <2> QED  BY <1>0, <2>1, <2>2, <2>3 DEF RecordKnowsIn, Anchored
<1>6. CASE CommitFork(h)
  <2>1. UNCHANGED <<workerOf, transition>> /\ upkeep'[h] = "committed"
    BY <1>0, <1>6 DEF CommitFork, IdentityForm, To
  <2>2. transition.home = h /\ owner[h].inbox = transition.old
    BY <1>6, ForkIsNew
  <2>3. owner'[h].anchor = h
    BY <1>0, <1>6, OwnerForks
  <2> QED  BY <1>0, <2>1, <2>2, <2>3 DEF RecordKnowsIn, Anchored
<1>7. CASE CompleteFork(h)
  <2>1. owner' = Resume(h) /\ UNCHANGED <<workerOf, transition>> /\ upkeep'[h] = "forked"
    BY <1>0, <1>7 DEF CompleteFork, IdentityForm, To
  <2>2. owner'[h].inbox = owner[h].inbox /\ owner'[h].anchor = owner[h].anchor
    BY <1>0, <2>1, OwnerResumes
  <2> QED  BY <1>0, <2>1, <2>2 DEF RecordKnowsIn, Anchored
<1>8. CASE FinishUpkeep(h)
  <2>1. ~workerOf'[h].here
    BY <1>0, <1>8 DEF FinishUpkeep, IdentityForm, NoWorker
  <2> QED  BY <2>1 DEF RecordKnowsIn
<1>9. CASE RebindCatalog(h) \/ EndTransition(h)
  <2>1. UNCHANGED <<owner, workerOf>> /\ upkeep[h] \in {"finished", "rebound"}
    BY <1>9 DEF RebindCatalog, EndTransition, To
  <2> QED  BY <1>0, <2>1 DEF RecordKnowsIn, Anchored
<1> QED  BY <1>1, <1>2, <1>3, <1>4, <1>5, <1>6, <1>7, <1>8, <1>9 DEF Upkeep

LEMMA RecordKnowsStep == IdentityInv /\ [IdentityNext]_idVars => RecordKnows'
<1> SUFFICES ASSUME IdentityInv, [IdentityNext]_idVars, NEW g \in Home PROVE RecordKnowsIn(g)'
  BY DEF RecordKnows
<1>0. RecordKnowsIn(g)
  BY DEF IdentityInv, RecordKnows
<1>1. ASSUME NEW h \in Home, NEW to \in Home, CopyHome(h, to) PROVE RecordKnowsIn(g)'
  <2>1. CASE g = to
    BY <1>1, <2>1, CopyIsPassive DEF RecordKnowsIn
  <2>2. CASE g # to
    <3>1. UNCHANGED <<owner[g], workerOf[g], transition, upkeep>>
      BY <1>1, <2>2, CopyIsPassive
    <3> QED  BY <1>0, <3>1 DEF RecordKnowsIn, Anchored
  <2> QED  BY <2>1, <2>2
<1>2. ASSUME NEW h \in Home \ {g}, \/ RecoverHome(h) \/ Sign(h) \/ StartWorker(h) \/ KillWorker(h)
                                   \/ Upkeep(h) \/ KillUpkeep(h)
      PROVE  RecordKnowsIn(g)'
  <2>1. UNCHANGED <<owner[g], workerOf[g], upkeep[g]>> /\ (transition.home = g => transition' = transition)
    BY <1>2, OthersStay
  <2> QED  BY <1>0, <2>1 DEF RecordKnowsIn, Anchored
<1>3. CASE RecoverHome(g) \/ Sign(g) \/ StartWorker(g) \/ KillWorker(g) \/ Upkeep(g) \/ KillUpkeep(g)
  BY <1>3, HomeRecordKnows
<1>4. CASE UNCHANGED idVars
  BY <1>0, <1>4 DEF idVars, RecordKnowsIn, Anchored
<1> QED  BY <1>1, <1>2, <1>3, <1>4 DEF IdentityNext

LEMMA IdentityInvStep == IdentityInv /\ [IdentityNext]_idVars => IdentityInv'
BY IdentityFormStep, KnownWereDrawnStep, SignerAloneStep, DrawnForOneStep, ForkProceedsStep, FilesAgreeStep,
  CatalogKnowsStep, RecordKnowsStep DEF IdentityInv

LEMMA IdentityInvSigner == IdentityInv => OneSigner
<1> SUFFICES ASSUME IdentityInv, NEW i \in Inbox PROVE Cardinality(signers[i]) <= 1
  BY DEF OneSigner
<1>1. CASE signers[i] = {}
  BY <1>1, FS_EmptySet
<1>2. CASE signers[i] # {}
  <2>1. PICK s \in Home : s \in signers[i]
    BY <1>2 DEF IdentityInv, IdentityForm
  <2>2. signers[i] = {s}
    BY <2>1 DEF IdentityInv, SignerAlone
  <2>3. Cardinality({s}) = 1
    BY FS_Singleton
  <2> QED  BY <2>2, <2>3
<1> QED  BY <1>1, <1>2

LEMMA IdentityInvFork == IdentityInv => ForkIsSound
<1> SUFFICES ASSUME IdentityInv PROVE IdentityFollows /\ ForkCanFinish
  BY DEF ForkIsSound
<1>1. \A h \in Home : owner[h].phase = "complete" => reader[h] = owner[h].inbox
  BY DEF IdentityInv, FilesAgree, AgreesIn
<1>2. transition = NoTransition => catalog \in {Unset, owner[Original].inbox}
  BY HomeIdentityAssumption DEF IdentityInv, CatalogKnows, NoTransition
<1>3. ASSUME NEW h \in Home, InUse(h), ~owner[h].quarantined
      PROVE  keys[h] \cap owner[h].known = {owner[h].inbox}
  BY <1>3 DEF IdentityInv, FilesAgree, AgreesIn, InUse, Entitled
<1>4. ASSUME NEW h \in Home, transition.home = h
      PROVE  \/ workerOf[h].here /\ workerOf[h].inbox = transition.old
             \/ WorkerUnambiguous(h) /\ (owner[h].inbox = transition.old \/ Recorded(h))
  <2>1. transition # NoTransition
    BY <1>4, HomeIdentityAssumption DEF NoTransition
  <2>2. owner[h].inbox = transition.old \/ Recorded(h)
    BY <1>4, <2>1 DEF IdentityInv, DrawnForOne, Recorded
  <2>3. RecordKnowsIn(h)
    BY DEF IdentityInv, RecordKnows
  <2> QED  BY <2>2, <2>3 DEF RecordKnowsIn, WorkerUnambiguous
<1> QED  BY <1>1, <1>2, <1>3, <1>4 DEF IdentityFollows, ForkCanFinish

LEMMA IdentityInvAlways == IdentitySpec => []IdentityInv
BY IdentityInvInit, IdentityInvStep, PTL DEF IdentitySpec

\* No two homes ever sign for the same inbox, whichever directories are copied
\* at whatever moment and wherever a quarantine or a fork of any of them is
\* killed: a copy signs only after a fork has given it an inbox that no home
\* knows.
THEOREM OneSignerAlways == IdentitySpec => []OneSigner
BY IdentityInvAlways, IdentityInvSigner, PTL

\* Wherever a fork is killed, the reader's file, the keys and the catalog agree
\* with the ledger or with the recorded intent, and the same command can finish
\* it, unless it is stopped by the record of a worker that died before.
THEOREM ForkIsSoundAlways == IdentitySpec => []ForkIsSound
BY IdentityInvAlways, IdentityInvFork, PTL

-----------------------------------------------------------------------------
(* What is reported before and during a migration.  `documents` is a         *)
(* directory until the barrier is there for good: until then what is deleted *)
(* leaves the directory, and from then on the directory that was evacuated   *)
(* stands still while its documents are entered.                             *)

DeletionRecord == [at : {"new", "ready", "inspected", "locked", "killed", "done"},
                   doc : Doc \cup {NoDoc}, dir : {"old", "new", "none"}]

EnrollForm ==
  /\ documents \in {"none", "old", "new", "unwritten", "barrier"} /\ evacuated \in BOOLEAN
  /\ held \in [Directory -> SUBSET Doc]
  /\ phase \in {"none", "intent", "barrier", "enrolling", "forking", "complete"}
  /\ enroller \in {"idle", "migrating", "evacuated", "raising", "enumerating", "entering"}
  /\ pub \in [Doc -> {"new", "legacy", "managed", "staged", "done"}]
  /\ staged \in [Doc -> {"old", "new", "none"}] /\ del \in [Deleter -> DeletionRecord]
  /\ cutShort \in BOOLEAN

\* The migration takes the directory away, raises the barrier and then enters
\* the documents; a directory made after it was taken away stays.
MigrationOrdered ==
  /\ enroller # "idle" => phase \in {"intent", "barrier", "enrolling"}
  /\ enroller \in {"evacuated", "raising", "enumerating", "entering"} => evacuated
  /\ documents \in {"new", "unwritten", "barrier"} => evacuated
  /\ enroller = "raising" => documents = "unwritten"
  /\ enroller \in {"enumerating", "entering"} => documents = "barrier"
  /\ phase \in {"barrier", "enrolling"} => documents = "barrier"
  /\ phase \in {"forking", "complete"} /\ ~cutShort => documents = "barrier"
  /\ held["new"] # {} => documents = "new"
  /\ batch # {} => enroller = "entering"
  /\ listed # {} => documents = "barrier"
  /\ batch \subseteq held["old"]

\* An identifier is used once: what is somewhere was published, and is in one
\* directory.
PublishedOnce ==
  /\ \A d \in held["old"] \cup held["new"] \cup listed \cup removed : pub[d] = "done"
  /\ held["old"] \cap held["new"] = {}
  /\ listed \cup removed \subseteq Doc
  /\ \A d \in Doc : pub[d] = "staged" => staged[d] \in Directory
  /\ \A q \in Deleter : del[q].at \in {"inspected", "locked", "killed"} => del[q].dir \in Directory /\ del[q].doc \in Doc

\* What was deleted is nowhere that an enrollment would still find it.
DeletedIsNowhere ==
  /\ removed \cap listed = {}
  /\ documents # "barrier" => removed \cap (held["old"] \cup held["new"]) = {}
  /\ phase \notin {"forking", "complete"} => removed \cap held["old"] = {}

\* What was published is where the enrollment will find it, or has.
PublishedIsSomewhere ==
  /\ acked \ removed \subseteq held["old"] \cup held["new"] \cup listed
  /\ enroller = "entering" => held["old"] \subseteq listed \cup todo \cup batch
  /\ phase \in {"forking", "complete"} /\ ~cutShort => held["old"] \ removed \subseteq listed

EnrollInv == EnrollForm /\ MigrationOrdered /\ PublishedOnce /\ DeletedIsNowhere /\ PublishedIsSomewhere


LEMMA EnrollInvInit == EnrollInit => EnrollInv
<1> SUFFICES ASSUME EnrollInit PROVE EnrollInv
  OBVIOUS
<1> USE EnrollmentAssumption DEF EnrollInit, Directory
<1>1. EnrollForm
  <2>1. held \in [Directory -> SUBSET Doc]
    BY DEF Directory
  <2>2. [at |-> "new", doc |-> NoDoc, dir |-> "none"] \in DeletionRecord
    BY DEF DeletionRecord
  <2> QED  BY <2>1, <2>2 DEF EnrollForm
<1>2. MigrationOrdered
  BY DEF MigrationOrdered
<1>3. PublishedOnce
  BY DEF PublishedOnce
<1>4. DeletedIsNowhere /\ PublishedIsSomewhere
  BY DEF DeletedIsNowhere, PublishedIsSomewhere
<1> QED  BY <1>1, <1>2, <1>3, <1>4 DEF EnrollInv


\* A deletion goes on, with the document and the directory it was given.
LEMMA DeletionGoesOn ==
  ASSUME EnrollForm, NEW q \in Deleter, NEW to \in {"ready", "inspected", "locked", "killed", "done"},
         del' = [del EXCEPT ![q].at = to]
  PROVE  /\ del' \in [Deleter -> DeletionRecord] /\ \A p \in Deleter \ {q} : del'[p] = del[p]
         /\ del'[q].at = to /\ del'[q].doc = del[q].doc /\ del'[q].dir = del[q].dir
<1>1. del' = [del EXCEPT ![q] = [del[q] EXCEPT !.at = to]] /\ del[q] \in DeletionRecord
  BY DEF EnrollForm
<1>2. [del[q] EXCEPT !.at = to] \in DeletionRecord
  BY <1>1 DEF DeletionRecord
<1> QED  BY <1>1, <1>2 DEF EnrollForm, DeletionRecord

LEMMA DeletionIsGivenDirectory ==
  ASSUME EnrollForm, NEW q \in Deleter, documents \in Directory,
         del' = [del EXCEPT ![q].at = "inspected", ![q].dir = documents]
  PROVE  /\ del' \in [Deleter -> DeletionRecord] /\ \A p \in Deleter \ {q} : del'[p] = del[p]
         /\ del'[q].at = "inspected" /\ del'[q].doc = del[q].doc /\ del'[q].dir = documents
<1>1. /\ del' = [del EXCEPT ![q] = [del[q] EXCEPT !.at = "inspected", !.dir = documents]]
      /\ del[q] \in DeletionRecord
  BY DEF EnrollForm
<1>2. [del[q] EXCEPT !.at = "inspected", !.dir = documents] \in DeletionRecord
  BY <1>1 DEF DeletionRecord, Directory
<1> QED  BY <1>1, <1>2 DEF EnrollForm, DeletionRecord

\* What is where keeps its form.
LEMMA EnrollFormStep == EnrollInv /\ [EnrollNext]_enrollVars => EnrollForm'
<1> SUFFICES ASSUME EnrollInv, [EnrollNext]_enrollVars PROVE EnrollForm'
  OBVIOUS
<1>0. EnrollForm /\ MigrationOrdered /\ PublishedOnce
  BY DEF EnrollInv
<1> USE EnrollmentAssumption DEF EnrollForm, tree, entry, edits, GivesUp, Enrolls, Directory, Deletes
<1>1. ASSUME BeginEnroll PROVE EnrollForm'
  BY <1>0, <1>1 DEF BeginEnroll
<1>2. ASSUME ResumeEnroll PROVE EnrollForm'
  BY <1>0, <1>2 DEF ResumeEnroll
<1>3. ASSUME Evacuate PROVE EnrollForm'
  BY <1>0, <1>3 DEF Evacuate
<1>4. ASSUME EvacuationBlocked PROVE EnrollForm'
  BY <1>0, <1>4 DEF EvacuationBlocked
<1>5. ASSUME RaiseBarrier PROVE EnrollForm'
  BY <1>0, <1>5 DEF RaiseBarrier
<1>6. ASSUME WriteBarrier PROVE EnrollForm'
  BY <1>0, <1>6 DEF WriteBarrier
<1>7. ASSUME CommitBarrier PROVE EnrollForm'
  BY <1>0, <1>7 DEF CommitBarrier, Barred
<1>8. ASSUME Enumerate PROVE EnrollForm'
  BY <1>0, <1>8 DEF Enumerate, Candidates
<1>9. ASSUME CompleteEnroll PROVE EnrollForm'
  BY <1>0, <1>9 DEF CompleteEnroll
<1>10. ASSUME ForkHome PROVE EnrollForm'
  BY <1>0, <1>10 DEF ForkHome
<1>11. ASSUME FinishFork PROVE EnrollForm'
  BY <1>0, <1>11 DEF FinishFork
<1>12. ASSUME KillEnroller PROVE EnrollForm'
  BY <1>0, <1>12 DEF KillEnroller
<1>13. ASSUME NEW d \in Doc, EnterDocument(d) PROVE EnrollForm'
  BY <1>0, <1>13 DEF EnterDocument
<1>14. ASSUME NEW d \in Doc, CandidateRefused(d) PROVE EnrollForm'
  BY <1>0, <1>14 DEF CandidateRefused
<1>15. ASSUME NEW d \in Doc, BeginPublish(d) PROVE EnrollForm'
  BY <1>0, <1>15 DEF BeginPublish
<1>16. ASSUME NEW d \in Doc, PublishManaged(d) PROVE EnrollForm'
  BY <1>0, <1>16 DEF PublishManaged, Managed, Barred
<1>17. ASSUME NEW d \in Doc, Stage(d) PROVE EnrollForm'
  BY <1>0, <1>17 DEF Stage
<1>18. ASSUME NEW d \in Doc, PublishLegacy(d) PROVE EnrollForm'
  BY <1>0, <1>18 DEF PublishLegacy
<1>19. ASSUME NEW q \in Deleter, Capture(q) PROVE EnrollForm'
  <2>1. PICK d \in Doc : del' = [del EXCEPT ![q] = [at |-> "ready", doc |-> d,
                                        dir |-> IF documents \in Directory THEN documents ELSE "none"]]
    BY <1>19 DEF Capture
  <2>2. del' \in [Deleter -> DeletionRecord]
    BY <1>0, <2>1 DEF DeletionRecord
  <2> QED  BY <1>0, <2>2, <1>19 DEF Capture
<1>20. ASSUME NEW q \in Deleter, DeleteManaged(q) PROVE EnrollForm'
  <2>1. del' \in [Deleter -> DeletionRecord]
    BY <1>0, <1>20, DeletionGoesOn DEF DeleteManaged
  <2> QED  BY <1>0, <2>1, <1>20 DEF DeleteManaged
<1>21. ASSUME NEW q \in Deleter, InspectDocument(q) PROVE EnrollForm'
  <2>1. del' \in [Deleter -> DeletionRecord]
    BY <1>0, <1>21, DeletionGoesOn, DeletionIsGivenDirectory DEF InspectDocument
  <2> QED  BY <1>0, <2>1, <1>21 DEF InspectDocument
<1>22. ASSUME NEW q \in Deleter, LockDocument(q) PROVE EnrollForm'
  <2>1. del' \in [Deleter -> DeletionRecord]
    BY <1>0, <1>22, DeletionGoesOn DEF LockDocument
  <2> QED  BY <1>0, <2>1, <1>22 DEF LockDocument
<1>23. ASSUME NEW q \in Deleter, RemoveDocument(q) PROVE EnrollForm'
  <2>1. del' \in [Deleter -> DeletionRecord]
    BY <1>0, <1>23, DeletionGoesOn DEF RemoveDocument
  <2> QED  BY <1>0, <2>1, <1>23 DEF RemoveDocument, StillThere
<1>24. ASSUME NEW q \in Deleter, KillDeleter(q) PROVE EnrollForm'
  <2>1. del' \in [Deleter -> DeletionRecord]
    <3>1. PICK to \in {"killed", "done"} : del' = [del EXCEPT ![q].at = to]
      BY <1>24 DEF KillDeleter
    <3> QED  BY <1>0, <3>1, DeletionGoesOn
  <2> QED  BY <1>0, <2>1, <1>24 DEF KillDeleter
<1>25. CASE UNCHANGED enrollVars
  BY <1>0, <1>25 DEF enrollVars, tree, entry, edits
<1> QED
  BY <1>1, <1>2, <1>3, <1>4, <1>5, <1>6, <1>7, <1>8, <1>9, <1>10, <1>11, <1>12, <1>13, <1>14, <1>15, <1>16,
    <1>17, <1>18, <1>19, <1>20, <1>21, <1>22, <1>23, <1>24, <1>25 DEF EnrollNext

\* Each step of a migration comes after the ones it rests on.
LEMMA MigrationOrderedStep == EnrollInv /\ [EnrollNext]_enrollVars => MigrationOrdered'
<1> SUFFICES ASSUME EnrollInv, [EnrollNext]_enrollVars PROVE MigrationOrdered'
  OBVIOUS
<1>0. EnrollForm /\ MigrationOrdered /\ PublishedOnce
  BY DEF EnrollInv
<1> USE EnrollmentAssumption DEF EnrollForm, MigrationOrdered, tree, entry, edits, GivesUp, Enrolls, Directory, Deletes
<1>1. ASSUME BeginEnroll PROVE MigrationOrdered'
  BY <1>0, <1>1 DEF BeginEnroll
<1>2. ASSUME ResumeEnroll PROVE MigrationOrdered'
  BY <1>0, <1>2 DEF ResumeEnroll
<1>3. ASSUME Evacuate PROVE MigrationOrdered'
  BY <1>0, <1>3 DEF Evacuate
<1>4. ASSUME EvacuationBlocked PROVE MigrationOrdered'
  BY <1>0, <1>4 DEF EvacuationBlocked
<1>5. ASSUME RaiseBarrier PROVE MigrationOrdered'
  BY <1>0, <1>5 DEF RaiseBarrier
<1>6. ASSUME WriteBarrier PROVE MigrationOrdered'
  BY <1>0, <1>6 DEF WriteBarrier
<1>7. ASSUME CommitBarrier PROVE MigrationOrdered'
  BY <1>0, <1>7 DEF CommitBarrier, Barred
<1>8. ASSUME Enumerate PROVE MigrationOrdered'
  BY <1>0, <1>8 DEF Enumerate, Candidates
<1>9. ASSUME CompleteEnroll PROVE MigrationOrdered'
  BY <1>0, <1>9 DEF CompleteEnroll
<1>10. ASSUME ForkHome PROVE MigrationOrdered'
  BY <1>0, <1>10 DEF ForkHome
<1>11. ASSUME FinishFork PROVE MigrationOrdered'
  BY <1>0, <1>11 DEF FinishFork
<1>12. ASSUME KillEnroller PROVE MigrationOrdered'
  BY <1>0, <1>12 DEF KillEnroller
<1>13. ASSUME NEW d \in Doc, EnterDocument(d) PROVE MigrationOrdered'
  BY <1>0, <1>13 DEF EnterDocument
<1>14. ASSUME NEW d \in Doc, CandidateRefused(d) PROVE MigrationOrdered'
  BY <1>0, <1>14 DEF CandidateRefused
<1>15. ASSUME NEW d \in Doc, BeginPublish(d) PROVE MigrationOrdered'
  BY <1>0, <1>15 DEF BeginPublish
<1>16. ASSUME NEW d \in Doc, PublishManaged(d) PROVE MigrationOrdered'
  BY <1>0, <1>16 DEF PublishManaged, Managed, Barred
<1>17. ASSUME NEW d \in Doc, Stage(d) PROVE MigrationOrdered'
  BY <1>0, <1>17 DEF Stage
<1>18. ASSUME NEW d \in Doc, PublishLegacy(d) PROVE MigrationOrdered'
  BY <1>0, <1>18 DEF PublishLegacy
<1>19. ASSUME NEW q \in Deleter, Capture(q) PROVE MigrationOrdered'
  BY <1>0, <1>19 DEF Capture
<1>20. ASSUME NEW q \in Deleter, DeleteManaged(q) PROVE MigrationOrdered'
  BY <1>0, <1>20 DEF DeleteManaged, Managed, Barred
<1>21. ASSUME NEW q \in Deleter, InspectDocument(q) PROVE MigrationOrdered'
  BY <1>0, <1>21 DEF InspectDocument
<1>22. ASSUME NEW q \in Deleter, LockDocument(q) PROVE MigrationOrdered'
  BY <1>0, <1>22 DEF LockDocument
<1>23. ASSUME NEW q \in Deleter, RemoveDocument(q) PROVE MigrationOrdered'
  BY <1>0, <1>23 DEF RemoveDocument, StillThere
<1>24. ASSUME NEW q \in Deleter, KillDeleter(q) PROVE MigrationOrdered'
  BY <1>0, <1>24 DEF KillDeleter
<1>25. CASE UNCHANGED enrollVars
  BY <1>0, <1>25 DEF enrollVars, tree, entry, edits
<1> QED
  BY <1>1, <1>2, <1>3, <1>4, <1>5, <1>6, <1>7, <1>8, <1>9, <1>10, <1>11, <1>12, <1>13, <1>14, <1>15, <1>16,
    <1>17, <1>18, <1>19, <1>20, <1>21, <1>22, <1>23, <1>24, <1>25 DEF EnrollNext

\* A document comes into one place, and moves to no other.
LEMMA PublishedOnceStep == EnrollInv /\ [EnrollNext]_enrollVars => PublishedOnce'
<1> SUFFICES ASSUME EnrollInv, [EnrollNext]_enrollVars PROVE PublishedOnce'
  OBVIOUS
<1>0. EnrollForm /\ MigrationOrdered /\ PublishedOnce
  BY DEF EnrollInv
<1> USE EnrollmentAssumption DEF EnrollForm, PublishedOnce, tree, entry, edits, GivesUp, Enrolls, Directory, Deletes
<1>1. ASSUME BeginEnroll PROVE PublishedOnce'
  BY <1>0, <1>1 DEF BeginEnroll
<1>2. ASSUME ResumeEnroll PROVE PublishedOnce'
  BY <1>0, <1>2 DEF ResumeEnroll
<1>3. ASSUME Evacuate PROVE PublishedOnce'
  BY <1>0, <1>3 DEF Evacuate
<1>4. ASSUME EvacuationBlocked PROVE PublishedOnce'
  BY <1>0, <1>4 DEF EvacuationBlocked
<1>5. ASSUME RaiseBarrier PROVE PublishedOnce'
  BY <1>0, <1>5 DEF RaiseBarrier
<1>6. ASSUME WriteBarrier PROVE PublishedOnce'
  BY <1>0, <1>6 DEF WriteBarrier
<1>7. ASSUME CommitBarrier PROVE PublishedOnce'
  BY <1>0, <1>7 DEF CommitBarrier, Barred
<1>8. ASSUME Enumerate PROVE PublishedOnce'
  BY <1>0, <1>8 DEF Enumerate, Candidates
<1>9. ASSUME CompleteEnroll PROVE PublishedOnce'
  BY <1>0, <1>9 DEF CompleteEnroll, MigrationOrdered
<1>10. ASSUME ForkHome PROVE PublishedOnce'
  BY <1>0, <1>10 DEF ForkHome
<1>11. ASSUME FinishFork PROVE PublishedOnce'
  BY <1>0, <1>11 DEF FinishFork
<1>12. ASSUME KillEnroller PROVE PublishedOnce'
  BY <1>0, <1>12 DEF KillEnroller
<1>13. ASSUME NEW d \in Doc, EnterDocument(d) PROVE PublishedOnce'
  BY <1>0, <1>13 DEF EnterDocument, MigrationOrdered
<1>14. ASSUME NEW d \in Doc, CandidateRefused(d) PROVE PublishedOnce'
  BY <1>0, <1>14 DEF CandidateRefused
<1>15. ASSUME NEW d \in Doc, BeginPublish(d) PROVE PublishedOnce'
  BY <1>0, <1>15 DEF BeginPublish
<1>16. ASSUME NEW d \in Doc, PublishManaged(d) PROVE PublishedOnce'
  BY <1>0, <1>16 DEF PublishManaged, Managed, Barred
<1>17. ASSUME NEW d \in Doc, Stage(d) PROVE PublishedOnce'
  BY <1>0, <1>17 DEF Stage
<1>18. ASSUME NEW d \in Doc, PublishLegacy(d) PROVE PublishedOnce'
  BY <1>0, <1>18 DEF PublishLegacy
<1>19. ASSUME NEW q \in Deleter, Capture(q) PROVE PublishedOnce'
  BY <1>0, <1>19 DEF Capture
<1>20. ASSUME NEW q \in Deleter, DeleteManaged(q) PROVE PublishedOnce'
  BY <1>0, <1>20 DEF DeleteManaged, Managed, Barred
<1>21. ASSUME NEW q \in Deleter, InspectDocument(q) PROVE PublishedOnce'
  <2>1. UNCHANGED <<held, listed, removed, pub, staged>>
    BY <1>21 DEF InspectDocument
  <2>2. CASE documents \in Directory /\ del[q].doc \in held[documents] /\ del' = [del EXCEPT ![q].at = "inspected", ![q].dir = documents]
    BY <1>0, <2>1, <2>2, DeletionIsGivenDirectory
  <2>3. CASE del' = [del EXCEPT ![q].at = "done"]
    BY <1>0, <2>1, <2>3, DeletionGoesOn
  <2> QED  BY <1>21, <2>2, <2>3 DEF InspectDocument
<1>22. ASSUME NEW q \in Deleter, LockDocument(q) PROVE PublishedOnce'
  <2>1. UNCHANGED <<held, listed, removed, pub, staged>> /\ del[q].at = "inspected"
    BY <1>22 DEF LockDocument
  <2> QED  BY <1>0, <1>22, <2>1, DeletionGoesOn DEF LockDocument
<1>23. ASSUME NEW q \in Deleter, RemoveDocument(q) PROVE PublishedOnce'
  BY <1>0, <1>23 DEF RemoveDocument, StillThere
<1>24. ASSUME NEW q \in Deleter, KillDeleter(q) PROVE PublishedOnce'
  BY <1>0, <1>24 DEF KillDeleter
<1>25. CASE UNCHANGED enrollVars
  BY <1>0, <1>25 DEF enrollVars, tree, entry, edits
<1> QED
  BY <1>1, <1>2, <1>3, <1>4, <1>5, <1>6, <1>7, <1>8, <1>9, <1>10, <1>11, <1>12, <1>13, <1>14, <1>15, <1>16,
    <1>17, <1>18, <1>19, <1>20, <1>21, <1>22, <1>23, <1>24, <1>25 DEF EnrollNext

\* Nothing that was deleted is entered.
LEMMA DeletedIsNowhereStep == EnrollInv /\ [EnrollNext]_enrollVars => DeletedIsNowhere'
<1> SUFFICES ASSUME EnrollInv, [EnrollNext]_enrollVars PROVE DeletedIsNowhere'
  OBVIOUS
<1>0. EnrollForm /\ MigrationOrdered /\ PublishedOnce /\ DeletedIsNowhere
  BY DEF EnrollInv
<1> USE EnrollmentAssumption DEF EnrollForm, MigrationOrdered, PublishedOnce, DeletedIsNowhere, tree, entry, edits, GivesUp, Enrolls, Directory, Deletes
<1>1. ASSUME BeginEnroll PROVE DeletedIsNowhere'
  BY <1>0, <1>1 DEF BeginEnroll
<1>2. ASSUME ResumeEnroll PROVE DeletedIsNowhere'
  BY <1>0, <1>2 DEF ResumeEnroll
<1>3. ASSUME Evacuate PROVE DeletedIsNowhere'
  BY <1>0, <1>3 DEF Evacuate
<1>4. ASSUME EvacuationBlocked PROVE DeletedIsNowhere'
  BY <1>0, <1>4 DEF EvacuationBlocked
<1>5. ASSUME RaiseBarrier PROVE DeletedIsNowhere'
  BY <1>0, <1>5 DEF RaiseBarrier
<1>6. ASSUME WriteBarrier PROVE DeletedIsNowhere'
  BY <1>0, <1>6 DEF WriteBarrier
<1>7. ASSUME CommitBarrier PROVE DeletedIsNowhere'
  BY <1>0, <1>7 DEF CommitBarrier, Barred
<1>8. ASSUME Enumerate PROVE DeletedIsNowhere'
  BY <1>0, <1>8 DEF Enumerate, Candidates
<1>9. ASSUME CompleteEnroll PROVE DeletedIsNowhere'
  BY <1>0, <1>9 DEF CompleteEnroll
<1>10. ASSUME ForkHome PROVE DeletedIsNowhere'
  BY <1>0, <1>10 DEF ForkHome
<1>11. ASSUME FinishFork PROVE DeletedIsNowhere'
  BY <1>0, <1>11 DEF FinishFork
<1>12. ASSUME KillEnroller PROVE DeletedIsNowhere'
  BY <1>0, <1>12 DEF KillEnroller
<1>13. ASSUME NEW d \in Doc, EnterDocument(d) PROVE DeletedIsNowhere'
  BY <1>0, <1>13 DEF EnterDocument
<1>14. ASSUME NEW d \in Doc, CandidateRefused(d) PROVE DeletedIsNowhere'
  BY <1>0, <1>14 DEF CandidateRefused
<1>15. ASSUME NEW d \in Doc, BeginPublish(d) PROVE DeletedIsNowhere'
  BY <1>0, <1>15 DEF BeginPublish
<1>16. ASSUME NEW d \in Doc, PublishManaged(d) PROVE DeletedIsNowhere'
  BY <1>0, <1>16 DEF PublishManaged, Managed, Barred
<1>17. ASSUME NEW d \in Doc, Stage(d) PROVE DeletedIsNowhere'
  BY <1>0, <1>17 DEF Stage
<1>18. ASSUME NEW d \in Doc, PublishLegacy(d) PROVE DeletedIsNowhere'
  BY <1>0, <1>18 DEF PublishLegacy
<1>19. ASSUME NEW q \in Deleter, Capture(q) PROVE DeletedIsNowhere'
  BY <1>0, <1>19 DEF Capture
<1>20. ASSUME NEW q \in Deleter, DeleteManaged(q) PROVE DeletedIsNowhere'
  BY <1>0, <1>20 DEF DeleteManaged, Managed, Barred
<1>21. ASSUME NEW q \in Deleter, InspectDocument(q) PROVE DeletedIsNowhere'
  BY <1>0, <1>21 DEF InspectDocument
<1>22. ASSUME NEW q \in Deleter, LockDocument(q) PROVE DeletedIsNowhere'
  BY <1>0, <1>22 DEF LockDocument
<1>23. ASSUME NEW q \in Deleter, RemoveDocument(q) PROVE DeletedIsNowhere'
  BY <1>0, <1>23 DEF RemoveDocument, StillThere
<1>24. ASSUME NEW q \in Deleter, KillDeleter(q) PROVE DeletedIsNowhere'
  BY <1>0, <1>24 DEF KillDeleter
<1>25. CASE UNCHANGED enrollVars
  BY <1>0, <1>25 DEF enrollVars, tree, entry, edits
<1> QED
  BY <1>1, <1>2, <1>3, <1>4, <1>5, <1>6, <1>7, <1>8, <1>9, <1>10, <1>11, <1>12, <1>13, <1>14, <1>15, <1>16,
    <1>17, <1>18, <1>19, <1>20, <1>21, <1>22, <1>23, <1>24, <1>25 DEF EnrollNext

\* Nothing that was published is left out.
LEMMA PublishedIsSomewhereStep == EnrollInv /\ [EnrollNext]_enrollVars => PublishedIsSomewhere'
<1> SUFFICES ASSUME EnrollInv, [EnrollNext]_enrollVars PROVE PublishedIsSomewhere'
  OBVIOUS
<1>0. EnrollForm /\ MigrationOrdered /\ PublishedOnce /\ DeletedIsNowhere /\ PublishedIsSomewhere
  BY DEF EnrollInv
<1> USE EnrollmentAssumption DEF EnrollForm, MigrationOrdered, PublishedIsSomewhere, tree, entry, edits, GivesUp, Enrolls, Directory, Deletes
<1>1. ASSUME BeginEnroll PROVE PublishedIsSomewhere'
  BY <1>0, <1>1 DEF BeginEnroll
<1>2. ASSUME ResumeEnroll PROVE PublishedIsSomewhere'
  BY <1>0, <1>2 DEF ResumeEnroll
<1>3. ASSUME Evacuate PROVE PublishedIsSomewhere'
  BY <1>0, <1>3 DEF Evacuate
<1>4. ASSUME EvacuationBlocked PROVE PublishedIsSomewhere'
  BY <1>0, <1>4 DEF EvacuationBlocked
<1>5. ASSUME RaiseBarrier PROVE PublishedIsSomewhere'
  BY <1>0, <1>5 DEF RaiseBarrier
<1>6. ASSUME WriteBarrier PROVE PublishedIsSomewhere'
  BY <1>0, <1>6 DEF WriteBarrier
<1>7. ASSUME CommitBarrier PROVE PublishedIsSomewhere'
  BY <1>0, <1>7 DEF CommitBarrier, Barred
<1>8. ASSUME Enumerate PROVE PublishedIsSomewhere'
  BY <1>0, <1>8 DEF Enumerate, Candidates
<1>9. ASSUME CompleteEnroll PROVE PublishedIsSomewhere'
  BY <1>0, <1>9 DEF CompleteEnroll
<1>10. ASSUME ForkHome PROVE PublishedIsSomewhere'
  BY <1>0, <1>10 DEF ForkHome
<1>11. ASSUME FinishFork PROVE PublishedIsSomewhere'
  BY <1>0, <1>11 DEF FinishFork
<1>12. ASSUME KillEnroller PROVE PublishedIsSomewhere'
  BY <1>0, <1>12 DEF KillEnroller
<1>13. ASSUME NEW d \in Doc, EnterDocument(d) PROVE PublishedIsSomewhere'
  BY <1>0, <1>13 DEF EnterDocument
<1>14. ASSUME NEW d \in Doc, CandidateRefused(d) PROVE PublishedIsSomewhere'
  BY <1>0, <1>14 DEF CandidateRefused
<1>15. ASSUME NEW d \in Doc, BeginPublish(d) PROVE PublishedIsSomewhere'
  BY <1>0, <1>15 DEF BeginPublish
<1>16. ASSUME NEW d \in Doc, PublishManaged(d) PROVE PublishedIsSomewhere'
  BY <1>0, <1>16 DEF PublishManaged, Managed, Barred
<1>17. ASSUME NEW d \in Doc, Stage(d) PROVE PublishedIsSomewhere'
  BY <1>0, <1>17 DEF Stage
<1>18. ASSUME NEW d \in Doc, PublishLegacy(d) PROVE PublishedIsSomewhere'
  <2>1. CASE documents = staged[d]
    <3>1. documents \in Directory /\ held' = [held EXCEPT ![documents] = @ \cup {d}] /\ acked' = acked \cup {d}
      BY <1>0, <1>18, <2>1 DEF PublishLegacy, PublishedOnce
    <3> QED  BY <1>0, <1>18, <3>1 DEF PublishLegacy
  <2>2. CASE ~(documents = staged[d])
    BY <1>0, <1>18, <2>2 DEF PublishLegacy
  <2> QED  BY <2>1, <2>2
<1>19. ASSUME NEW q \in Deleter, Capture(q) PROVE PublishedIsSomewhere'
  BY <1>0, <1>19 DEF Capture
<1>20. ASSUME NEW q \in Deleter, DeleteManaged(q) PROVE PublishedIsSomewhere'
  BY <1>0, <1>20 DEF DeleteManaged, Managed, Barred
<1>21. ASSUME NEW q \in Deleter, InspectDocument(q) PROVE PublishedIsSomewhere'
  BY <1>0, <1>21 DEF InspectDocument
<1>22. ASSUME NEW q \in Deleter, LockDocument(q) PROVE PublishedIsSomewhere'
  BY <1>0, <1>22 DEF LockDocument
<1>23. ASSUME NEW q \in Deleter, RemoveDocument(q) PROVE PublishedIsSomewhere'
  BY <1>0, <1>23 DEF RemoveDocument, StillThere
<1>24. ASSUME NEW q \in Deleter, KillDeleter(q) PROVE PublishedIsSomewhere'
  BY <1>0, <1>24 DEF KillDeleter
<1>25. CASE UNCHANGED enrollVars
  BY <1>0, <1>25 DEF enrollVars, tree, entry, edits
<1> QED
  BY <1>1, <1>2, <1>3, <1>4, <1>5, <1>6, <1>7, <1>8, <1>9, <1>10, <1>11, <1>12, <1>13, <1>14, <1>15, <1>16,
    <1>17, <1>18, <1>19, <1>20, <1>21, <1>22, <1>23, <1>24, <1>25 DEF EnrollNext


LEMMA EnrollInvAlways == EnrollSpec => []EnrollInv
<1>1. EnrollInv /\ [EnrollNext]_enrollVars => EnrollInv'
  BY EnrollFormStep, MigrationOrderedStep, PublishedOnceStep, DeletedIsNowhereStep, PublishedIsSomewhereStep
    DEF EnrollInv
<1> QED  BY <1>1, EnrollInvInit, PTL DEF EnrollSpec

LEMMA EnrollInvFaithful == EnrollInv => EnrollmentIsFaithful
<1> SUFFICES ASSUME EnrollInv PROVE EnrolledIsComplete /\ DeletedStaysDeleted
  BY DEF EnrollmentIsFaithful
<1> USE DEF EnrollInv, EnrollForm, MigrationOrdered, Directory
<1>1. EnrolledIsComplete
  BY DEF EnrolledIsComplete, Missing, PublishedIsSomewhere
<1>2. DeletedStaysDeleted
  BY DEF DeletedStaysDeleted, DeletedIsNowhere
<1> QED  BY <1>1, <1>2

\* Whatever publishes and deletes beside an enrollment, and wherever the
\* enrollment is killed: a home whose enrollment completed lists every document
\* whose publication was reported and that nobody deleted, and none that was.
THEOREM EnrollmentIsFaithfulAlways == EnrollSpec => []EnrollmentIsFaithful
BY EnrollInvAlways, EnrollInvFaithful, PTL

-----------------------------------------------------------------------------
(* What the page says of a deletion.  The directory loses a document once,   *)
(* by one helper or one commit, and what that helper answers is what the     *)
(* page says, if it still listens.                                           *)

RemovalForm ==
  /\ paper \in [Ask -> Paper] /\ taken \in BOOLEAN /\ underLedger \in BOOLEAN
  /\ DOMAIN helper = Ask /\ DOMAIN reply = Ask /\ DOMAIN shown = Ask /\ DOMAIN handling = Ask

\* This request has removed its document, as far as anybody knows.
Removed(a) ==
  helper[a] \in {"moved", "purged"} \/ reply[a] \in {"done", "cleanup"} \/ shown[a] \in {"deleted", "uncleaned"}

Cleaned(a) == helper[a] = "purged" \/ reply[a] = "done" \/ shown[a] = "deleted"
Absent(a)  == reply[a] = "null" \/ shown[a] = "absent"

RemovedIsGone ==
  \A a \in Ask : /\ Removed(a) => paper[a] \notin library
                 /\ Cleaned(a) => paper[a] \notin trash
                 /\ Absent(a) => paper[a] \notin library \/ taken

RemovedOnce == \A a, b \in Ask : a # b /\ paper[a] = paper[b] => ~(Removed(a) /\ Removed(b))

\* A helper has a parent, which the server awaits; under a ledger there is none.
HelperIsAwaited ==
  /\ \A a \in Ask : helper[a] \notin {"none", "gone"} => handling[a] = "parent"
  /\ listener = "closed" => \A a \in Ask : handling[a] # "parent"
  /\ underLedger => trash = {} /\ \A a \in Ask : helper[a] = "none" /\ handling[a] # "parent"

RemovalInv == RemovalForm /\ RemovedIsGone /\ RemovedOnce /\ HelperIsAwaited

LEMMA RemovalInvInit == RemovalInit => RemovalInv
BY DEF RemovalInit, RemovalInv, RemovalForm, RemovedIsGone, Removed, Cleaned, Absent, RemovedOnce, HelperIsAwaited

\* A request is about the one document it names.
LEMMA RemovalFormStep == RemovalInv /\ [RemovalNext]_removalVars => RemovalForm'
<1> SUFFICES ASSUME RemovalInv, [RemovalNext]_removalVars PROVE RemovalForm'
  OBVIOUS
<1>0. RemovalForm
  BY DEF RemovalInv
<1> USE DEF RemovalForm, shelves, around, request, process, Says, Answer, HelperStep, Replies, Only, InPlace
<1>1. ASSUME NEW a \in Ask, Post(a) PROVE RemovalForm'
  BY <1>0, <1>1 DEF Post
<1>2. ASSUME NEW a \in Ask, PageGivesUp(a) PROVE RemovalForm'
  BY <1>0, <1>2 DEF PageGivesUp
<1>3. ASSUME NEW a \in Ask, Arrive(a) PROVE RemovalForm'
  BY <1>0, <1>3 DEF Arrive
<1>4. ASSUME NEW a \in Ask, Lost(a) PROVE RemovalForm'
  BY <1>0, <1>4 DEF Lost
<1>5. ASSUME NEW a \in Ask, ParentKills(a) PROVE RemovalForm'
  BY <1>0, <1>5 DEF ParentKills
<1>6. ASSUME NEW a \in Ask, HelperClosed(a) PROVE RemovalForm'
  BY <1>0, <1>6 DEF HelperClosed, Outcome
<1>7. ASSUME NEW a \in Ask, CheckIdentity(a) PROVE RemovalForm'
  BY <1>0, <1>7 DEF CheckIdentity
<1>8. ASSUME NEW a \in Ask, InspectTree(a) PROVE RemovalForm'
  BY <1>0, <1>8 DEF InspectTree
<1>9. ASSUME NEW a \in Ask, LookForIt(a) PROVE RemovalForm'
  BY <1>0, <1>9 DEF LookForIt
<1>10. ASSUME NEW a \in Ask, TakeLock(a) PROVE RemovalForm'
  BY <1>0, <1>10 DEF TakeLock
<1>11. ASSUME NEW a \in Ask, MoveToTrash(a) PROVE RemovalForm'
  BY <1>0, <1>11 DEF MoveToTrash
<1>12. ASSUME NEW a \in Ask, Purge(a) PROVE RemovalForm'
  BY <1>0, <1>12 DEF Purge
<1>13. ASSUME NEW a \in Ask, GiveBackLock(a) PROVE RemovalForm'
  BY <1>0, <1>13 DEF GiveBackLock
<1>14. ASSUME NEW a \in Ask, IsMissing(a) PROVE RemovalForm'
  BY <1>0, <1>14 DEF IsMissing
<1>15. ASSUME NEW a \in Ask, HelperFails(a) PROVE RemovalForm'
  BY <1>0, <1>15 DEF HelperFails
<1>16. ASSUME NEW a \in Ask, HelperExits(a) PROVE RemovalForm'
  BY <1>0, <1>16 DEF HelperExits
<1>17. ASSUME NEW a \in Ask, HelperDies(a) PROVE RemovalForm'
  BY <1>0, <1>17 DEF HelperDies
<1>18. ASSUME BeginReaderClose PROVE RemovalForm'
  BY <1>0, <1>18 DEF BeginReaderClose
<1>19. ASSUME ConnectionsEnd PROVE RemovalForm'
  BY <1>0, <1>19 DEF ConnectionsEnd
<1>20. ASSUME ReaderClosed PROVE RemovalForm'
  BY <1>0, <1>20 DEF ReaderClosed, MutationsSettled
<1>21. ASSUME EnrollmentTakes PROVE RemovalForm'
  BY <1>0, <1>21 DEF EnrollmentTakes
<1>22. CASE UNCHANGED removalVars
  BY <1>0, <1>22 DEF removalVars, around, process
<1> QED
  BY <1>1, <1>2, <1>3, <1>4, <1>5, <1>6, <1>7, <1>8, <1>9, <1>10, <1>11, <1>12, <1>13, <1>14, <1>15, <1>16,
    <1>17, <1>18, <1>19, <1>20, <1>21, <1>22 DEF RemovalNext

\* What is answered is so when it is answered, and stays so.
LEMMA RemovedIsGoneStep == RemovalInv /\ [RemovalNext]_removalVars => RemovedIsGone'
<1> SUFFICES ASSUME RemovalInv, [RemovalNext]_removalVars PROVE RemovedIsGone'
  OBVIOUS
<1>0. RemovalForm /\ RemovedIsGone /\ HelperIsAwaited
  BY DEF RemovalInv
<1> USE DEF RemovalForm, RemovedIsGone, Removed, Cleaned, Absent, HelperIsAwaited, shelves, around, request, process, Says, Answer, HelperStep, Replies, Only, InPlace
<1>1. ASSUME NEW a \in Ask, Post(a) PROVE RemovedIsGone'
  BY <1>0, <1>1 DEF Post
<1>2. ASSUME NEW a \in Ask, PageGivesUp(a) PROVE RemovedIsGone'
  BY <1>0, <1>2 DEF PageGivesUp
<1>3. ASSUME NEW a \in Ask, Arrive(a) PROVE RemovedIsGone'
  <2>0. /\ handling[a] = "sent" /\ trash' = trash /\ paper' = paper /\ taken' = taken
        /\ lockOf' = lockOf /\ underLedger' = underLedger /\ listener' = listener
    BY <1>3 DEF Arrive
  <2>1. CASE listener # "open"
    BY <1>0, <1>3, <2>0, <2>1 DEF Arrive
  <2>2. CASE listener = "open" /\ underLedger /\ paper[a] \in library
    <3>1. /\ library' = library \ {paper[a]} /\ helper' = helper /\ reply' = reply
          /\ shown' = IF shown[a] # "waiting" THEN shown ELSE [shown EXCEPT ![a] = "deleted"]
      BY <1>3, <2>2 DEF Arrive
    <3> QED  BY <1>0, <2>0, <2>2, <3>1
  <2>3. CASE listener = "open" /\ underLedger /\ paper[a] \notin library
    <3>1. /\ library' = library \ {paper[a]} /\ helper' = helper /\ reply' = reply
          /\ shown' = IF shown[a] # "waiting" THEN shown ELSE [shown EXCEPT ![a] = "absent"]
      BY <1>3, <2>3 DEF Arrive
    <3> QED  BY <1>0, <2>0, <2>3, <3>1
  <2>4. CASE listener = "open" /\ ~underLedger
    <3>1. /\ library' = library /\ reply' = reply
          /\ helper' = helper \/ helper' = [helper EXCEPT ![a] = "request"]
          /\ shown' = shown \/ shown' = [shown EXCEPT ![a] = "unknown"]
      BY <1>3, <2>4 DEF Arrive
    <3> QED  BY <1>0, <2>0, <2>4, <3>1
  <2> QED  BY <2>1, <2>2, <2>3, <2>4
<1>4. ASSUME NEW a \in Ask, Lost(a) PROVE RemovedIsGone'
  BY <1>0, <1>4 DEF Lost
<1>5. ASSUME NEW a \in Ask, ParentKills(a) PROVE RemovedIsGone'
  BY <1>0, <1>5 DEF ParentKills
<1>6. ASSUME NEW a \in Ask, HelperClosed(a) PROVE RemovedIsGone'
  BY <1>0, <1>6 DEF HelperClosed, Outcome
<1>7. ASSUME NEW a \in Ask, CheckIdentity(a) PROVE RemovedIsGone'
  BY <1>0, <1>7 DEF CheckIdentity
<1>8. ASSUME NEW a \in Ask, InspectTree(a) PROVE RemovedIsGone'
  BY <1>0, <1>8 DEF InspectTree
<1>9. ASSUME NEW a \in Ask, LookForIt(a) PROVE RemovedIsGone'
  BY <1>0, <1>9 DEF LookForIt
<1>10. ASSUME NEW a \in Ask, TakeLock(a) PROVE RemovedIsGone'
  BY <1>0, <1>10 DEF TakeLock
<1>11. ASSUME NEW a \in Ask, MoveToTrash(a) PROVE RemovedIsGone'
  BY <1>0, <1>11 DEF MoveToTrash
<1>12. ASSUME NEW a \in Ask, Purge(a) PROVE RemovedIsGone'
  BY <1>0, <1>12 DEF Purge
<1>13. ASSUME NEW a \in Ask, GiveBackLock(a) PROVE RemovedIsGone'
  BY <1>0, <1>13 DEF GiveBackLock
<1>14. ASSUME NEW a \in Ask, IsMissing(a) PROVE RemovedIsGone'
  BY <1>0, <1>14 DEF IsMissing
<1>15. ASSUME NEW a \in Ask, HelperFails(a) PROVE RemovedIsGone'
  BY <1>0, <1>15 DEF HelperFails
<1>16. ASSUME NEW a \in Ask, HelperExits(a) PROVE RemovedIsGone'
  BY <1>0, <1>16 DEF HelperExits
<1>17. ASSUME NEW a \in Ask, HelperDies(a) PROVE RemovedIsGone'
  BY <1>0, <1>17 DEF HelperDies
<1>18. ASSUME BeginReaderClose PROVE RemovedIsGone'
  BY <1>0, <1>18 DEF BeginReaderClose
<1>19. ASSUME ConnectionsEnd PROVE RemovedIsGone'
  BY <1>0, <1>19 DEF ConnectionsEnd
<1>20. ASSUME ReaderClosed PROVE RemovedIsGone'
  BY <1>0, <1>20 DEF ReaderClosed, MutationsSettled
<1>21. ASSUME EnrollmentTakes PROVE RemovedIsGone'
  BY <1>0, <1>21 DEF EnrollmentTakes
<1>22. CASE UNCHANGED removalVars
  BY <1>0, <1>22 DEF removalVars, around, process
<1> QED
  BY <1>1, <1>2, <1>3, <1>4, <1>5, <1>6, <1>7, <1>8, <1>9, <1>10, <1>11, <1>12, <1>13, <1>14, <1>15, <1>16,
    <1>17, <1>18, <1>19, <1>20, <1>21, <1>22 DEF RemovalNext

\* What one request has removed, no other finds.
LEMMA RemovedOnceStep == RemovalInv /\ [RemovalNext]_removalVars => RemovedOnce'
<1> SUFFICES ASSUME RemovalInv, [RemovalNext]_removalVars PROVE RemovedOnce'
  OBVIOUS
<1>0. RemovalForm /\ RemovedIsGone /\ RemovedOnce
  BY DEF RemovalInv
<1> USE DEF RemovalForm, RemovedIsGone, RemovedOnce, Removed, Absent, Cleaned, shelves, around, request, process, Says, Answer, HelperStep, Replies, Only, InPlace
<1>1. ASSUME NEW a \in Ask, Post(a) PROVE RemovedOnce'
  BY <1>0, <1>1 DEF Post
<1>2. ASSUME NEW a \in Ask, PageGivesUp(a) PROVE RemovedOnce'
  BY <1>0, <1>2 DEF PageGivesUp
<1>3. ASSUME NEW a \in Ask, Arrive(a) PROVE RemovedOnce'
  <2>0. /\ handling[a] = "sent" /\ trash' = trash /\ paper' = paper /\ taken' = taken
        /\ lockOf' = lockOf /\ underLedger' = underLedger /\ listener' = listener
    BY <1>3 DEF Arrive
  <2>1. CASE listener # "open"
    BY <1>0, <1>3, <2>0, <2>1 DEF Arrive
  <2>2. CASE listener = "open" /\ underLedger /\ paper[a] \in library
    <3>1. /\ library' = library \ {paper[a]} /\ helper' = helper /\ reply' = reply
          /\ shown' = IF shown[a] # "waiting" THEN shown ELSE [shown EXCEPT ![a] = "deleted"]
      BY <1>3, <2>2 DEF Arrive
    <3> QED  BY <1>0, <2>0, <2>2, <3>1
  <2>3. CASE listener = "open" /\ underLedger /\ paper[a] \notin library
    <3>1. /\ library' = library \ {paper[a]} /\ helper' = helper /\ reply' = reply
          /\ shown' = IF shown[a] # "waiting" THEN shown ELSE [shown EXCEPT ![a] = "absent"]
      BY <1>3, <2>3 DEF Arrive
    <3> QED  BY <1>0, <2>0, <2>3, <3>1
  <2>4. CASE listener = "open" /\ ~underLedger
    <3>1. /\ library' = library /\ reply' = reply
          /\ helper' = helper \/ helper' = [helper EXCEPT ![a] = "request"]
          /\ shown' = shown \/ shown' = [shown EXCEPT ![a] = "unknown"]
      BY <1>3, <2>4 DEF Arrive
    <3> QED  BY <1>0, <2>0, <2>4, <3>1
  <2> QED  BY <2>1, <2>2, <2>3, <2>4
<1>4. ASSUME NEW a \in Ask, Lost(a) PROVE RemovedOnce'
  BY <1>0, <1>4 DEF Lost
<1>5. ASSUME NEW a \in Ask, ParentKills(a) PROVE RemovedOnce'
  BY <1>0, <1>5 DEF ParentKills
<1>6. ASSUME NEW a \in Ask, HelperClosed(a) PROVE RemovedOnce'
  BY <1>0, <1>6 DEF HelperClosed, Outcome
<1>7. ASSUME NEW a \in Ask, CheckIdentity(a) PROVE RemovedOnce'
  BY <1>0, <1>7 DEF CheckIdentity
<1>8. ASSUME NEW a \in Ask, InspectTree(a) PROVE RemovedOnce'
  BY <1>0, <1>8 DEF InspectTree
<1>9. ASSUME NEW a \in Ask, LookForIt(a) PROVE RemovedOnce'
  BY <1>0, <1>9 DEF LookForIt
<1>10. ASSUME NEW a \in Ask, TakeLock(a) PROVE RemovedOnce'
  BY <1>0, <1>10 DEF TakeLock
<1>11. ASSUME NEW a \in Ask, MoveToTrash(a) PROVE RemovedOnce'
  <2>0. /\ helper[a] = "locked" /\ paper' = paper /\ reply' = reply /\ shown' = shown
    BY <1>11 DEF MoveToTrash
  <2>1. CASE paper[a] \in library /\ ~taken
    <3>1. library' = library \ {paper[a]} /\ helper' = [helper EXCEPT ![a] = "moved"]
      BY <1>11, <2>1 DEF MoveToTrash
    <3> QED  BY <1>0, <2>0, <2>1, <3>1
  <2>2. CASE ~(paper[a] \in library /\ ~taken)
    <3>1. library' = library /\ helper' = [helper EXCEPT ![a] = "recheck"]
      BY <1>11, <2>2 DEF MoveToTrash
    <3> QED  BY <1>0, <2>0, <3>1
  <2> QED  BY <2>1, <2>2
<1>12. ASSUME NEW a \in Ask, Purge(a) PROVE RemovedOnce'
  BY <1>0, <1>12 DEF Purge
<1>13. ASSUME NEW a \in Ask, GiveBackLock(a) PROVE RemovedOnce'
  BY <1>0, <1>13 DEF GiveBackLock
<1>14. ASSUME NEW a \in Ask, IsMissing(a) PROVE RemovedOnce'
  BY <1>0, <1>14 DEF IsMissing
<1>15. ASSUME NEW a \in Ask, HelperFails(a) PROVE RemovedOnce'
  BY <1>0, <1>15 DEF HelperFails
<1>16. ASSUME NEW a \in Ask, HelperExits(a) PROVE RemovedOnce'
  BY <1>0, <1>16 DEF HelperExits
<1>17. ASSUME NEW a \in Ask, HelperDies(a) PROVE RemovedOnce'
  BY <1>0, <1>17 DEF HelperDies
<1>18. ASSUME BeginReaderClose PROVE RemovedOnce'
  BY <1>0, <1>18 DEF BeginReaderClose
<1>19. ASSUME ConnectionsEnd PROVE RemovedOnce'
  BY <1>0, <1>19 DEF ConnectionsEnd
<1>20. ASSUME ReaderClosed PROVE RemovedOnce'
  BY <1>0, <1>20 DEF ReaderClosed, MutationsSettled
<1>21. ASSUME EnrollmentTakes PROVE RemovedOnce'
  BY <1>0, <1>21 DEF EnrollmentTakes
<1>22. CASE UNCHANGED removalVars
  BY <1>0, <1>22 DEF removalVars, around, process
<1> QED
  BY <1>1, <1>2, <1>3, <1>4, <1>5, <1>6, <1>7, <1>8, <1>9, <1>10, <1>11, <1>12, <1>13, <1>14, <1>15, <1>16,
    <1>17, <1>18, <1>19, <1>20, <1>21, <1>22 DEF RemovalNext

\* A helper is started by a server that is open, and answered for when it is gone.
LEMMA HelperIsAwaitedStep == RemovalInv /\ [RemovalNext]_removalVars => HelperIsAwaited'
<1> SUFFICES ASSUME RemovalInv, [RemovalNext]_removalVars PROVE HelperIsAwaited'
  OBVIOUS
<1>0. RemovalForm /\ HelperIsAwaited
  BY DEF RemovalInv
<1> USE DEF RemovalForm, HelperIsAwaited, shelves, around, request, process, Says, Answer, HelperStep, Replies, Only, InPlace
<1>1. ASSUME NEW a \in Ask, Post(a) PROVE HelperIsAwaited'
  BY <1>0, <1>1 DEF Post
<1>2. ASSUME NEW a \in Ask, PageGivesUp(a) PROVE HelperIsAwaited'
  BY <1>0, <1>2 DEF PageGivesUp
<1>3. ASSUME NEW a \in Ask, Arrive(a) PROVE HelperIsAwaited'
  BY <1>0, <1>3 DEF Arrive
<1>4. ASSUME NEW a \in Ask, Lost(a) PROVE HelperIsAwaited'
  BY <1>0, <1>4 DEF Lost
<1>5. ASSUME NEW a \in Ask, ParentKills(a) PROVE HelperIsAwaited'
  BY <1>0, <1>5 DEF ParentKills
<1>6. ASSUME NEW a \in Ask, HelperClosed(a) PROVE HelperIsAwaited'
  BY <1>0, <1>6 DEF HelperClosed, Outcome
<1>7. ASSUME NEW a \in Ask, CheckIdentity(a) PROVE HelperIsAwaited'
  BY <1>0, <1>7 DEF CheckIdentity
<1>8. ASSUME NEW a \in Ask, InspectTree(a) PROVE HelperIsAwaited'
  BY <1>0, <1>8 DEF InspectTree
<1>9. ASSUME NEW a \in Ask, LookForIt(a) PROVE HelperIsAwaited'
  BY <1>0, <1>9 DEF LookForIt
<1>10. ASSUME NEW a \in Ask, TakeLock(a) PROVE HelperIsAwaited'
  BY <1>0, <1>10 DEF TakeLock
<1>11. ASSUME NEW a \in Ask, MoveToTrash(a) PROVE HelperIsAwaited'
  BY <1>0, <1>11 DEF MoveToTrash
<1>12. ASSUME NEW a \in Ask, Purge(a) PROVE HelperIsAwaited'
  BY <1>0, <1>12 DEF Purge
<1>13. ASSUME NEW a \in Ask, GiveBackLock(a) PROVE HelperIsAwaited'
  BY <1>0, <1>13 DEF GiveBackLock
<1>14. ASSUME NEW a \in Ask, IsMissing(a) PROVE HelperIsAwaited'
  BY <1>0, <1>14 DEF IsMissing
<1>15. ASSUME NEW a \in Ask, HelperFails(a) PROVE HelperIsAwaited'
  BY <1>0, <1>15 DEF HelperFails
<1>16. ASSUME NEW a \in Ask, HelperExits(a) PROVE HelperIsAwaited'
  BY <1>0, <1>16 DEF HelperExits
<1>17. ASSUME NEW a \in Ask, HelperDies(a) PROVE HelperIsAwaited'
  BY <1>0, <1>17 DEF HelperDies
<1>18. ASSUME BeginReaderClose PROVE HelperIsAwaited'
  BY <1>0, <1>18 DEF BeginReaderClose
<1>19. ASSUME ConnectionsEnd PROVE HelperIsAwaited'
  BY <1>0, <1>19 DEF ConnectionsEnd
<1>20. ASSUME ReaderClosed PROVE HelperIsAwaited'
  BY <1>0, <1>20 DEF ReaderClosed, MutationsSettled
<1>21. ASSUME EnrollmentTakes PROVE HelperIsAwaited'
  BY <1>0, <1>21 DEF EnrollmentTakes
<1>22. CASE UNCHANGED removalVars
  BY <1>0, <1>22 DEF removalVars, around, process
<1> QED
  BY <1>1, <1>2, <1>3, <1>4, <1>5, <1>6, <1>7, <1>8, <1>9, <1>10, <1>11, <1>12, <1>13, <1>14, <1>15, <1>16,
    <1>17, <1>18, <1>19, <1>20, <1>21, <1>22 DEF RemovalNext

LEMMA RemovalInvAlways == RemovalSpec => []RemovalInv
<1>1. RemovalInv /\ [RemovalNext]_removalVars => RemovalInv'
  BY RemovalFormStep, RemovedIsGoneStep, RemovedOnceStep, HelperIsAwaitedStep DEF RemovalInv
<1> QED  BY <1>1, RemovalInvInit, PTL DEF RemovalSpec

LEMMA RemovalInvTold == RemovalInv => DeletionIsAsTold
BY DEF RemovalInv, RemovalForm, RemovedIsGone, RemovedOnce, HelperIsAwaited, Removed, Cleaned, Absent, DeletionIsAsTold

\* What a page says of a deletion is so, for any requests for any documents,
\* whatever fails, is killed or gives up, and although an enrollment takes the
\* directory away; and a server that is closed leaves no helper behind.
THEOREM DeletionIsAsToldAlways == RemovalSpec => []DeletionIsAsTold
BY RemovalInvAlways, RemovalInvTold, PTL

-----------------------------------------------------------------------------
(* A publication.  What the command has been told of a route was so at some  *)
(* moment; a ticket that was attempted is cancelled on every way to an exit  *)
(* code that does not say "delivered".                                       *)

PublicationForm ==
  /\ purpose \in {"first", "wait", "last"}
  /\ fate \in [Way -> Fate] /\ was \in [Way -> SUBSET Fate] /\ snap \in [Way -> Fate] /\ unseen \subseteq Way
  /\ delivery \in {"pending", "local-only", "blocked", "confirmed"}
  /\ exit \in {0, 2, 3, 99, 130}

SeenIsSo == \A r \in Way : fate[r] \in was[r] /\ snap[r] \in was[r]

Hindered(r) == was[r] \cap {"blocked", "suppressed", "revoked"} # {}

DeliveryIsSo ==
  /\ delivery = "confirmed" => \E r \in Way : "committed" \in was[r]
  /\ delivery = "local-only" => ~targeted
  /\ delivery = "blocked" => \A r \in Way : Hindered(r)

\* What has been looked at may still deliver, or was hindered.
LookIsSo == point = "look" => targeted /\ \A r \in Way \ unseen : canRetry \/ Hindered(r)

\* The cancellation for the routes that did not confirm, and the late one of the signal.
LastInspected == purpose = "last" /\ point \in {"inspect", "look"}

TicketIsAccounted ==
  /\ LastInspected => (submitted => cancelled)
  /\ point \in {"last", "viewer", "cancel late", "report", "exit"} /\ submitted /\ delivery # "confirmed" => cancelled
  /\ point \in {"report", "exit"} /\ interrupted /\ attempted => cancelled

ExitIsLast ==
  /\ point # "exit" => exit = 99
  /\ exit = 0 => delivery \in {"confirmed", "local-only"}
  /\ exit = 3 => delivery = "blocked"
  /\ exit = 130 => interrupted
  /\ exit = 2 => delivery = "pending"

PublicationInv == PublicationForm /\ SeenIsSo /\ DeliveryIsSo /\ LookIsSo /\ TicketIsAccounted /\ ExitIsLast

\* The environment: routes turn, the signal and the clock.
LEMMA PublicationWaits ==
  ASSUME PublicationInv, Interrupt \/ ClockMoves \/ ViewerSettles \/ (\E r \in Way : RouteTurns(r))
  PROVE  PublicationInv'
<1>1. /\ UNCHANGED <<point, looking, delivery, given, ticket, exit>> /\ point \notin {"report", "exit"}
  BY DEF Interrupt, ClockMoves, ViewerSettles, RouteTurns, Underway, PublicationInv, PublicationForm
<1>2. /\ fate' \in [Way -> Fate] /\ was' \in [Way -> SUBSET Fate]
      /\ \A r \in Way : was[r] \subseteq was'[r] /\ fate'[r] \in was'[r]
  <2>1. CASE UNCHANGED <<fate, was>>
    BY <2>1 DEF PublicationInv, PublicationForm, SeenIsSo
  <2>2. ASSUME NEW r \in Way, RouteTurns(r) PROVE <1>2!1 /\ <1>2!2
    <3>1. PICK f \in Turns[fate[r]] : fate' = [fate EXCEPT ![r] = f] /\ was' = [was EXCEPT ![r] = @ \cup {f}]
      BY <2>2 DEF RouteTurns
    <3>2. fate[r] \in Fate /\ Turns[fate[r]] \subseteq Fate
      BY DEF PublicationInv, PublicationForm, Fate, Turns
    <3> QED  BY <3>1, <3>2 DEF PublicationInv, PublicationForm, SeenIsSo
  <2> QED  BY <2>1, <2>2 DEF Interrupt, ClockMoves, ViewerSettles
<1>3. PublicationForm'
  BY <1>1, <1>2 DEF PublicationInv, PublicationForm, looking, given, ticket
<1>4. SeenIsSo' /\ DeliveryIsSo' /\ LookIsSo'
  BY <1>1, <1>2 DEF PublicationInv, PublicationForm, SeenIsSo, DeliveryIsSo, LookIsSo, Hindered, looking, given
<1>5. /\ purpose' = purpose /\ delivery' = delivery /\ submitted' = submitted /\ cancelled' = cancelled
      /\ point' = point /\ exit' = exit /\ exit = 99
  BY <1>1 DEF PublicationInv, ExitIsLast, looking, ticket
<1>6. TicketIsAccounted'
  BY <1>1, <1>5 DEF PublicationInv, TicketIsAccounted, LastInspected
<1>7. ExitIsLast'
  BY <1>5 DEF ExitIsLast
<1> QED  BY <1>3, <1>4, <1>6, <1>7 DEF PublicationInv

\* An inspection.
LEMMA PublicationInspects ==
  ASSUME PublicationInv, Snapshot \/ Look \/ Concluded \/ InspectionFails
  PROVE  PublicationInv'
<1> USE DEF PublicationInv, PublicationForm
<1>1. /\ interrupted' = interrupted /\ fate' = fate /\ was' = was /\ targeted' = targeted
      /\ attempted' = attempted /\ submitted' = submitted /\ cancelled' = cancelled /\ exit' = exit
      /\ purpose' = purpose /\ point \in {"inspect", "look"}
  BY DEF Snapshot, Look, Concluded, InspectionFails, outside, given, ticket, looking
<1>2. /\ snap' \in [Way -> Fate] /\ \A r \in Way : snap'[r] \in was[r]
  BY DEF Snapshot, Look, Concluded, InspectionFails, looking, SeenIsSo
<1>3. unseen' \subseteq Way
  <2>1. CASE Snapshot
    BY <2>1 DEF Snapshot, Matching
  <2>2. CASE Look
    BY <2>2 DEF Look
  <2>3. CASE Concluded \/ InspectionFails
    BY <2>3 DEF Concluded, InspectionFails, looking
  <2> QED  BY <2>1, <2>2, <2>3
<1>4. DeliveryIsSo' /\ delivery' \in {"pending", "local-only", "blocked", "confirmed"}
  <2>1. CASE Snapshot
    <3>1. \A r \in Way : fate[r] = "revoked" => Hindered(r)
      BY DEF SeenIsSo, Hindered
    <3> QED  BY <1>1, <2>1, <3>1 DEF Snapshot, Inspected, Matching, DeliveryIsSo, Hindered
  <2>2. CASE Look
    BY <1>1, <2>2 DEF Look, Inspected, Confirms, DeliveryIsSo, SeenIsSo, Hindered
  <2>3. CASE Concluded
    BY <1>1, <2>3 DEF Concluded, Inspected, DeliveryIsSo, LookIsSo, Hindered
  <2>4. CASE InspectionFails
    BY <1>1, <2>4 DEF InspectionFails, DeliveryIsSo, Hindered
  <2> QED  BY <2>1, <2>2, <2>3, <2>4
<1>5. LookIsSo'
  <2>1. CASE Snapshot
    <3>1. \A r \in Way : fate[r] = "revoked" => Hindered(r)
      BY DEF SeenIsSo, Hindered
    <3> QED  BY <1>1, <2>1, <3>1 DEF Snapshot, Inspected, Matching, LookIsSo, Hindered
  <2>2. CASE Look
    <3>1. PICK r \in unseen : \E heard \in {fate[r], snap[r]} :
            point' = "look" =>
              /\ unseen' = unseen \ {r}
              /\ canRetry' = (canRetry \/ heard \notin {"suppressed", "blocked"})
      BY <1>1, <2>2 DEF Look, Inspected
    <3>6. PICK heard \in {fate[r], snap[r]} :
            point' = "look" =>
              /\ unseen' = unseen \ {r}
              /\ canRetry' = (canRetry \/ heard \notin {"suppressed", "blocked"})
      BY <3>1
    <3>2. heard \in was[r]
      BY DEF SeenIsSo
    <3>3. heard \in {"suppressed", "blocked"} => Hindered(r)
      BY <3>2 DEF Hindered
    <3>4. point' = "look" => (canRetry \/ heard \notin {"suppressed", "blocked"} => canRetry')
      BY <3>6, Zenon
    <3>5. point' = "look" => \A w \in Way \ unseen' : canRetry' \/ Hindered(w)
      BY <2>2, <3>3, <3>4, <3>6 DEF Look, LookIsSo
    <3> QED  BY <1>1, <2>2, <3>5 DEF LookIsSo, Hindered, Look
  <2>3. CASE Concluded \/ InspectionFails
    BY <1>1, <2>3 DEF Concluded, InspectionFails, Inspected, LookIsSo
  <2> QED  BY <2>1, <2>2, <2>3
<1>6. point' \notin {"last", "cancel late", "report", "exit"} /\ (point' = "viewer" => purpose = "last")
      /\ (LastInspected' => LastInspected)
  BY <1>1 DEF Snapshot, Look, Concluded, InspectionFails, Inspected, LastInspected
<1>7. TicketIsAccounted'
  BY <1>1, <1>6 DEF TicketIsAccounted, LastInspected
<1>8. exit = 99 /\ exit' = 99
  BY <1>1 DEF ExitIsLast
<1>9. ExitIsLast'
  BY <1>8 DEF ExitIsLast
<1> QED  BY <1>1, <1>2, <1>3, <1>4, <1>5, <1>7, <1>9 DEF SeenIsSo

\* The steps of the command between its inspections.
LEMMA PublicationProceeds ==
  ASSUME PublicationInv,
         \/ Decide \/ EnsureWorker \/ Submit \/ Await \/ Settle \/ Cancel
         \/ LastInspection \/ AfterStatus \/ Report
  PROVE  PublicationInv'
<1> USE DEF PublicationInv, PublicationForm
<1>1. /\ interrupted' = interrupted /\ fate' = fate /\ was' = was /\ targeted' = targeted /\ delivery' = delivery
      /\ snap' = snap /\ unseen' = unseen /\ blockedBy' = blockedBy /\ canRetry' = canRetry
      /\ point # "look" /\ point' # "look"
  BY DEF Decide, EnsureWorker, Submit, Await, Settle, Cancel, LastInspection, AfterStatus, Report,
         outside, given, ticket, looking
<1>2. /\ purpose' \in {"first", "wait", "last"}
      /\ exit' \in {0, 2, 3, 99, 130}
  BY DEF Decide, EnsureWorker, Submit, Await, Settle, Cancel, LastInspection, AfterStatus, Report, ticket, looking
<1>3. TicketIsAccounted'
  <2>1. CASE Decide \/ EnsureWorker \/ Submit \/ Await
    <3>1. point' \in {"ensure", "settle", "submit", "wait", "inspect"} /\ (point' = "inspect" => purpose' = "wait")
      BY <2>1 DEF Decide, EnsureWorker, Submit, Await
    <3> QED  BY <3>1 DEF TicketIsAccounted, LastInspected
  <2>2. CASE Settle
    BY <1>1, <2>2 DEF Settle, TicketIsAccounted, LastInspected, ticket
  <2>3. CASE Cancel
    BY <2>3 DEF Cancel, TicketIsAccounted
  <2>4. CASE LastInspection
    BY <1>1, <2>4 DEF LastInspection, TicketIsAccounted, LastInspected, ticket
  <2>5. CASE AfterStatus
    BY <1>1, <2>5 DEF AfterStatus, CancelLate, TicketIsAccounted, LastInspected, ticket
  <2>6. CASE Report
    BY <1>1, <2>6 DEF Report, TicketIsAccounted, LastInspected, ticket
  <2> QED  BY <2>1, <2>2, <2>3, <2>4, <2>5, <2>6
<1>4. ExitIsLast'
  <2>1. CASE Report
    BY <1>1, <2>1 DEF Report, ExitIsLast
  <2>2. CASE ~Report
    <3>1. exit' = exit /\ point # "exit"
      BY <2>2 DEF Decide, EnsureWorker, Submit, Await, Settle, Cancel, LastInspection, AfterStatus
    <3>2. exit = 99
      BY <3>1 DEF ExitIsLast
    <3> QED  BY <3>1, <3>2 DEF ExitIsLast
  <2> QED  BY <2>1, <2>2
<1> QED  BY <1>1, <1>2, <1>3, <1>4 DEF SeenIsSo, DeliveryIsSo, LookIsSo, Hindered

LEMMA PublicationSound == PublicationSpec => []PublicationInv
<1>1. PublicationInit => PublicationInv
  BY DEF PublicationInit, PublicationInv, PublicationForm, SeenIsSo, DeliveryIsSo, LookIsSo, TicketIsAccounted,
         ExitIsLast, LastInspected, Fate
<1>2. ASSUME PublicationInv, [PublicationNext]_pubVars PROVE PublicationInv'
  <2>1. CASE UNCHANGED pubVars
    <3>1. /\ point' = point /\ purpose' = purpose /\ interrupted' = interrupted /\ targeted' = targeted /\ fate' = fate
          /\ was' = was /\ snap' = snap /\ unseen' = unseen /\ canRetry' = canRetry /\ delivery' = delivery
          /\ attempted' = attempted /\ submitted' = submitted /\ cancelled' = cancelled /\ exit' = exit
      BY <2>1 DEF pubVars
    <3>2. PublicationForm'
      BY <1>2, <3>1 DEF PublicationInv, PublicationForm
    <3>3. SeenIsSo' /\ DeliveryIsSo' /\ LookIsSo'
      BY <1>2, <3>1 DEF PublicationInv, SeenIsSo, DeliveryIsSo, LookIsSo, Hindered
    <3>4. TicketIsAccounted' /\ ExitIsLast'
      BY <1>2, <3>1 DEF PublicationInv, TicketIsAccounted, LastInspected, ExitIsLast
    <3> QED  BY <3>2, <3>3, <3>4 DEF PublicationInv
  <2> QED  BY <1>2, <2>1, PublicationWaits, PublicationInspects, PublicationProceeds DEF PublicationNext
<1> QED  BY <1>1, <1>2, PTL DEF PublicationSpec

\* The exit code is true, whenever the signal, the deadlines and the worker come in
\* between (sync-publication.ts publishManagedDocument).
THEOREM ExitIsTrueAlways == PublicationSpec => []ExitIsTrue
<1>1. ASSUME PublicationInv PROVE ExitIsTrue
  <2>1. exit # 99 => point = "exit"
    BY <1>1 DEF PublicationInv, ExitIsLast
  <2>2. exit = 0 /\ targeted => \E r \in Way : "committed" \in was[r]
    BY <1>1 DEF PublicationInv, ExitIsLast, DeliveryIsSo
  <2>3. exit = 3 => \A r \in Way : was[r] \cap {"blocked", "suppressed", "revoked"} # {}
    BY <1>1 DEF PublicationInv, ExitIsLast, DeliveryIsSo, Hindered
  <2>4. exit = 130 /\ attempted => cancelled
    BY <1>1, <2>1 DEF PublicationInv, ExitIsLast, TicketIsAccounted
  <2>5. exit = 2 /\ submitted => cancelled
    BY <1>1, <2>1 DEF PublicationInv, ExitIsLast, TicketIsAccounted
  <2> QED  BY <2>2, <2>3, <2>4, <2>5 DEF ExitIsTrue
<1> QED  BY <1>1, PublicationSound, PTL

-----------------------------------------------------------------------------
(* The sessions of the ingestion server.  A session that is kept is busy      *)
(* exactly while one handler works on it; one that is not kept any more is    *)
(* never kept again, whatever the handlers that still hold it do.             *)

Workplace == {"inventory", "applying", "activating", "pinning", "sending"}
Places    == Workplace \cup {"idle", "reading", "offering", "receiving"}

SessionRecord ==
  [kept : {"no", "yes", "gone"}, rev : Nat, busy : BOOLEAN, pages : Nat, ready : BOOLEAN,
   active : BOOLEAN, expired : BOOLEAN]
TransferRecord == [kept : {"no", "yes", "gone"}, rev : Nat, expired : BOOLEAN]
Request ==
  [where : Places, op : Op \cup {"none"}, on : Session \cup Transfer \cup {Unnamed}, rev : Nat, cut : BOOLEAN]

IngestionForm ==
  /\ revision \in Nat /\ direction \in {"inbound", "outbound"}
  /\ sess \in [Session -> SessionRecord] /\ trans \in [Transfer -> TransferRecord]
  /\ uses \in [Transfer -> Nat] /\ hand \in [Handler -> Request]

WorksOn(h, s) == hand[h].where \in Workplace /\ hand[h].on = s

\* Whom a handler asks for is one of ours, and whom it works on has been kept.
AimIsNamed ==
  \A h \in Handler : hand[h].where = "reading" =>
    /\ hand[h].op \in {"page", "ready", "complete", "get"} => hand[h].on \in Session
    /\ hand[h].op = "put" => hand[h].on \in Transfer

WorkIsKept ==
  \A h \in Handler : hand[h].where \in Workplace => hand[h].on \in Session /\ sess[hand[h].on].kept # "no"

OneAtWork ==
  \A s \in Session : sess[s].kept = "yes" =>
    /\ sess[s].busy <=> (\E h \in Handler : WorksOn(h, s))
    /\ \A g, h \in Handler : WorksOn(g, s) /\ WorksOn(h, s) => g = h

\* What a session has served, and what its handlers go by.
Served ==
  /\ \A s \in Session : sess[s].active => sess[s].pages = Pages
  /\ \A s \in Session : sess[s].kept = "yes" => (sess[s].active => sess[s].ready)
  /\ \A s \in Session : sess[s].kept = "yes" => (sess[s].ready => sess[s].pages = Pages)
  /\ \A h \in Handler : hand[h].where = "pinning" => sess[hand[h].on].active
  /\ \A h \in Handler : hand[h].where = "activating" /\ sess[hand[h].on].kept = "yes" => sess[hand[h].on].ready
  /\ \A h \in Handler : hand[h].where = "applying" /\ sess[hand[h].on].kept = "yes" => ~sess[hand[h].on].ready

SessionsFit == IsFiniteSet(Kept(sess)) /\ Cardinality(Kept(sess)) <= MaxSessions

BodiesFit == \A t \in Transfer : uses[t] <= 1 /\ (trans[t].kept # "gone" => uses[t] = 0)

Occupied == WorkIsKept /\ OneAtWork /\ Served

IngestionInv == IngestionForm /\ AimIsNamed /\ Occupied /\ SessionsFit /\ BodiesFit

\* Dropping sessions and writing to one.
LEMMA DropSessIs ==
  ASSUME IngestionForm, NEW xs
  PROVE  /\ DropSess(xs) \in [Session -> SessionRecord]
         /\ \A s \in Session : s \notin xs => DropSess(xs)[s] = sess[s]
         /\ \A s \in Session : s \in xs => /\ DropSess(xs)[s].kept = "gone"
                                           /\ DropSess(xs)[s].pages = sess[s].pages
                                           /\ DropSess(xs)[s].active = sess[s].active
<1>1. \A s \in Session : /\ Forgotten(sess[s]) \in SessionRecord /\ Forgotten(sess[s]).kept = "gone"
                         /\ Forgotten(sess[s]).pages = sess[s].pages /\ Forgotten(sess[s]).active = sess[s].active
  BY DEF IngestionForm, Forgotten, NewSess, SessionRecord
<1> QED  BY <1>1 DEF DropSess, IngestionForm

LEMMA DropTransIs ==
  ASSUME IngestionForm, NEW xs
  PROVE  /\ DropTrans(xs) \in [Transfer -> TransferRecord]
         /\ \A t \in Transfer : t \notin xs => DropTrans(xs)[t] = trans[t]
         /\ \A t \in Transfer : t \in xs => DropTrans(xs)[t].kept = "gone"
<1>1. [NewTrans EXCEPT !.kept = "gone"] \in TransferRecord /\ [NewTrans EXCEPT !.kept = "gone"].kept = "gone"
  BY DEF NewTrans, TransferRecord
<1> QED  BY <1>1 DEF DropTrans, IngestionForm

LEMMA WritesIs ==
  ASSUME IngestionForm, NEW s \in Session, NEW session \in SessionRecord
  PROVE  /\ Writes(s, session) \in [Session -> SessionRecord]
         /\ \A x \in Session : x # s => Writes(s, session)[x] = sess[x]
         /\ sess[s].kept = "gone" => Writes(s, session)[s] = sess[s]
         /\ sess[s].kept # "gone" => Writes(s, session)[s] = session
BY DEF Writes, IngestionForm

\* Some sessions are forgotten, busy or not; of the others no handler stops to work.
LEMMA WorkGoesOn ==
  ASSUME IngestionForm, Occupied, NEW xs,
         \A s \in Session \ xs : /\ sess'[s].kept = sess[s].kept /\ (sess'[s].busy <=> sess[s].busy)
                                 /\ (sess'[s].ready <=> sess[s].ready) /\ (sess'[s].active <=> sess[s].active)
                                 /\ sess'[s].pages = sess[s].pages,
         \A s \in Session : s \in xs => /\ sess'[s].kept = "gone" /\ sess'[s].pages = sess[s].pages
                                       /\ (sess'[s].active <=> sess[s].active),
         \A h \in Handler : hand'[h].where \in Workplace =>
           /\ hand[h].where \in Workplace /\ hand'[h].on = hand[h].on
           /\ hand'[h].where = hand[h].where \/ (hand[h].where = "pinning" /\ hand'[h].where = "sending"),
         \A h \in Handler : hand[h].where \in Workplace /\ hand[h].on \notin xs =>
           hand'[h].where \in Workplace
  PROVE  Occupied'
<1>1. WorkIsKept'
  BY DEF Occupied, WorkIsKept
<1>2. \A s \in Session : sess'[s].kept = "yes" =>
        /\ s \notin xs /\ sess[s].kept = "yes"
        /\ \A h \in Handler : WorksOn(h, s) <=> (hand'[h].where \in Workplace /\ hand'[h].on = s)
  BY DEF WorksOn
<1>3. OneAtWork'
  BY <1>2 DEF Occupied, OneAtWork, WorksOn
<1>4. Served'
  <2>1. \A s \in Session : sess'[s].active => sess'[s].pages = Pages
    BY DEF Occupied, Served
  <2>2. \A s \in Session : sess'[s].kept = "yes" =>
          (sess'[s].active => sess'[s].ready) /\ (sess'[s].ready => sess'[s].pages = Pages)
    BY <1>2 DEF Occupied, Served
  <2>3. \A h \in Handler : hand'[h].where = "pinning" => sess'[hand'[h].on].active
    BY DEF Occupied, Served, WorkIsKept, Workplace
  <2>4. \A h \in Handler : sess'[hand'[h].on].kept = "yes" =>
          /\ hand'[h].where = "activating" => sess'[hand'[h].on].ready
          /\ hand'[h].where = "applying" => ~sess'[hand'[h].on].ready
    BY <1>1, <1>2 DEF Occupied, Served, WorkIsKept, Workplace
  <2> QED  BY <2>1, <2>2, <2>3, <2>4 DEF Served
<1> QED  BY <1>1, <1>3, <1>4 DEF Occupied

\* A handler is done with its session, kept or not.
LEMMA WorkIsDone ==
  ASSUME IngestionForm, Occupied, NEW h \in Handler, NEW s \in Session, WorksOn(h, s),
         \A g \in Handler : g # h => hand'[g] = hand[g],
         hand'[h].where \notin Workplace,
         \A x \in Session : x # s => sess'[x] = sess[x],
         sess[s].kept # "yes" => sess'[s] = sess[s],
         sess[s].kept = "yes" => /\ sess'[s].kept = "yes" /\ ~sess'[s].busy
                                 /\ (sess'[s].active => sess'[s].ready)
                                 /\ (sess'[s].ready => sess'[s].pages = Pages)
  PROVE  Occupied'
<1>1. sess[s].kept # "no" /\ sess'[s].kept # "no" /\ (sess'[s].kept = "yes" <=> sess[s].kept = "yes")
  BY DEF Occupied, WorkIsKept, WorksOn
<1>2. sess[s].kept = "yes" => \A g \in Handler : g # h => ~WorksOn(g, s)
  BY DEF Occupied, OneAtWork
<1>3. WorkIsKept'
  BY <1>1 DEF Occupied, WorkIsKept
<1>4. OneAtWork'
  <2>1. ASSUME NEW x \in Session, sess'[x].kept = "yes", x # s
        PROVE  \A g \in Handler : WorksOn(g, x) <=> (hand'[g].where \in Workplace /\ hand'[g].on = x)
    BY <2>1 DEF WorksOn
  <2>2. sess'[s].kept = "yes" => \A g \in Handler : ~(hand'[g].where \in Workplace /\ hand'[g].on = s)
    BY <1>1, <1>2 DEF WorksOn
  <2> QED  BY <1>1, <2>1, <2>2 DEF Occupied, OneAtWork, WorksOn
<1>5. Served'
  <2>1. \A x \in Session : sess'[x].active => sess'[x].pages = Pages
    BY <1>1 DEF Occupied, Served
  <2>2. \A x \in Session : sess'[x].kept = "yes" =>
          (sess'[x].active => sess'[x].ready) /\ (sess'[x].ready => sess'[x].pages = Pages)
    BY <1>1 DEF Occupied, Served
  <2>3. ASSUME NEW g \in Handler, hand'[g].where \in {"pinning", "activating", "applying"}
        PROVE  g # h /\ hand'[g] = hand[g] /\ hand[g].on \in Session /\ sess'[hand[g].on] = sess[hand[g].on]
    BY <1>2, <2>3 DEF Workplace, Occupied, WorkIsKept, WorksOn
  <2>4. ASSUME NEW g \in Handler PROVE
          /\ hand'[g].where = "pinning" => sess'[hand'[g].on].active
          /\ sess'[hand'[g].on].kept = "yes" =>
               /\ hand'[g].where = "activating" => sess'[hand'[g].on].ready
               /\ hand'[g].where = "applying" => ~sess'[hand'[g].on].ready
    BY <2>3 DEF Occupied, Served
  <2> QED  BY <2>1, <2>2, <2>4 DEF Served
<1> QED  BY <1>3, <1>4, <1>5 DEF Occupied

\* A handler takes up a session that nobody works on.
LEMMA WorkBegins ==
  ASSUME IngestionForm, Occupied, NEW h \in Handler, NEW s \in Session, hand[h].where = "reading",
         \A g \in Handler : g # h => hand'[g] = hand[g],
         hand'[h].where \in Workplace, hand'[h].on = s,
         \A x \in Session : x # s => sess'[x] = sess[x],
         \A g \in Handler : ~WorksOn(g, s), sess'[s].kept = "yes", sess'[s].busy,
         sess'[s].active => sess'[s].ready, sess'[s].ready => sess'[s].pages = Pages,
         hand'[h].where = "pinning" => sess'[s].active,
         hand'[h].where = "activating" => sess'[s].ready,
         hand'[h].where = "applying" => ~sess'[s].ready
  PROVE  Occupied'
<1>1. WorkIsKept'
  <2>1. ASSUME NEW g \in Handler, hand'[g].where \in Workplace, g # h PROVE sess'[hand'[g].on] = sess[hand[g].on]
    BY <2>1 DEF Occupied, WorkIsKept, WorksOn
  <2> QED  BY <2>1 DEF Occupied, WorkIsKept
<1>2. OneAtWork'
  <2>1. ASSUME NEW x \in Session, x # s
        PROVE  \A g \in Handler : WorksOn(g, x) <=> (hand'[g].where \in Workplace /\ hand'[g].on = x)
    BY <2>1 DEF WorksOn, Workplace
  <2>2. \A g \in Handler : (hand'[g].where \in Workplace /\ hand'[g].on = s) <=> g = h
    BY DEF WorksOn
  <2>3. ASSUME NEW x \in Session, sess'[x].kept = "yes"
        PROVE  /\ sess'[x].busy <=> (\E g \in Handler : hand'[g].where \in Workplace /\ hand'[g].on = x)
               /\ \A f, g \in Handler : /\ hand'[f].where \in Workplace /\ hand'[f].on = x
                                       /\ hand'[g].where \in Workplace /\ hand'[g].on = x => f = g
    <3>1. CASE x = s
      BY <2>2, <3>1
    <3>2. CASE x # s
      BY <2>1, <2>3, <3>2 DEF Occupied, OneAtWork
    <3> QED  BY <3>1, <3>2
  <2> QED  BY <2>3 DEF OneAtWork, WorksOn
<1>3. Served'
  <2>1. \A x \in Session : sess'[x].active => sess'[x].pages = Pages
    BY DEF Occupied, Served
  <2>2. \A x \in Session : sess'[x].kept = "yes" =>
          (sess'[x].active => sess'[x].ready) /\ (sess'[x].ready => sess'[x].pages = Pages)
    BY DEF Occupied, Served
  <2>3. ASSUME NEW g \in Handler, hand'[g].where \in {"pinning", "activating", "applying"}, g # h
        PROVE  hand'[g] = hand[g] /\ hand[g].on \in Session /\ sess'[hand[g].on] = sess[hand[g].on]
    BY <2>3 DEF Workplace, Occupied, WorkIsKept, WorksOn
  <2>4. ASSUME NEW g \in Handler PROVE
          /\ hand'[g].where = "pinning" => sess'[hand'[g].on].active
          /\ sess'[hand'[g].on].kept = "yes" =>
               /\ hand'[g].where = "activating" => sess'[hand'[g].on].ready
               /\ hand'[g].where = "applying" => ~sess'[hand'[g].on].ready
    BY <2>3 DEF Occupied, Served
  <2> QED  BY <2>1, <2>2, <2>4 DEF Served
<1> QED  BY <1>1, <1>2, <1>3 DEF Occupied

\* A session that nobody works on is created, or served a page.
LEMMA RestingSession ==
  ASSUME IngestionForm, Occupied, NEW h \in Handler, NEW s \in Session,
         \A g \in Handler : g # h => hand'[g] = hand[g],
         hand[h].where \notin Workplace, hand'[h].where \notin Workplace,
         \A x \in Session : x # s => sess'[x] = sess[x],
         \A g \in Handler : ~WorksOn(g, s), sess'[s].kept = "yes", ~sess'[s].busy,
         sess'[s].active => sess'[s].ready, sess'[s].ready => sess'[s].pages = Pages
  PROVE  Occupied'
<1>1. \A g \in Handler : hand'[g].where \in Workplace =>
        hand'[g] = hand[g] /\ hand[g].on \in Session /\ sess'[hand[g].on] = sess[hand[g].on]
  BY DEF Occupied, WorkIsKept, WorksOn
<1>2. WorkIsKept'
  BY <1>1 DEF Occupied, WorkIsKept
<1>3. \A x \in Session, g \in Handler : WorksOn(g, x) <=> (hand'[g].where \in Workplace /\ hand'[g].on = x)
  BY DEF WorksOn
<1>4. OneAtWork'
  BY <1>3 DEF Occupied, OneAtWork, WorksOn
<1>5. Served'
  <2>1. \A x \in Session : sess'[x].active => sess'[x].pages = Pages
    BY DEF Occupied, Served
  <2>2. \A x \in Session : sess'[x].kept = "yes" =>
          (sess'[x].active => sess'[x].ready) /\ (sess'[x].ready => sess'[x].pages = Pages)
    BY DEF Occupied, Served
  <2>3. ASSUME NEW g \in Handler PROVE
          /\ hand'[g].where = "pinning" => sess'[hand'[g].on].active
          /\ sess'[hand'[g].on].kept = "yes" =>
               /\ hand'[g].where = "activating" => sess'[hand'[g].on].ready
               /\ hand'[g].where = "applying" => ~sess'[hand'[g].on].ready
    BY <1>1 DEF Occupied, Served, Workplace
  <2> QED  BY <2>1, <2>2, <2>3 DEF Served
<1> QED  BY <1>2, <1>4, <1>5 DEF Occupied

\* No handler begins or ends, no session but an unused one changes.
LEMMA NothingTouched ==
  ASSUME IngestionForm, Occupied, sess' = sess,
         \A h \in Handler : hand'[h].where \in Workplace \/ hand[h].where \in Workplace =>
           hand'[h].where = hand[h].where /\ hand'[h].on = hand[h].on
  PROVE  Occupied'
<1> DEFINE none == {}
<1>1. \A s \in Session \ none : /\ sess'[s].kept = sess[s].kept /\ (sess'[s].busy <=> sess[s].busy)
                                 /\ (sess'[s].ready <=> sess[s].ready) /\ (sess'[s].active <=> sess[s].active)
                                 /\ sess'[s].pages = sess[s].pages
  OBVIOUS
<1>2. \A h \in Handler : hand'[h].where \in Workplace =>
           /\ hand[h].where \in Workplace /\ hand'[h].on = hand[h].on
           /\ hand'[h].where = hand[h].where \/ (hand[h].where = "pinning" /\ hand'[h].where = "sending")
  OBVIOUS
<1>3. \A h \in Handler : hand[h].where \in Workplace /\ hand[h].on \notin none => hand'[h].where \in Workplace
  OBVIOUS
<1>4. \A s \in Session : s \in none => /\ sess'[s].kept = "gone" /\ sess'[s].pages = sess[s].pages
                                       /\ (sess'[s].active <=> sess[s].active)
  OBVIOUS
<1> HIDE DEF none
<1> QED  BY <1>1, <1>2, <1>3, <1>4, WorkGoesOn

\* A handler answers, or goes to a place where it holds no session.
LEMMA AnswersIs ==
  ASSUME IngestionForm, AimIsNamed, NEW h \in Handler, Answers(h)
  PROVE  /\ hand' \in [Handler -> Request] /\ hand'[h].where = "idle"
         /\ \A g \in Handler : g # h => hand'[g] = hand[g]
         /\ AimIsNamed'
<1>1. Idle \in Request /\ Idle.where = "idle"
  BY DEF Idle, Request, Places
<1>2. hand' \in [Handler -> Request] /\ hand'[h] = Idle /\ \A g \in Handler : g # h => hand'[g] = hand[g]
  BY <1>1 DEF Answers, IngestionForm
<1> QED  BY <1>1, <1>2 DEF AimIsNamed

LEMMA GoesIs ==
  ASSUME IngestionForm, AimIsNamed, NEW h \in Handler, NEW w \in Places \ {"reading"}, Goes(h, w)
  PROVE  /\ hand' \in [Handler -> Request] /\ hand'[h].where = w /\ hand'[h].on = hand[h].on
         /\ \A g \in Handler : g # h => hand'[g] = hand[g]
         /\ AimIsNamed'
<1>1. /\ hand' \in [Handler -> Request] /\ hand'[h].where = w /\ hand'[h].on = hand[h].on
      /\ \A g \in Handler : g # h => hand'[g] = hand[g]
  BY DEF Goes, IngestionForm, Request
<1> QED  BY <1>1 DEF AimIsNamed

\* Without a new session there are no more of them.
LEMMA NoMoreSessions ==
  ASSUME IngestionForm, SessionsFit, sess' \in [Session -> SessionRecord],
         \A s \in Session : sess'[s].kept = "yes" => sess[s].kept = "yes"
  PROVE  SessionsFit'
<1> DEFINE S == {s \in Session : sess[s].kept = "yes"}
           T == {s \in Session : sess'[s].kept = "yes"}
<1>1. Kept(sess) = S
  BY DEF Kept, IngestionForm
<1>2. Kept(sess') = T
  BY DEF Kept
<1>3. T \subseteq S
  OBVIOUS
<1>4. IsFiniteSet(S) /\ Cardinality(S) <= MaxSessions
  BY <1>1 DEF SessionsFit
<1> HIDE DEF S, T
<1>5. IsFiniteSet(T) /\ Cardinality(T) <= Cardinality(S)
  BY <1>3, <1>4, FS_Subset
<1>6. Cardinality(S) \in Nat /\ Cardinality(T) \in Nat /\ MaxSessions \in Nat
  BY <1>4, <1>5, FS_CardinalityType, IngestionSessionsAssumption
<1>7. Cardinality(T) <= MaxSessions
  BY <1>4, <1>5, <1>6
<1> QED  BY <1>2, <1>5, <1>7 DEF SessionsFit

\* A session that is created found room.
LEMMA OneMoreSession ==
  ASSUME IngestionForm, SessionsFit, sess' \in [Session -> SessionRecord], NEW s \in Session,
         Cardinality(Kept(sess)) < MaxSessions, \A x \in Session : x # s => sess'[x] = sess[x]
  PROVE  SessionsFit'
<1> DEFINE S == {x \in Session : sess[x].kept = "yes"}
           T == {x \in Session : sess'[x].kept = "yes"}
<1>1. Kept(sess) = S
  BY DEF Kept, IngestionForm
<1>2. Kept(sess') = T
  BY DEF Kept
<1>3. T \subseteq S \cup {s}
  OBVIOUS
<1>4. IsFiniteSet(S) /\ Cardinality(S) < MaxSessions
  BY <1>1 DEF SessionsFit
<1> HIDE DEF S, T
<1>5. /\ IsFiniteSet(S \cup {s})
      /\ Cardinality(S \cup {s}) = IF s \in S THEN Cardinality(S) ELSE Cardinality(S) + 1
  BY <1>4, FS_AddElement
<1>6. IsFiniteSet(T) /\ Cardinality(T) <= Cardinality(S \cup {s})
  BY <1>3, <1>5, FS_Subset
<1>7. Cardinality(S) \in Nat /\ Cardinality(T) \in Nat /\ MaxSessions \in Nat
  BY <1>4, <1>6, FS_CardinalityType, IngestionSessionsAssumption
<1>8. Cardinality(T) <= MaxSessions
  BY <1>4, <1>5, <1>6, <1>7
<1> QED  BY <1>2, <1>6, <1>8 DEF SessionsFit

\* A request is admitted; what has expired is forgotten.
LEMMA RequestAdmitted ==
  ASSUME IngestionInv, NEW h \in Handler, Authenticate(h)
  PROVE  IngestionInv'
<1>1. IngestionForm /\ Occupied /\ AimIsNamed /\ SessionsFit /\ BodiesFit
  BY DEF IngestionInv
<1> DEFINE xs == {s \in Kept(sess) : sess[s].expired /\ ~sess[s].busy}
           ts == {t \in Kept(trans) : trans[t].expired}
<1>2. /\ sess' = DropSess(xs) /\ trans' = DropTrans(ts) /\ uses' = uses /\ revision' = revision
      /\ direction' = direction /\ hand[h].where = "idle"
  BY DEF Authenticate, Now
<1>17. PICK op \in Op : \E x \in Targets(op) :
        hand' = [hand EXCEPT ![h] = [where |-> "reading", op |-> op, on |-> x, rev |-> revision, cut |-> FALSE]]
  BY DEF Authenticate
<1>3. PICK x \in Targets(op) :
        hand' = [hand EXCEPT ![h] = [where |-> "reading", op |-> op, on |-> x, rev |-> revision, cut |-> FALSE]]
  BY <1>17
<1>4. x \in Session \cup Transfer \cup {Unnamed}
      /\ (op \in {"page", "ready", "complete", "get"} => x \in Session) /\ (op = "put" => x \in Transfer)
  BY <1>1 DEF Targets, Kept, Op, IngestionForm
<1>5. [where |-> "reading", op |-> op, on |-> x, rev |-> revision, cut |-> FALSE] \in Request
  BY <1>1, <1>4 DEF Request, IngestionForm, Places
<1>6. /\ hand' \in [Handler -> Request] /\ \A g \in Handler : g # h => hand'[g] = hand[g]
      /\ hand'[h].where = "reading" /\ hand'[h].op = op /\ hand'[h].on = x
  BY <1>1, <1>3, <1>5 DEF IngestionForm
<1>7. xs \subseteq {s \in Session : sess[s].kept = "yes" /\ ~sess[s].busy} /\ ts \subseteq Transfer
  BY <1>1 DEF Kept, IngestionForm
<1> HIDE DEF xs, ts
<1>8. /\ sess' \in [Session -> SessionRecord] /\ \A s \in Session : s \notin xs => sess'[s] = sess[s]
      /\ \A s \in Session : s \in xs => /\ sess'[s].kept = "gone" /\ sess'[s].pages = sess[s].pages
                                        /\ sess'[s].active = sess[s].active
  BY <1>1, <1>2, DropSessIs
<1>9. /\ trans' \in [Transfer -> TransferRecord] /\ \A t \in Transfer : t \notin ts => trans'[t] = trans[t]
      /\ \A t \in Transfer : t \in ts => trans'[t].kept = "gone"
  BY <1>1, <1>2, DropTransIs
<1>10. IngestionForm'
  BY <1>1, <1>2, <1>6, <1>8, <1>9 DEF IngestionForm
<1>11. AimIsNamed'
  BY <1>1, <1>4, <1>6 DEF AimIsNamed
<1>12. Occupied'
  <2>1. \A g \in Handler : hand[g].where \in Workplace => g # h /\ hand[g].on \notin xs
    BY <1>1, <1>2, <1>7 DEF Workplace, Occupied, OneAtWork, WorksOn
  <2>2. \A g \in Handler : hand'[g].where \in Workplace => g # h
    BY <1>6 DEF Workplace
  <2>3. \A g \in Handler : hand'[g].where \in Workplace =>
           /\ hand[g].where \in Workplace /\ hand'[g].on = hand[g].on
           /\ hand'[g].where = hand[g].where \/ (hand[g].where = "pinning" /\ hand'[g].where = "sending")
    BY <2>2, <1>6
  <2>4. \A g \in Handler : hand[g].where \in Workplace /\ hand[g].on \notin xs => hand'[g].where \in Workplace
    BY <2>1, <1>6
  <2> QED  BY <1>1, <1>8, <2>3, <2>4, WorkGoesOn
<1>13. SessionsFit'
  BY <1>1, <1>8, NoMoreSessions
<1>14. BodiesFit'
  BY <1>1, <1>2, <1>9 DEF BodiesFit
<1> QED  BY <1>10, <1>11, <1>12, <1>13, <1>14 DEF IngestionInv

\* Transfers, and requests that come to nothing.
LEMMA TransfersGoOn ==
  ASSUME IngestionInv, NEW h \in Handler,
         Reject(h) \/ PeerGoes(h) \/ WatcherAborts(h) \/ Offer(h) \/ OfferApplied(h) \/ Put(h) \/ Received(h)
  PROVE  IngestionInv'
<1>1. IngestionForm /\ Occupied /\ AimIsNamed /\ SessionsFit /\ BodiesFit
  BY DEF IngestionInv
<1>2. sess' = sess /\ revision' = revision /\ direction' = direction
  BY DEF Reject, PeerGoes, WatcherAborts, Offer, OfferApplied, Put, Received, OnlyHandlers, OnlyTransfers
<1>3. /\ hand' \in [Handler -> Request] /\ AimIsNamed'
      /\ \A g \in Handler : hand'[g].where \in Workplace \/ hand[g].where \in Workplace =>
           hand'[g].where = hand[g].where /\ hand'[g].on = hand[g].on
  <2>1. CASE PeerGoes(h) \/ WatcherAborts(h)
    <3>1. hand' = [hand EXCEPT ![h].cut = TRUE]
      BY <2>1 DEF PeerGoes, WatcherAborts
    <3>2. /\ hand' \in [Handler -> Request]
          /\ \A g \in Handler : hand'[g].where = hand[g].where /\ hand'[g].on = hand[g].on /\ hand'[g].op = hand[g].op
      BY <1>1, <3>1 DEF IngestionForm, Request
    <3> QED  BY <1>1, <3>2 DEF AimIsNamed
  <2>2. CASE Answers(h) /\ hand[h].where \notin Workplace
    <3>1. /\ hand' \in [Handler -> Request] /\ AimIsNamed' /\ hand'[h].where = "idle"
          /\ \A g \in Handler : g # h => hand'[g] = hand[g]
      BY <1>1, <2>2, AnswersIs
    <3> QED  BY <2>2, <3>1 DEF Workplace
  <2>3. ASSUME NEW w \in {"offering", "receiving"}, Goes(h, w), hand[h].where \notin Workplace PROVE <1>3
    <3>1. w \in Places \ {"reading"}
      BY DEF Places
    <3>2. /\ hand' \in [Handler -> Request] /\ AimIsNamed' /\ hand'[h].where = w
          /\ \A g \in Handler : g # h => hand'[g] = hand[g]
      BY <1>1, <2>3, <3>1, GoesIs
    <3> QED  BY <2>3, <3>2 DEF Workplace
  <2>4. CASE Reject(h) \/ Received(h) \/ OfferApplied(h)
    <3>1. Answers(h) /\ hand[h].where \notin Workplace
      BY <2>4 DEF Reject, Received, OfferApplied, Now, Workplace
    <3> QED  BY <2>2, <3>1
  <2>5. CASE Offer(h)
    <3>1. Goes(h, "offering") /\ hand[h].where \notin Workplace
      BY <2>5 DEF Offer, Is, Now, Workplace
    <3> QED  BY <2>3, <3>1
  <2>6. CASE Put(h)
    <3>1. (Goes(h, "receiving") \/ Answers(h)) /\ hand[h].where \notin Workplace
      BY <2>6 DEF Put, Is, Now, Workplace
    <3> QED  BY <2>2, <2>3, <3>1
  <2> QED  BY <2>1, <2>4, <2>5, <2>6
<1>4. trans' \in [Transfer -> TransferRecord] /\ uses' \in [Transfer -> Nat] /\ BodiesFit'
  <2>1. CASE trans' = trans /\ uses' = uses
    BY <1>1, <2>1 DEF IngestionForm, BodiesFit
  <2>2. CASE OfferApplied(h)
    <3>1. uses' = uses
      BY <2>2 DEF OfferApplied
    <3>3. \/ trans' = trans
          \/ \E t \in Transfer : /\ trans[t].kept = "no"
                                 /\ trans' = [trans EXCEPT ![t] = [kept |-> "yes", rev |-> hand[h].rev, expired |-> FALSE]]
      BY <2>2 DEF OfferApplied
    <3>4. CASE trans' = trans
      BY <2>1, <3>1, <3>4
    <3>5. CASE trans' # trans
      <4>1. PICK t \in Transfer : /\ trans[t].kept = "no"
                                 /\ trans' = [trans EXCEPT ![t] = [kept |-> "yes", rev |-> hand[h].rev, expired |-> FALSE]]
        BY <3>3, <3>5
      <4>2. [kept |-> "yes", rev |-> hand[h].rev, expired |-> FALSE] \in TransferRecord
        BY <1>1 DEF IngestionForm, Request, TransferRecord
      <4>3. trans' \in [Transfer -> TransferRecord] /\ \A x \in Transfer : x # t => trans'[x] = trans[x]
        BY <1>1, <4>1, <4>2 DEF IngestionForm
      <4> QED  BY <1>1, <3>1, <4>1, <4>3 DEF IngestionForm, BodiesFit
    <3> QED  BY <3>4, <3>5
  <2>3. CASE Put(h)
    <3>1. CASE trans' = trans /\ uses' = uses
      BY <2>1, <3>1
    <3>2. CASE trans[hand[h].on].kept = "yes" /\ trans' = Claimed(hand[h].on)
      <4> DEFINE t == hand[h].on
      <4>1. t \in Transfer /\ uses[t] = 0
        BY <1>1, <2>3, <3>2 DEF Put, Is, Now, AimIsNamed, BodiesFit
      <4>2. /\ trans' \in [Transfer -> TransferRecord] /\ trans'[t].kept = "gone"
            /\ \A x \in Transfer : x # t => trans'[x] = trans[x]
        BY <1>1, <3>2, <4>1, DropTransIs DEF Claimed
      <4>3. uses' = [uses EXCEPT ![t] = @ + 1] \/ uses' = uses
        BY <2>3 DEF Put
      <4>4. uses' \in [Transfer -> Nat] /\ uses'[t] <= 1 /\ \A x \in Transfer : x # t => uses'[x] = uses[x]
        BY <1>1, <4>1, <4>3 DEF IngestionForm
      <4> QED  BY <1>1, <4>1, <4>2, <4>4 DEF BodiesFit
    <3> QED  BY <2>3, <3>1, <3>2 DEF Put
  <2>4. CASE Reject(h) \/ PeerGoes(h) \/ WatcherAborts(h) \/ Offer(h) \/ Received(h)
    BY <2>1, <2>4 DEF Reject, PeerGoes, WatcherAborts, Offer, Received, OnlyHandlers
  <2> QED  BY <2>2, <2>3, <2>4
<1>5. Occupied'
  BY <1>1, <1>2, <1>3, NothingTouched
<1>6. IngestionForm'
  BY <1>1, <1>2, <1>3, <1>4 DEF IngestionForm
<1>7. SessionsFit'
  BY <1>1, <1>2, NoMoreSessions DEF IngestionForm
<1> QED  BY <1>3, <1>4, <1>5, <1>6, <1>7 DEF IngestionInv

\* What is the same after every step that concerns one session only.
LEMMA SessionStep ==
  ASSUME IngestionInv, sess' \in [Session -> SessionRecord], hand' \in [Handler -> Request], AimIsNamed',
         Occupied', SessionsFit', OnlySessions
  PROVE  IngestionInv'
BY DEF IngestionInv, IngestionForm, BodiesFit, OnlySessions

\* A handler takes up a session, or refuses to.
LEMMA HandlerBegins ==
  ASSUME IngestionInv, NEW h \in Handler, TakePage(h) \/ Activate(h) \/ Get(h)
  PROVE  IngestionInv'
<1>1. IngestionForm /\ Occupied /\ AimIsNamed /\ SessionsFit
  BY DEF IngestionInv
<1> DEFINE s == hand[h].on
<1>2. OnlySessions /\ hand[h].where = "reading" /\ s \in Session
  BY <1>1 DEF TakePage, Activate, Get, Is, Now, AimIsNamed
<1>3. CASE Answers(h) /\ sess' = sess
  <2>1. /\ hand' \in [Handler -> Request] /\ AimIsNamed' /\ hand'[h].where = "idle"
        /\ \A g \in Handler : g # h => hand'[g] = hand[g]
    BY <1>1, <1>3, AnswersIs
  <2>2. \A g \in Handler : hand'[g].where \in Workplace \/ hand[g].where \in Workplace =>
           hand'[g].where = hand[g].where /\ hand'[g].on = hand[g].on
    BY <1>2, <2>1 DEF Workplace
  <2>3. Occupied'
    BY <1>1, <1>3, <2>2, NothingTouched
  <2>4. SessionsFit'
    BY <1>1, <1>3, NoMoreSessions DEF IngestionForm
  <2>5. sess' \in [Session -> SessionRecord]
    BY <1>1, <1>3 DEF IngestionForm
  <2> QED  BY <1>2, <2>1, <2>3, <2>4, <2>5, SessionStep
<1>4. ASSUME NEW w \in {"applying", "activating", "pinning"}, Goes(h, w), Usable(h),
             sess' = [sess EXCEPT ![s].busy = TRUE],
             w = "pinning" => sess[s].active, w = "activating" => sess[s].ready, w = "applying" => ~sess[s].ready
      PROVE  IngestionInv'
  <2>1. sess[s].kept = "yes" /\ ~sess[s].busy
    BY <1>4 DEF Usable
  <2>2. w \in Places \ {"reading"} /\ w \in Workplace
    BY DEF Places, Workplace
  <2>3. /\ hand' \in [Handler -> Request] /\ AimIsNamed' /\ hand'[h].where = w /\ hand'[h].on = s
        /\ \A g \in Handler : g # h => hand'[g] = hand[g]
    BY <1>1, <1>4, <2>2, GoesIs
  <2>4. /\ sess' \in [Session -> SessionRecord] /\ \A x \in Session : x # s => sess'[x] = sess[x]
        /\ sess'[s] = [sess[s] EXCEPT !.busy = TRUE]
    BY <1>1, <1>2, <1>4 DEF IngestionForm, SessionRecord
  <2>5. sess[s] \in SessionRecord
    BY <1>1, <1>2 DEF IngestionForm
  <2>6. /\ sess'[s].kept = "yes" /\ sess'[s].busy /\ (sess'[s].active <=> sess[s].active)
        /\ (sess'[s].ready <=> sess[s].ready) /\ sess'[s].pages = sess[s].pages
    BY <2>1, <2>4, <2>5 DEF SessionRecord
  <2>7. \A g \in Handler : ~WorksOn(g, s)
    BY <1>1, <1>2, <2>1 DEF Occupied, OneAtWork
  <2>8. (sess'[s].active => sess'[s].ready) /\ (sess'[s].ready => sess'[s].pages = Pages)
    BY <1>1, <1>2, <2>1, <2>6 DEF Occupied, Served
  <2> HIDE DEF s
  <2>9. Occupied'
    BY <1>1, <1>2, <1>4, <2>2, <2>3, <2>4, <2>6, <2>7, <2>8, WorkBegins
  <2>10. SessionsFit'
    BY <1>1, <2>1, <2>4, NoMoreSessions
  <2> QED  BY <1>2, <2>3, <2>4, <2>9, <2>10, SessionStep
<1>5. CASE TakePage(h)
  BY <1>3, <1>4, <1>5 DEF TakePage
<1>6. CASE Activate(h)
  BY <1>3, <1>4, <1>6 DEF Activate
<1>7. CASE Get(h)
  BY <1>3, <1>4, <1>7 DEF Get, MayGet
<1> QED  BY <1>5, <1>6, <1>7

\* A handler ends its work; the session that is still kept is as it leaves it.
LEMMA HandlerLeaves ==
  ASSUME IngestionInv, NEW h \in Handler, hand[h].where \in Workplace, Answers(h), OnlySessions,
         NEW session \in SessionRecord, sess' = Writes(hand[h].on, session),
         sess[hand[h].on].kept = "yes" =>
           /\ session.kept = "yes" /\ ~session.busy /\ (session.active => session.ready)
           /\ (session.ready => session.pages = Pages)
  PROVE  IngestionInv'
<1>1. IngestionForm /\ Occupied /\ AimIsNamed /\ SessionsFit
  BY DEF IngestionInv
<1> DEFINE s == hand[h].on
<1>2. s \in Session /\ sess[s].kept # "no" /\ WorksOn(h, s)
  BY <1>1 DEF Occupied, WorkIsKept, WorksOn
<1>3. /\ hand' \in [Handler -> Request] /\ AimIsNamed' /\ hand'[h].where = "idle"
      /\ \A g \in Handler : g # h => hand'[g] = hand[g]
  BY <1>1, AnswersIs
<1>4. /\ sess' \in [Session -> SessionRecord] /\ \A x \in Session : x # s => sess'[x] = sess[x]
      /\ (sess[s].kept = "gone" => sess'[s] = sess[s]) /\ (sess[s].kept # "gone" => sess'[s] = session)
  BY <1>1, <1>2, WritesIs
<1>5. sess[s].kept \in {"no", "yes", "gone"}
  BY <1>1, <1>2 DEF IngestionForm, SessionRecord
<1> HIDE DEF s
<1>6. /\ sess[s].kept # "yes" => sess'[s] = sess[s]
      /\ sess[s].kept = "yes" => sess'[s] = session
  BY <1>2, <1>4, <1>5
<1>7. sess[s].kept = "yes" => /\ sess'[s].kept = "yes" /\ ~sess'[s].busy
                              /\ (sess'[s].active => sess'[s].ready) /\ (sess'[s].ready => sess'[s].pages = Pages)
  BY <1>6 DEF s
<1>8. hand'[h].where \notin Workplace
  BY <1>3 DEF Workplace
<1>9. Occupied'
  BY <1>1, <1>2, <1>3, <1>4, <1>6, <1>7, <1>8, WorkIsDone
<1>10. SessionsFit'
  <2>1. \A x \in Session : sess'[x].kept = "yes" => sess[x].kept = "yes"
    BY <1>4, <1>6
  <2> QED  BY <1>1, <1>4, <2>1, NoMoreSessions
<1> QED  BY <1>3, <1>4, <1>9, <1>10, SessionStep

\* A request ends, and its session with it.
LEMMA SessionEnds ==
  ASSUME IngestionInv, NEW h \in Handler, Answers(h), OnlySessions, NEW s \in Session, hand[h].on = s,
         sess' = DropSess({s})
  PROVE  IngestionInv'
<1>1. IngestionForm /\ Occupied /\ AimIsNamed /\ SessionsFit
  BY DEF IngestionInv
<1> DEFINE xs == {s}
<1>2. /\ hand' \in [Handler -> Request] /\ AimIsNamed' /\ hand'[h].where = "idle"
      /\ \A g \in Handler : g # h => hand'[g] = hand[g]
  BY <1>1, AnswersIs
<1>3. h \in Handler /\ hand[h].on \in xs
  OBVIOUS
<1> HIDE DEF xs
<1>4. /\ sess' \in [Session -> SessionRecord] /\ \A x \in Session : x \notin xs => sess'[x] = sess[x]
      /\ \A x \in Session : x \in xs => /\ sess'[x].kept = "gone" /\ sess'[x].pages = sess[x].pages
                                        /\ sess'[x].active = sess[x].active
  BY <1>1, DropSessIs DEF xs
<1>5. \A g \in Handler : hand'[g].where \in Workplace =>
         /\ hand[g].where \in Workplace /\ hand'[g].on = hand[g].on
         /\ hand'[g].where = hand[g].where \/ (hand[g].where = "pinning" /\ hand'[g].where = "sending")
  BY <1>2 DEF Workplace
<1>6. \A g \in Handler : hand[g].where \in Workplace /\ hand[g].on \notin xs => hand'[g].where \in Workplace
  BY <1>2, <1>3
<1>9. \A x \in Session \ xs : /\ sess'[x].kept = sess[x].kept /\ (sess'[x].busy <=> sess[x].busy)
                              /\ (sess'[x].ready <=> sess[x].ready) /\ (sess'[x].active <=> sess[x].active)
                              /\ sess'[x].pages = sess[x].pages
  BY <1>4
<1>10. \A x \in Session : x \in xs => /\ sess'[x].kept = "gone" /\ sess'[x].pages = sess[x].pages
                                     /\ (sess'[x].active <=> sess[x].active)
  BY <1>4
<1>7. Occupied'
  BY <1>1, <1>5, <1>6, <1>9, <1>10, WorkGoesOn
<1>8. SessionsFit'
  BY <1>1, <1>4, NoMoreSessions
<1> QED  BY <1>2, <1>4, <1>7, <1>8, SessionStep

LEMMA HandlerEnds ==
  ASSUME IngestionInv, NEW h \in Handler,
         InventoryRead(h) \/ PageApplied(h) \/ Activated(h) \/ Sent(h) \/ (Pinned(h) /\ Answers(h))
  PROVE  IngestionInv'
<1>1. IngestionForm /\ Occupied /\ AimIsNamed /\ SessionsFit
  BY DEF IngestionInv
<1> DEFINE s == hand[h].on
<1>2. hand[h].where \in Workplace /\ Answers(h) /\ OnlySessions
  BY DEF InventoryRead, PageApplied, Activated, Sent, Pinned, Now, Workplace
<1>3. s \in Session /\ sess[s] \in SessionRecord
  BY <1>1, <1>2 DEF Occupied, WorkIsKept, IngestionForm
<1>4. sess[s].kept = "yes" => (sess[s].active => sess[s].ready) /\ (sess[s].ready => sess[s].pages = Pages)
  BY <1>1, <1>3 DEF Occupied, Served
<1>5. CASE sess' = DropSess({s})
  BY <1>2, <1>3, <1>5, SessionEnds
<1>6. CASE sess' = Finished(s)
  <2> DEFINE session == [sess[s] EXCEPT !.busy = FALSE]
  <2>1. /\ session \in SessionRecord /\ session.kept = sess[s].kept /\ ~session.busy
        /\ (session.active <=> sess[s].active) /\ (session.ready <=> sess[s].ready) /\ session.pages = sess[s].pages
    BY <1>3 DEF SessionRecord
  <2>2. sess' = Writes(s, session)
    BY <1>6 DEF Finished
  <2> HIDE DEF session
  <2> QED  BY <1>2, <1>4, <2>1, <2>2, HandlerLeaves
<1>7. CASE InventoryRead(h) /\ sess' = Writes(s, [sess[s] EXCEPT !.kept = "yes", !.busy = FALSE])
  <2> DEFINE session == [sess[s] EXCEPT !.kept = "yes", !.busy = FALSE]
  <2>1. /\ session \in SessionRecord /\ session.kept = "yes" /\ ~session.busy
        /\ (session.active <=> sess[s].active) /\ (session.ready <=> sess[s].ready) /\ session.pages = sess[s].pages
    BY <1>3 DEF SessionRecord
  <2>2. sess' = Writes(s, session)
    BY <1>7
  <2> HIDE DEF session
  <2> QED  BY <1>2, <1>4, <2>1, <2>2, HandlerLeaves
<1>8. CASE PageApplied(h) /\ sess' = NextPage(s)
  <2> DEFINE session == [sess[s] EXCEPT !.pages = @ + 1, !.ready = (sess[s].pages + 1 = Pages), !.busy = FALSE]
  <2>1. /\ session \in SessionRecord /\ session.kept = sess[s].kept /\ ~session.busy
        /\ (session.active <=> sess[s].active) /\ (session.ready => session.pages = Pages)
    <3>1. \A n \in Nat, b \in BOOLEAN :
            LET x == [sess[s] EXCEPT !.pages = n, !.ready = b, !.busy = FALSE] IN
              /\ x \in SessionRecord /\ x.kept = sess[s].kept /\ ~x.busy
              /\ (x.active <=> sess[s].active) /\ (x.ready <=> b) /\ x.pages = n
      BY <1>3 DEF SessionRecord
    <3>2. sess[s].pages + 1 \in Nat /\ (sess[s].pages + 1 = Pages) \in BOOLEAN
      BY <1>3 DEF SessionRecord
    <3>3. session = [sess[s] EXCEPT !.pages = sess[s].pages + 1, !.ready = (sess[s].pages + 1 = Pages), !.busy = FALSE]
      OBVIOUS
    <3> QED  BY <3>1, <3>2, <3>3
  <2>2. sess[s].kept = "yes" => ~sess[s].active
    BY <1>1, <1>3, <1>4, <1>8 DEF PageApplied, Now, Occupied, Served
  <2>3. sess' = Writes(s, session)
    BY <1>8 DEF NextPage
  <2> HIDE DEF session
  <2> QED  BY <1>2, <2>1, <2>2, <2>3, HandlerLeaves
<1>9. CASE Activated(h) /\ sess' = Writes(s, [sess[s] EXCEPT !.busy = FALSE, !.active = TRUE])
  <2> DEFINE session == [sess[s] EXCEPT !.busy = FALSE, !.active = TRUE]
  <2>1. /\ session \in SessionRecord /\ session.kept = sess[s].kept /\ ~session.busy
        /\ (session.ready <=> sess[s].ready) /\ session.pages = sess[s].pages
    BY <1>3 DEF SessionRecord
  <2>2. sess[s].kept = "yes" => sess[s].ready
    BY <1>1, <1>3, <1>9 DEF Activated, Now, Occupied, Served
  <2>3. sess' = Writes(s, session)
    BY <1>9
  <2> HIDE DEF session
  <2> QED  BY <1>2, <1>4, <2>1, <2>2, <2>3, HandlerLeaves
<1>10. CASE InventoryRead(h)
  BY <1>5, <1>7, <1>10 DEF InventoryRead
<1>11. CASE PageApplied(h)
  BY <1>6, <1>8, <1>11 DEF PageApplied
<1>12. CASE Activated(h)
  BY <1>6, <1>9, <1>12 DEF Activated
<1>13. CASE Sent(h)
  BY <1>5, <1>6, <1>13 DEF Sent, AfterGet
<1>14. CASE Pinned(h) /\ Answers(h)
  <2>1. sess' = DropSess({s}) \/ Goes(h, "sending")
    BY <1>14 DEF Pinned, AfterGet
  <2>2. ~Goes(h, "sending")
    <3>1. hand'[h].where = "idle"
      BY <1>1, <1>14, AnswersIs
    <3>2. "sending" \in Places \ {"reading"}
      BY DEF Places, Workplace
    <3>3. Goes(h, "sending") => hand'[h].where = "sending"
      BY <1>1, <3>2, GoesIs
    <3> QED  BY <3>1, <3>3
  <2> QED  BY <1>5, <2>1, <2>2
<1> QED  BY <1>10, <1>11, <1>12, <1>13, <1>14

LEMMA BodyLeaves ==
  ASSUME IngestionInv, NEW h \in Handler, Pinned(h), Goes(h, "sending"), sess' = sess
  PROVE  IngestionInv'
<1>1. IngestionForm /\ Occupied /\ AimIsNamed /\ SessionsFit
  BY DEF IngestionInv
<1>2. hand[h].where = "pinning" /\ OnlySessions
  BY DEF Pinned, Now
<1>3. "sending" \in Places \ {"reading"} /\ "sending" \in Workplace /\ "pinning" \in Workplace
  BY DEF Places, Workplace
<1>4. /\ hand' \in [Handler -> Request] /\ AimIsNamed' /\ hand'[h].where = "sending" /\ hand'[h].on = hand[h].on
      /\ \A g \in Handler : g # h => hand'[g] = hand[g]
  BY <1>1, <1>3, GoesIs
<1> DEFINE xs == {}
<1>5. /\ \A s \in Session : s \in xs => /\ sess'[s].kept = "gone" /\ sess'[s].pages = sess[s].pages
                                        /\ (sess'[s].active <=> sess[s].active)
      /\ \A h1 \in Handler : hand[h1].where \in Workplace /\ hand[h1].on \notin xs => hand'[h1].where \in Workplace
  BY <1>3, <1>4
<1>6. \A g \in Handler : hand'[g].where \in Workplace =>
         /\ hand[g].where \in Workplace /\ hand'[g].on = hand[g].on
         /\ hand'[g].where = hand[g].where \/ (hand[g].where = "pinning" /\ hand'[g].where = "sending")
  BY <1>2, <1>3, <1>4
<1> HIDE DEF xs
<1>7. Occupied'
  BY <1>1, <1>5, <1>6, WorkGoesOn
<1>8. SessionsFit' /\ sess' \in [Session -> SessionRecord]
  BY <1>1, NoMoreSessions DEF IngestionForm
<1> QED  BY <1>2, <1>4, <1>7, <1>8, SessionStep

\* An identity request: a session, or none.
LEMMA SessionIsCreated ==
  ASSUME IngestionInv, NEW h \in Handler, Identity(h)
  PROVE  IngestionInv'
<1>1. IngestionForm /\ Occupied /\ AimIsNamed /\ SessionsFit
  BY DEF IngestionInv
<1>2. OnlySessions /\ hand[h].where = "reading" /\ hand[h].where \notin Workplace
  BY DEF Identity, Is, Now, Workplace
<1>3. CASE Answers(h) /\ sess' = sess
  <2>1. /\ hand' \in [Handler -> Request] /\ AimIsNamed' /\ hand'[h].where = "idle"
        /\ \A g \in Handler : g # h => hand'[g] = hand[g]
    BY <1>1, <1>3, AnswersIs
  <2>2. \A g \in Handler : hand'[g].where \in Workplace \/ hand[g].where \in Workplace =>
           hand'[g].where = hand[g].where /\ hand'[g].on = hand[g].on
    BY <1>2, <2>1 DEF Workplace
  <2>3. Occupied'
    BY <1>1, <1>3, <2>2, NothingTouched
  <2>4. SessionsFit' /\ sess' \in [Session -> SessionRecord]
    BY <1>1, <1>3, NoMoreSessions DEF IngestionForm
  <2> QED  BY <1>2, <2>1, <2>3, <2>4, SessionStep
<1>4. CASE ~(Cardinality(Kept(sess)) >= MaxSessions)
  <2> DEFINE free == {s \in Session : sess[s].kept = "no" /\ \A g \in Handler : hand[g].on # s}
             s == CHOOSE s \in free : TRUE
  <2>1. /\ free # {} /\ sess' = Reserved(s, hand[h].rev)
        /\ IF direction = "inbound" THEN Answers(h)
           ELSE hand' = [hand EXCEPT ![h].where = "inventory", ![h].on = s]
    BY <1>4 DEF Identity
  <2>2. s \in free
    BY <2>1
  <2>3. s \in Session /\ sess[s].kept = "no" /\ \A g \in Handler : hand[g].on # s
    BY <2>2
  <2> HIDE DEF free, s
  <2>4. \A g \in Handler : ~WorksOn(g, s)
    BY <2>3 DEF WorksOn
  <2> DEFINE new == [NewSess EXCEPT !.kept = "yes", !.rev = hand[h].rev, !.busy = (direction = "outbound")]
  <2>5. /\ new \in SessionRecord /\ new.kept = "yes" /\ (new.busy <=> direction = "outbound")
        /\ ~new.ready /\ ~new.active
    <3>1. \A r \in Nat, b \in BOOLEAN :
            LET x == [NewSess EXCEPT !.kept = "yes", !.rev = r, !.busy = b] IN
              /\ x \in SessionRecord /\ x.kept = "yes" /\ (x.busy <=> b) /\ ~x.ready /\ ~x.active
      BY DEF NewSess, SessionRecord
    <3>2. hand[h].rev \in Nat /\ (direction = "outbound") \in BOOLEAN
      BY <1>1 DEF IngestionForm, Request
    <3>3. new = [NewSess EXCEPT !.kept = "yes", !.rev = hand[h].rev, !.busy = (direction = "outbound")]
      OBVIOUS
    <3> QED  BY <3>1, <3>2, <3>3
  <2>6. sess' = [sess EXCEPT ![s] = new]
    BY <2>1 DEF Reserved
  <2> HIDE DEF new
  <2>7. /\ sess' \in [Session -> SessionRecord] /\ sess'[s] = new /\ \A x \in Session : x # s => sess'[x] = sess[x]
    BY <1>1, <2>3, <2>5, <2>6 DEF IngestionForm
  <2>8. SessionsFit'
    <3>1. Cardinality(Kept(sess)) < MaxSessions
      <4>1. Cardinality(Kept(sess)) \in Nat /\ MaxSessions \in Nat
        BY <1>1, FS_CardinalityType, IngestionSessionsAssumption DEF SessionsFit
      <4> QED  BY <1>4, <4>1
    <3> QED  BY <1>1, <2>3, <2>7, <3>1, OneMoreSession
  <2>9. CASE Answers(h) /\ direction = "inbound"
    <3>1. /\ hand' \in [Handler -> Request] /\ AimIsNamed' /\ hand'[h].where = "idle"
          /\ \A g \in Handler : g # h => hand'[g] = hand[g]
      BY <1>1, <2>9, AnswersIs
    <3>2. hand'[h].where \notin Workplace
      BY <3>1 DEF Workplace
    <3>3. /\ sess'[s].kept = "yes" /\ ~sess'[s].busy /\ ~sess'[s].ready /\ ~sess'[s].active
      BY <2>5, <2>7, <2>9
    <3>4. Occupied'
      BY <1>1, <1>2, <2>3, <2>4, <2>7, <3>1, <3>2, <3>3, RestingSession
    <3> QED  BY <1>2, <2>7, <2>8, <3>1, <3>4, SessionStep
  <2>10. CASE direction # "inbound"
    <3>1. hand' = [hand EXCEPT ![h] = [hand[h] EXCEPT !.where = "inventory", !.on = s]]
      BY <1>1, <2>1, <2>10 DEF IngestionForm
    <3>2. [hand[h] EXCEPT !.where = "inventory", !.on = s] \in Request
          /\ [hand[h] EXCEPT !.where = "inventory", !.on = s].where = "inventory"
          /\ [hand[h] EXCEPT !.where = "inventory", !.on = s].on = s
      BY <1>1, <2>3 DEF IngestionForm, Request, Places, Workplace
    <3>3. /\ hand' \in [Handler -> Request] /\ hand'[h].where = "inventory" /\ hand'[h].on = s
          /\ \A g \in Handler : g # h => hand'[g] = hand[g]
      BY <1>1, <3>1, <3>2 DEF IngestionForm
    <3>4. AimIsNamed'
      BY <1>1, <3>3 DEF AimIsNamed
    <3>5. direction = "outbound"
      BY <1>1, <2>10 DEF IngestionForm
    <3>6. sess'[s].kept = "yes" /\ sess'[s].busy /\ ~sess'[s].ready /\ ~sess'[s].active
      BY <2>5, <2>7, <3>5
    <3>7. hand'[h].where \in Workplace
      BY <3>3 DEF Workplace
    <3>8. Occupied'
      BY <1>1, <1>2, <2>3, <2>4, <2>7, <3>3, <3>6, <3>7, WorkBegins
    <3> QED  BY <1>2, <2>7, <2>8, <3>3, <3>4, <3>8, SessionStep
  <2> QED  BY <2>1, <2>9, <2>10
<1> QED  BY <1>3, <1>4 DEF Identity

\* A page is served between two requests.
LEMMA PageIsServed ==
  ASSUME IngestionInv, NEW h \in Handler, ServePage(h)
  PROVE  IngestionInv'
<1>1. IngestionForm /\ Occupied /\ AimIsNamed /\ SessionsFit
  BY DEF IngestionInv
<1> DEFINE s == hand[h].on
<1>2. OnlySessions /\ hand[h].where \notin Workplace /\ s \in Session /\ sess[s] \in SessionRecord /\ Answers(h)
  BY <1>1 DEF ServePage, Is, Now, AimIsNamed, Workplace, IngestionForm
<1>3. /\ hand' \in [Handler -> Request] /\ AimIsNamed' /\ hand'[h].where = "idle" /\ hand'[h].where \notin Workplace
      /\ \A g \in Handler : g # h => hand'[g] = hand[g]
  BY <1>1, <1>2, AnswersIs DEF Workplace
<1>4. CASE sess' = sess
  <2>1. Occupied'
    BY <1>1, <1>2, <1>3, <1>4, NothingTouched
  <2>2. SessionsFit' /\ sess' \in [Session -> SessionRecord]
    BY <1>1, <1>4, NoMoreSessions DEF IngestionForm
  <2> QED  BY <1>2, <1>3, <2>1, <2>2, SessionStep
<1>5. CASE Usable(h) /\ ~sess[s].ready /\ sess' = NextPage(s)
  <2> DEFINE session == [sess[s] EXCEPT !.pages = @ + 1, !.ready = (sess[s].pages + 1 = Pages), !.busy = FALSE]
  <2>1. /\ session \in SessionRecord /\ session.kept = sess[s].kept /\ ~session.busy
        /\ (session.active <=> sess[s].active) /\ (session.ready => session.pages = Pages)
    <3>1. \A n \in Nat, b \in BOOLEAN :
            LET x == [sess[s] EXCEPT !.pages = n, !.ready = b, !.busy = FALSE] IN
              /\ x \in SessionRecord /\ x.kept = sess[s].kept /\ ~x.busy
              /\ (x.active <=> sess[s].active) /\ (x.ready <=> b) /\ x.pages = n
      BY <1>2 DEF SessionRecord
    <3>2. sess[s].pages + 1 \in Nat /\ (sess[s].pages + 1 = Pages) \in BOOLEAN
      BY <1>2 DEF SessionRecord
    <3>3. session = [sess[s] EXCEPT !.pages = sess[s].pages + 1, !.ready = (sess[s].pages + 1 = Pages), !.busy = FALSE]
      OBVIOUS
    <3> QED  BY <3>1, <3>2, <3>3
  <2>2. sess[s].kept = "yes" /\ ~sess[s].busy
    BY <1>5 DEF Usable
  <2>3. ~sess[s].active /\ \A g \in Handler : ~WorksOn(g, s)
    BY <1>1, <1>2, <1>5, <2>2 DEF Occupied, Served, OneAtWork
  <2>4. sess' = Writes(s, session)
    BY <1>5 DEF NextPage
  <2> HIDE DEF session, s
  <2>5. /\ sess' \in [Session -> SessionRecord] /\ \A x \in Session : x # s => sess'[x] = sess[x]
        /\ sess'[s] = session
    BY <1>1, <1>2, <2>1, <2>2, <2>4, WritesIs
  <2>6. /\ sess'[s].kept = "yes" /\ ~sess'[s].busy /\ ~sess'[s].active
        /\ (sess'[s].ready => sess'[s].pages = Pages)
    BY <2>1, <2>2, <2>3, <2>5
  <2>7. Occupied'
    BY <1>1, <1>2, <1>3, <2>3, <2>5, <2>6, RestingSession
  <2>8. SessionsFit'
    BY <1>1, <2>2, <2>5, NoMoreSessions
  <2> QED  BY <1>2, <1>3, <2>5, <2>7, <2>8, SessionStep
<1> QED  BY <1>4, <1>5 DEF ServePage

LEMMA SessionIsCompleted ==
  ASSUME IngestionInv, NEW h \in Handler, CompleteSession(h)
  PROVE  IngestionInv'
<1>1. IngestionForm /\ Occupied /\ AimIsNamed /\ SessionsFit
  BY DEF IngestionInv
<1>2. OnlySessions /\ hand[h].where \notin Workplace /\ hand[h].on \in Session /\ Answers(h)
  BY <1>1 DEF CompleteSession, Is, Now, AimIsNamed, Workplace
<1>3. CASE sess' = DropSess({hand[h].on})
  BY <1>2, <1>3, SessionEnds
<1>4. CASE sess' = sess
  <2>1. /\ hand' \in [Handler -> Request] /\ AimIsNamed' /\ hand'[h].where = "idle" /\ hand'[h].where \notin Workplace
        /\ \A g \in Handler : g # h => hand'[g] = hand[g]
    BY <1>1, <1>2, AnswersIs DEF Workplace
  <2>2. Occupied'
    BY <1>1, <1>2, <1>4, <2>1, NothingTouched
  <2>3. SessionsFit' /\ sess' \in [Session -> SessionRecord]
    BY <1>1, <1>4, NoMoreSessions DEF IngestionForm
  <2> QED  BY <1>2, <2>1, <2>2, <2>3, SessionStep
<1> QED  BY <1>3, <1>4 DEF CompleteSession

\* What happens beside the requests.
LEMMA RouteMoves ==
  ASSUME IngestionInv, ChangeRoute \/ Expiry \/ InvalidateRoute \/ BeginServerClose \/ ServerClosed
  PROVE  IngestionInv'
<1>1. IngestionForm /\ Occupied /\ AimIsNamed /\ SessionsFit /\ BodiesFit
  BY DEF IngestionInv
<1>2. uses' = uses /\ direction' = direction /\ revision' \in Nat
  BY <1>1 DEF ChangeRoute, Expiry, InvalidateRoute, BeginServerClose, ServerClosed, IngestionForm
<1>3. /\ hand' \in [Handler -> Request]
      /\ \A h \in Handler : /\ hand'[h].where = hand[h].where
                            /\ hand[h].where # "idle" => hand'[h].on = hand[h].on /\ hand'[h].op = hand[h].op
  <2>1. CASE BeginServerClose
    <3>1. hand' = [h \in Handler |-> IF Now(h, "idle") THEN Idle ELSE [hand[h] EXCEPT !.cut = TRUE]]
      BY <2>1 DEF BeginServerClose
    <3>2. Idle \in Request /\ Idle.where = "idle"
      BY DEF Idle, Request, Places
    <3>3. \A h \in Handler : /\ [hand[h] EXCEPT !.cut = TRUE] \in Request
                             /\ [hand[h] EXCEPT !.cut = TRUE].where = hand[h].where
                             /\ [hand[h] EXCEPT !.cut = TRUE].on = hand[h].on
                             /\ [hand[h] EXCEPT !.cut = TRUE].op = hand[h].op
      BY <1>1 DEF IngestionForm, Request
    <3> QED  BY <3>1, <3>2, <3>3 DEF Now
  <2>2. CASE hand' = hand
    BY <1>1, <2>2 DEF IngestionForm
  <2> QED  BY <2>1, <2>2 DEF ChangeRoute, Expiry, InvalidateRoute, ServerClosed
<1>4. AimIsNamed'
  BY <1>1, <1>3 DEF AimIsNamed
<1> DEFINE Drops(xs) ==
             /\ \A s \in Session \ xs : /\ sess'[s].kept = sess[s].kept /\ (sess'[s].busy <=> sess[s].busy)
                                       /\ (sess'[s].ready <=> sess[s].ready)
                                       /\ (sess'[s].active <=> sess[s].active)
                                       /\ sess'[s].pages = sess[s].pages
             /\ \A s \in Session : s \in xs => /\ sess'[s].kept = "gone" /\ sess'[s].pages = sess[s].pages
                                               /\ (sess'[s].active <=> sess[s].active)
<1>5. sess' \in [Session -> SessionRecord] /\ \E xs : Drops(xs)
  <2>1. CASE sess' = sess
    <3>1. Drops({})
      BY <2>1
    <3> HIDE DEF Drops
    <3> QED  BY <1>1, <2>1, <3>1 DEF IngestionForm
  <2>2. CASE sess' = DropSess(Kept(sess))
    <3>1. Drops(Kept(sess)) /\ sess' \in [Session -> SessionRecord]
      BY <1>1, <2>2, DropSessIs
    <3> HIDE DEF Drops
    <3> QED  BY <3>1
  <2>3. CASE \E z \in Session : sess' = [sess EXCEPT ![z].expired = TRUE]
    <3>1. PICK z \in Session : sess' = [sess EXCEPT ![z].expired = TRUE]
      BY <2>3
    <3>2. /\ [sess[z] EXCEPT !.expired = TRUE] \in SessionRecord
          /\ [sess[z] EXCEPT !.expired = TRUE].kept = sess[z].kept
          /\ [sess[z] EXCEPT !.expired = TRUE].busy = sess[z].busy
          /\ [sess[z] EXCEPT !.expired = TRUE].ready = sess[z].ready
          /\ [sess[z] EXCEPT !.expired = TRUE].active = sess[z].active
          /\ [sess[z] EXCEPT !.expired = TRUE].pages = sess[z].pages
      BY <1>1 DEF IngestionForm, SessionRecord
    <3>3. sess' \in [Session -> SessionRecord] /\ sess'[z] = [sess[z] EXCEPT !.expired = TRUE]
          /\ \A s \in Session : s # z => sess'[s] = sess[s]
      BY <1>1, <3>1, <3>2 DEF IngestionForm
    <3>4. Drops({})
      BY <3>2, <3>3
    <3> HIDE DEF Drops
    <3> QED  BY <3>3, <3>4
  <2>4. sess' = sess \/ sess' = DropSess(Kept(sess)) \/ \E z \in Session : sess' = [sess EXCEPT ![z].expired = TRUE]
    BY <1>1 DEF ChangeRoute, Expiry, InvalidateRoute, BeginServerClose, ServerClosed, Kept, IngestionForm
  <2> QED  BY <2>1, <2>2, <2>3, <2>4
<1>6. Occupied'
  <2>1. PICK xs : Drops(xs)
    BY <1>5
  <2>2. /\ \A h \in Handler : hand'[h].where \in Workplace =>
             /\ hand[h].where \in Workplace /\ hand'[h].on = hand[h].on
             /\ hand'[h].where = hand[h].where \/ (hand[h].where = "pinning" /\ hand'[h].where = "sending")
        /\ \A h \in Handler : hand[h].where \in Workplace /\ hand[h].on \notin xs => hand'[h].where \in Workplace
    BY <1>3 DEF Workplace
  <2> QED  BY <1>1, <2>1, <2>2, WorkGoesOn
<1>7. SessionsFit'
  <2>1. PICK xs : Drops(xs)
    BY <1>5
  <2>2. \A s \in Session : sess'[s].kept = "yes" => sess[s].kept = "yes"
    BY <2>1
  <2> QED  BY <1>1, <1>5, <2>2, NoMoreSessions
<1>8. trans' \in [Transfer -> TransferRecord] /\ \A t \in Transfer : trans'[t].kept \in {trans[t].kept, "gone"}
  <2>1. CASE trans' = trans
    BY <1>1, <2>1 DEF IngestionForm
  <2>2. CASE trans' = DropTrans(Kept(trans))
    BY <1>1, <2>2, DropTransIs
  <2>3. ASSUME NEW z \in Transfer, trans' = [trans EXCEPT ![z].expired = TRUE]
        PROVE  trans' \in [Transfer -> TransferRecord] /\ \A t \in Transfer : trans'[t].kept = trans[t].kept
    BY <1>1, <2>3 DEF IngestionForm, TransferRecord
  <2>4. \/ trans' = trans \/ trans' = DropTrans(Kept(trans))
        \/ \E z \in Transfer : trans' = [trans EXCEPT ![z].expired = TRUE]
    BY <1>1 DEF ChangeRoute, Expiry, InvalidateRoute, BeginServerClose, ServerClosed, Kept, IngestionForm
  <2> QED  BY <2>1, <2>2, <2>3, <2>4
<1>9. BodiesFit'
  BY <1>1, <1>2, <1>8 DEF BodiesFit
<1>10. IngestionForm'
  BY <1>1, <1>2, <1>3, <1>5, <1>8 DEF IngestionForm
<1> QED  BY <1>4, <1>6, <1>7, <1>9, <1>10 DEF IngestionInv

LEMMA IngestionSound == IngestionSpec => []IngestionInv
<1>1. IngestionInit => IngestionInv
  <2> SUFFICES ASSUME IngestionInit PROVE IngestionInv
    OBVIOUS
  <2>1. Idle \in Request /\ Idle.where = "idle" /\ NewSess \in SessionRecord /\ NewTrans \in TransferRecord
        /\ NewSess.kept = "no" /\ NewTrans.kept = "no" /\ ~NewSess.active
    BY DEF Idle, Request, Places, NewSess, SessionRecord, NewTrans, TransferRecord
  <2>2. IngestionForm
    BY <2>1 DEF IngestionInit, IngestionForm
  <2>3. AimIsNamed /\ Occupied /\ BodiesFit
    BY <2>1 DEF IngestionInit, AimIsNamed, Occupied, WorkIsKept, OneAtWork, Served, BodiesFit, Workplace
  <2>4. Kept(sess) = {}
    BY <2>1 DEF IngestionInit, Kept
  <2>5. SessionsFit
    <3>1. IsFiniteSet({}) /\ Cardinality({}) = 0
      BY FS_EmptySet
    <3>2. MaxSessions \in Nat
      BY IngestionSessionsAssumption
    <3> QED  BY <2>4, <3>1, <3>2 DEF SessionsFit
  <2> QED  BY <2>2, <2>3, <2>5 DEF IngestionInv
<1>2. ASSUME IngestionInv, [IngestionNext]_ingestionVars PROVE IngestionInv'
  <2>1. CASE UNCHANGED ingestionVars
    BY <1>2, <2>1 DEF ingestionVars, IngestionInv, IngestionForm, AimIsNamed, Occupied, WorkIsKept, OneAtWork, Served,
                      SessionsFit, BodiesFit, WorksOn, Kept
  <2>2. ASSUME NEW h \in Handler, Pinned(h) PROVE IngestionInv'
    <3>1. Answers(h) \/ (Goes(h, "sending") /\ sess' = sess)
      BY <2>2 DEF Pinned
    <3> QED  BY <1>2, <2>2, <3>1, HandlerEnds, BodyLeaves
  <2>3. CASE \E h \in Handler : \/ Authenticate(h) \/ Reject(h) \/ PeerGoes(h)
                               \/ WatcherAborts(h) \/ Offer(h) \/ OfferApplied(h) \/ Put(h) \/ Received(h)
    BY <1>2, <2>3, RequestAdmitted, TransfersGoOn
  <2>4. CASE \E h \in Handler : \/ Identity(h) \/ InventoryRead(h) \/ ServePage(h) \/ TakePage(h)
                               \/ PageApplied(h) \/ Activate(h) \/ Activated(h) \/ CompleteSession(h) \/ Get(h)
                               \/ Sent(h)
    BY <1>2, <2>4, SessionIsCreated, HandlerEnds, PageIsServed, HandlerBegins, SessionIsCompleted
  <2>5. CASE ChangeRoute \/ Expiry \/ InvalidateRoute \/ BeginServerClose \/ ServerClosed
    BY <1>2, <2>5, RouteMoves
  <2> QED  BY <1>2, <2>1, <2>2, <2>3, <2>4, <2>5 DEF IngestionNext
<1> QED  BY <1>1, <1>2, PTL DEF IngestionSpec

\* No more sessions than the limit, none busy for nobody and none worked on by
\* two handlers, and one body per transfer, for any number of handlers and ids
\* (sync-http-server.ts).
THEOREM SessionsAccountedAlways == IngestionSpec => []SessionsAccounted
<1>1. ASSUME IngestionInv PROVE SessionsAccounted
  <2>1. Cardinality(Kept(sess)) <= MaxSessions /\ \A t \in Transfer : uses[t] <= 1
    BY <1>1 DEF IngestionInv, SessionsFit, BodiesFit
  <2>2. ASSUME NEW s \in Kept(sess)
        PROVE  LET on == {h \in Handler : hand[h].on = s /\ hand[h].where \in
                           {"inventory", "applying", "activating", "pinning", "sending"}}
               IN sess[s].busy <=> \E h \in on : on = {h}
    <3> DEFINE on == {h \in Handler : WorksOn(h, s)}
    <3>1. s \in Session /\ sess[s].kept = "yes"
      BY <1>1 DEF IngestionInv, IngestionForm, Kept
    <3>2. sess[s].busy <=> \E h \in Handler : WorksOn(h, s)
      BY <1>1, <3>1 DEF IngestionInv, Occupied, OneAtWork
    <3>3. \A g, h \in Handler : WorksOn(g, s) /\ WorksOn(h, s) => g = h
      BY <1>1, <3>1 DEF IngestionInv, Occupied, OneAtWork
    <3>4. sess[s].busy <=> \E h \in on : on = {h}
      BY <3>2, <3>3
    <3>5. on = {h \in Handler : hand[h].on = s /\ hand[h].where \in
                           {"inventory", "applying", "activating", "pinning", "sending"}}
      BY DEF WorksOn, Workplace
    <3> QED  BY <3>4, <3>5
  <2> QED  BY <2>1, <2>2 DEF SessionsAccounted
<1> QED  BY <1>1, IngestionSound, PTL

\* A body is only sent in a session whose whole inventory was served and
\* acknowledged, by a anew that the route still admits.
THEOREM BodyIsEarnedAlways == IngestionSpec => BodyIsEarned
<1>1. ASSUME IngestionInv, [IngestionNext]_ingestionVars
      PROVE  [\A h \in Handler : Now(h, "pinning") /\ hand'[h].where = "sending" =>
                LET s == hand[h].on IN sess[s].pages = Pages /\ sess[s].active /\ hand[h].rev = revision]_ingestionVars
  <2>1. SUFFICES ASSUME IngestionNext, NEW h \in Handler, Now(h, "pinning"), hand'[h].where = "sending"
                 PROVE  sess[hand[h].on].pages = Pages /\ sess[hand[h].on].active /\ hand[h].rev = revision
    BY <1>1
  <2>2. hand[h].on \in Session /\ sess[hand[h].on].active /\ sess[hand[h].on].pages = Pages
    BY <1>1, <2>1 DEF IngestionInv, Occupied, WorkIsKept, Served, Now, Workplace
  <2>3. hand[h].rev = revision
    <3>1. IngestionForm /\ AimIsNamed /\ hand[h].where = "pinning" /\ hand'[h].where # hand[h].where
      BY <1>1, <2>1 DEF IngestionInv, Now
    <3>2. ASSUME NEW g \in Handler, g # h, NEW anew, hand' = [hand EXCEPT ![g] = anew]  PROVE FALSE
      BY <3>1, <3>2 DEF IngestionForm
    <3>3. ASSUME NEW g \in Handler, g # h, NEW w, hand' = [hand EXCEPT ![g].where = w]  PROVE FALSE
      BY <3>1, <3>3 DEF IngestionForm
    <3>4. ~(ChangeRoute \/ Expiry \/ InvalidateRoute \/ BeginServerClose \/ ServerClosed)
      <4>1. ~BeginServerClose
        <5>1. SUFFICES ASSUME BeginServerClose PROVE FALSE
          OBVIOUS
        <5>2. hand'[h] = [hand[h] EXCEPT !.cut = TRUE]
          BY <3>1, <5>1 DEF BeginServerClose, Now
        <5> QED  BY <3>1, <5>2 DEF IngestionForm, Request
      <4> QED  BY <3>1, <4>1 DEF ChangeRoute, Expiry, InvalidateRoute, ServerClosed
    <3>5. ASSUME NEW g \in Handler, PeerGoes(g) \/ WatcherAborts(g) PROVE FALSE
      BY <3>1, <3>5 DEF PeerGoes, WatcherAborts, IngestionForm, Request
    <3>6. ASSUME NEW g \in Handler, Answers(g) PROVE FALSE
      <4>1. hand'[h].where \in {hand[h].where, "idle"}
        BY <3>1, <3>6, AnswersIs
      <4> QED  BY <2>1, <3>1, <4>1
    <3>7. ASSUME NEW g \in Handler, NEW w \in {"applying", "activating", "pinning", "offering", "receiving"}, Goes(g, w)
          PROVE  FALSE
      <4>1. hand'[h].where \in {hand[h].where, w}
        BY <3>1, <3>7, GoesIs DEF Places, Workplace
      <4> QED  BY <2>1, <3>1, <4>1
    <3>8. ASSUME NEW g \in Handler, Identity(g) PROVE FALSE
      <4>1. g # h
        BY <3>1, <3>8 DEF Identity, Is, Now
      <4>2. ASSUME NEW s, hand' = [hand EXCEPT ![g].where = "inventory", ![g].on = s] PROVE FALSE
        BY <3>1, <4>1, <4>2 DEF IngestionForm
      <4>3. Answers(g) \/ \E s : hand' = [hand EXCEPT ![g].where = "inventory", ![g].on = s]
        BY <3>8 DEF Identity
      <4> QED  BY <3>6, <4>2, <4>3
    <3>9. ASSUME NEW g \in Handler, Authenticate(g) PROVE FALSE
      <4>1. g # h
        BY <3>1, <3>9 DEF Authenticate, Now
      <4>2. \E anew : hand' = [hand EXCEPT ![g] = anew]
        BY <3>9 DEF Authenticate
      <4> QED  BY <3>2, <4>1, <4>2
    <3>10. ASSUME NEW g \in Handler, Pinned(g) PROVE <2>3
      <4>1. Goes(g, "sending") /\ Current(g)
        BY <3>6, <3>10 DEF Pinned
      <4>2. g = h
        BY <3>3, <4>1 DEF Goes
      <4> QED  BY <4>1, <4>2 DEF Current
    <3>11. ASSUME NEW g \in Handler, TakePage(g) \/ Activate(g) \/ Get(g) \/ Offer(g) \/ Put(g) PROVE FALSE
      BY <3>6, <3>7, <3>11 DEF TakePage, Activate, Get, Offer, Put
    <3>12. ASSUME NEW g \in Handler,
                  \/ Reject(g) \/ InventoryRead(g) \/ ServePage(g) \/ PageApplied(g) \/ Activated(g)
                  \/ CompleteSession(g) \/ Sent(g) \/ OfferApplied(g) \/ Received(g)
           PROVE  FALSE
      BY <3>6, <3>12 DEF Reject, InventoryRead, ServePage, PageApplied, Activated, CompleteSession, Sent, OfferApplied,
                         Received
    <3> QED  BY <2>1, <3>4, <3>5, <3>8, <3>9, <3>10, <3>11, <3>12 DEF IngestionNext
  <2> QED  BY <2>2, <2>3
<1> QED  BY <1>1, IngestionSound, PTL DEF IngestionSpec, BodyIsEarned
=============================================================================
