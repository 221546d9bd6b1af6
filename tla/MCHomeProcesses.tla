-------------------------- MODULE MCHomeProcesses --------------------------
(***************************************************************************)
(* The components of a home that share nothing the others' properties      *)
(* need, on small sets and side by side: `part` names the one whose        *)
(* behaviours are followed, and the others stand still in a first state.   *)
(* The worker and the viewer are followed twice, once beside a stop and    *)
(* once beside offline maintenance: each holds the same lock throughout.   *)
(***************************************************************************)
EXTENDS WorkerLifecycle, ViewerLifecycle, IngestionSessions, Enrollment,
        HomeIdentity, RemoteMutations, DurableStore, Publication, BootService,
        DocumentRemoval, TLC

CONSTANTS start1, start2, child1, child2, ensure1, viewer1

VARIABLE part

Spawns == start1 :> child1 @@ start2 :> child2
Views  == ensure1 :> viewer1

Parts == {"worker, stop", "worker, maintenance", "viewer, stop", "viewer, maintenance",
          "server", "documents", "identity", "remote", "store", "publication", "boot", "removal"}

Viewing == part \in {"viewer, stop", "viewer, maintenance"}

Init ==
  /\ part \in Parts
  /\ LifecycleInit /\ ViewerInit /\ RemoteInit /\ IdentityInit /\ EnrollInit /\ IngestionInit
  /\ StoreInit /\ PublicationInit /\ BootInit /\ RemovalInit
  /\ ~Viewing => serve = NoOne
  /\ part # "server" => direction = "inbound"
  /\ part # "documents" => odd = {}
  /\ catalog = IF part = "identity" THEN FirstInbox ELSE Unset
  /\ part # "remote" => project = "absent"
  /\ part # "publication" => targeted /\ retries
  /\ part # "boot" => platform = "linux"
  /\ part # "removal" => underLedger

Part(name) == part = name /\ UNCHANGED part

procedures == <<pubVars, bootVars, removalVars>>
services   == <<ingestionVars, enrollVars, idVars, remoteVars, storeVars, procedures>>

OnlyWorker == UNCHANGED <<viewerVars, services>>
OnlyViewer == UNCHANGED <<procVars, services>>
Neither    == UNCHANGED <<procVars, viewerVars>>

WorkerAndStop ==
  /\ Part("worker, stop") /\ LifecycleNext /\ OnlyWorker
  /\ \A k \in Keeper : step'[k] = "idle"

WorkerAndMaintenance ==
  /\ Part("worker, maintenance") /\ LifecycleNext /\ OnlyWorker
  /\ \A q \in Stopper : step'[q] = "idle"

ViewerAndStop ==
  /\ Part("viewer, stop") /\ ViewerNext /\ OnlyViewer
  /\ \A k \in Curator : at'[k] = "idle"

ViewerAndMaintenance ==
  /\ Part("viewer, maintenance") /\ ViewerNext /\ OnlyViewer
  /\ \A q \in Closer : at'[q] = "idle"

Server ==
  /\ Part("server") /\ IngestionNext /\ Neither
  /\ UNCHANGED <<enrollVars, idVars, remoteVars, storeVars, procedures>>

Documents ==
  /\ Part("documents") /\ EnrollNext /\ Neither
  /\ UNCHANGED <<ingestionVars, idVars, remoteVars, storeVars, procedures>>

Identities ==
  /\ Part("identity") /\ IdentityNext /\ Neither
  /\ UNCHANGED <<ingestionVars, enrollVars, remoteVars, storeVars, procedures>>

Site ==
  /\ Part("remote") /\ RemoteNext /\ Neither
  /\ UNCHANGED <<ingestionVars, enrollVars, idVars, storeVars, procedures>>

Files ==
  /\ Part("store") /\ StoreNext /\ Neither
  /\ UNCHANGED <<ingestionVars, enrollVars, idVars, remoteVars, procedures>>

Procedure ==
  /\ \/ Part("publication") /\ PublicationNext /\ UNCHANGED <<bootVars, removalVars>>
     \/ Part("boot") /\ BootNext /\ UNCHANGED <<pubVars, removalVars>>
     \/ Part("removal") /\ RemovalNext /\ UNCHANGED <<pubVars, bootVars>>
  /\ Neither /\ UNCHANGED <<ingestionVars, enrollVars, idVars, remoteVars, storeVars>>

Next ==
  \/ WorkerAndStop \/ WorkerAndMaintenance \/ ViewerAndStop \/ ViewerAndMaintenance
  \/ Server \/ Documents \/ Identities \/ Site \/ Files \/ Procedure
=============================================================================
