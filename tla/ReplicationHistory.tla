------------------------- MODULE ReplicationHistory -------------------------
(***************************************************************************)
(* Why what is held, sent and told anywhere was signed by its owner, for   *)
(* any homes, documents, routes and bounds: the machine of Replication     *)
(* implements the abstract history of OriginHistory, and what its          *)
(* properties say of copies and checkpoints follows.  On top of it: why    *)
(* what a source is told of a destination, delivered or ready, stays true. *)
(*                                                                         *)
(* The owner's counter is not enough: a state outlives, on the wire and in *)
(* other ledgers, the identity that signed it.  The invariant therefore    *)
(* speaks of a truth, the two versions (of the live state and of the       *)
(* tombstone) each document was or will be signed at, and says that every  *)
(* state anywhere is one of those two.                                     *)
(***************************************************************************)
EXTENDS ReplicationProofs

-----------------------------------------------------------------------------
(* The truth, and what is genuine by it. *)

Truth == [Doc -> [live : Nat, dead : Nat]]

TrueState(T, d, s) ==
  \/ s.state = "absent"
  \/ s.state = "live" /\ s.version = T[d].live
  \/ s.state = "deleted" /\ s.version = T[d].dead /\ T[d].live < T[d].dead

\* A copy in state x has been in state y, or passed it over.
Reached(x, y) == x = y \/ y = "absent" \/ x = "deleted"

At(h, d) == ledger[h].rec[d].state

\* Somebody holds that state or a later one.
SignedAt(d, s) == \E g \in Home : Reached(At(g, d), s.state)

Genuine(T, d, s)   == TrueState(T, d, s) /\ SignedAt(d, s)
GenuineCut(T, cut) == \A d \in Doc : Genuine(T, d, cut[d])

GenuineMessage(T, m) ==
  /\ m.kind \in {"offer", "wanted", "body"} => Genuine(T, m.doc, m.signed)
  /\ m.kind \in {"manifest", "ready", "active", "query", "holdings"} => GenuineCut(T, m.cut)
  /\ m.kind = "receipt" => Genuine(T, m.receipt.doc, m.receipt.signed)
  /\ m.kind = "holdings" => \A d \in Doc : Genuine(T, d, m.holding[d].signed)

GenuineFull(T, h, r) ==
  \A d \in Doc : LET s == ledger[h].full[r].cut[d] IN
    TrueState(T, d, s) /\ Reached(At(h, d), s.state)

\* Nobody is ahead of the identity that signs a document.
OwnerLeads ==
  \A g, h \in Home, d \in Doc :
    ledger[h].inbox = Origin[d] => Reached(At(h, d), At(g, d))

Identities == \A g, h \in Home : ledger[g].inbox = ledger[h].inbox => g = h

TrueTo(T) ==
  /\ \A h \in Home, d \in Doc : TrueState(T, d, Fingerprint(ledger[h].rec[d]))
  /\ \A h \in Home, r \in Route : GenuineFull(T, h, r)
  /\ \A m \in wire : GenuineMessage(T, m)
  /\ OwnerLeads /\ Identities

\* What passed a state that had passed another passed that one too.
LEMMA ReachedTransitive ==
  ASSUME NEW x, NEW y, NEW z, Reached(x, y), Reached(y, z) PROVE Reached(x, z)
BY DEF Reached

\* A state somebody holds is genuine, and so is one a checkpoint covers.
LEMMA HeldGenuine ==
  ASSUME NEW T, TrueTo(T), NEW h \in Home, NEW d \in Doc
  PROVE  /\ Genuine(T, d, Fingerprint(ledger[h].rec[d]))
         /\ \A r \in Route : Genuine(T, d, ledger[h].full[r].cut[d])
BY DEF TrueTo, GenuineFull, Genuine, SignedAt, Reached, At, Fingerprint

\* Nothing is known of every document.
LEMMA NothingGenuine ==
  ASSUME NEW T, NEW h \in Home, NEW d \in Doc PROVE Genuine(T, d, NoState)
BY DEF Genuine, TrueState, NoState, SignedAt, Reached

\* The owner of a document has reached whatever was signed of it.
LEMMA OwnerReached ==
  ASSUME OwnerLeads, NEW h \in Home, NEW d \in Doc, ledger[h].inbox = Origin[d],
         NEW s, SignedAt(d, s)
  PROVE  Reached(At(h, d), s.state)
BY ReachedTransitive DEF OwnerLeads, SignedAt

-----------------------------------------------------------------------------
(* Steps.  One home moves, no copy goes back, what was genuine stays true.   *)

Unmoved(h) == \A g \in Home : g # h => ledger'[g] = ledger[g]

Onwards == \A g \in Home, d \in Doc : Reached(At(g, d)', At(g, d))

Carries(T, U) ==
  \A d \in Doc, s \in OriginState : Genuine(T, d, s) => TrueState(U, d, s)

\* A step of home h, after which the truth is U.
TrueStep(T, U, h) ==
  /\ Unmoved(h) /\ Carries(T, U)
  /\ \A d \in Doc : /\ TrueState(U, d, Fingerprint(ledger'[h].rec[d]))
                    /\ Reached(At(h, d)', At(h, d))
  /\ \A r \in Route : ledger'[h].full[r].cut = ledger[h].full[r].cut \/ GenuineFull(U, h, r)'
  /\ \A m \in wire' : m \in wire \/ GenuineMessage(T, m)
  /\ OwnerLeads' /\ Identities'

\* What was signed stays signed: no copy goes back.
LEMMA SignedAtKept ==
  ASSUME Onwards, NEW d \in Doc, NEW s, SignedAt(d, s) PROVE SignedAt(d, s)'
BY ReachedTransitive DEF Onwards, SignedAt

\* A genuine message stays genuine while the truth is carried on.
LEMMA GenuineMessageKept ==
  ASSUME Onwards, NEW T, NEW U, Carries(T, U), NEW m \in Message, GenuineMessage(T, m)
  PROVE  GenuineMessage(U, m)'
<1>1. ASSUME NEW d \in Doc, NEW s \in OriginState, Genuine(T, d, s) PROVE Genuine(U, d, s)'
  BY <1>1, SignedAtKept DEF Genuine, Carries, TrueState
<1>2. ASSUME NEW cut \in Cut, GenuineCut(T, cut) PROVE GenuineCut(U, cut)'
  BY <1>1, <1>2 DEF GenuineCut, Cut
<1>3. m.kind \in {"offer", "wanted", "body"} => Genuine(U, m.doc, m.signed)'
  BY <1>1, MessageKinds DEF GenuineMessage, StateMessage
<1>4. m.kind \in {"manifest", "ready", "active", "query", "holdings"} => GenuineCut(U, m.cut)'
  BY <1>2, MessageKinds DEF GenuineMessage, CutMessage, QueryMessage, HoldingsMessage
<1>5. m.kind = "receipt" => Genuine(U, m.receipt.doc, m.receipt.signed)'
  BY <1>1, MessageKinds DEF GenuineMessage, ReceiptMessage, Receipt
<1>6. m.kind = "holdings" => \A d \in Doc : Genuine(U, d, m.holding[d].signed)'
  BY <1>1, MessageKinds DEF GenuineMessage, HoldingsMessage, Holding
<1>7. QED
  BY <1>3, <1>4, <1>5, <1>6 DEF GenuineMessage

\* What a step of one home must show for the truth to hold after it.
LEMMA TrueStepKeeps ==
  ASSUME NEW T, NEW U, TypeOK, TypeOK', TrueTo(T), NEW h \in Home, TrueStep(T, U, h)
  PROVE  TrueTo(U)'
<1>1. Onwards
  BY DEF TrueStep, Unmoved, Onwards, At, Reached
<1>2. ASSUME NEW g \in Home, NEW d \in Doc PROVE TrueState(U, d, Fingerprint(ledger'[g].rec[d]))
  <2>1. CASE g = h
    BY <2>1 DEF TrueStep
  <2>2. CASE g # h
    <3>1. Fingerprint(ledger[g].rec[d]) \in OriginState
      BY FingerprintType DEF TypeOK, LedgerType
    <3>2. ledger'[g] = ledger[g]
      BY <2>2 DEF TrueStep, Unmoved
    <3>3. QED
      BY <3>1, <3>2, HeldGenuine DEF TrueStep, Carries
  <2>3. QED
    BY <2>1, <2>2
<1>3. ASSUME NEW g \in Home, NEW r \in Route PROVE GenuineFull(U, g, r)'
  <2>1. CASE ledger'[g].full[r].cut = ledger[g].full[r].cut
    <3>1. ASSUME NEW d \in Doc
          PROVE  LET s == ledger[g].full[r].cut[d] IN
                 TrueState(U, d, s) /\ Reached(At(g, d)', s.state)
      <4> DEFINE s == ledger[g].full[r].cut[d]
      <4>1. s \in OriginState
        BY DEF TypeOK, LedgerType, Checkpoint, Cut
      <4>2. TrueState(U, d, s)
        BY <4>1, HeldGenuine DEF TrueStep, Carries
      <4>3. Reached(At(g, d), s.state)
        BY DEF TrueTo, GenuineFull
      <4>4. QED
        BY <1>1, <4>2, <4>3, ReachedTransitive DEF Onwards
    <3>2. QED
      BY <2>1, <3>1 DEF GenuineFull, TrueState
  <2>2. CASE ledger'[g].full[r].cut # ledger[g].full[r].cut
    BY <2>2 DEF TrueStep, Unmoved
  <2>3. QED
    BY <2>1, <2>2
<1>4. ASSUME NEW m \in wire' PROVE GenuineMessage(U, m)'
  <2>1. m \in Message /\ GenuineMessage(T, m)
    BY DEF TypeOK, TrueTo, TrueStep
  <2>2. QED
    BY <1>1, <2>1, GenuineMessageKept DEF TrueStep
<1>5. QED
  BY <1>2, <1>3, <1>4 DEF TrueStep, TrueTo, TrueState

-----------------------------------------------------------------------------
(* The three ways a home moves: it adopts genuine states, signs one, or goes *)
(* on under a fresh identity.                                                *)

Adopting(T, h) ==
  /\ Unmoved(h) /\ ledger'[h].inbox = ledger[h].inbox
  /\ \E S \in Cut : /\ GenuineCut(T, S)
                    /\ \A d \in Doc : Adopts(ledger[h].rec[d], ledger'[h].rec[d], S[d])
  /\ \A r \in Route : ledger'[h].full[r].cut = ledger[h].full[r].cut \/ GenuineFull(T, h, r)'
  /\ \A m \in wire' : m \in wire \/ GenuineMessage(T, m)

Signing(h, d, s) ==
  /\ Unmoved(h) /\ ledger'[h].inbox = ledger[h].inbox /\ ledger[h].inbox = Origin[d]
  /\ Fingerprint(ledger'[h].rec[d]) = s
  /\ \A x \in Doc : x # d => Fingerprint(ledger'[h].rec[x]) = Fingerprint(ledger[h].rec[x])
  /\ ledger'[h].full = ledger[h].full /\ UNCHANGED wire

Forking(h, i) ==
  /\ Unmoved(h) /\ ledger'[h].inbox = i /\ Fresh(i)
  /\ \A d \in Doc : Fingerprint(ledger'[h].rec[d]) = Fingerprint(ledger[h].rec[d])
  /\ \A r \in Route : ledger'[h].full[r].cut = NoCut
  /\ UNCHANGED wire

\* Adopting is what other homes may do of a document, and nothing its owner does
\* changes by it: the owner has reached whatever it is shown.
LEMMA AdoptingTrue ==
  ASSUME NEW T, TypeOK, TypeOK', TrueTo(T), NEW h \in Home, Adopting(T, h)
  PROVE  TrueStep(T, T, h) /\ History!Adopt(h)
<1> DEFINE old(d) == ledger[h].rec[d]
           new(d) == ledger'[h].rec[d]
<1>1. PICK S \in Cut : /\ GenuineCut(T, S)
                       /\ \A d \in Doc : Adopts(old(d), new(d), S[d])
  BY DEF Adopting
<1>2. ASSUME NEW g \in Home, NEW d \in Doc
      PROVE  /\ ledger[g].rec[d].state \in {"absent", "live", "deleted"}
             /\ ledger'[g].rec[d].state \in {"absent", "live", "deleted"}
  BY DEF TypeOK, LedgerType, Record, States
<1>3. ASSUME NEW d \in Doc
      PROVE  Genuine(T, d, Fingerprint(new(d))) /\ Reached(new(d).state, old(d).state)
  <2>1. CASE Fingerprint(new(d)) = Fingerprint(old(d))
    BY <2>1, HeldGenuine DEF Fingerprint, Reached
  <2>2. CASE /\ Fingerprint(new(d)) = S[d] /\ S[d].state # "absent"
             /\ old(d).state = "deleted" => S[d].state = "deleted"
    <3>1. new(d).state = S[d].state
      BY <2>2 DEF Fingerprint
    <3>2. QED
      BY <1>1, <1>2, <2>2, <3>1 DEF GenuineCut, Reached
  <2>3. QED
    BY <1>1, <2>1, <2>2 DEF Adopts
<1>4. \A d \in Doc : SignedAt(d, Fingerprint(new(d))) /\ Fingerprint(new(d)).state = new(d).state
  BY <1>3 DEF Genuine, Fingerprint
<1>5. ASSUME NEW g \in Home, NEW d \in Doc PROVE Reached(At(g, d)', At(g, d))
  BY <1>3 DEF Adopting, Unmoved, At, Reached
<1>6. \A g \in Home : ledger'[g].inbox = ledger[g].inbox
  BY DEF Adopting, Unmoved
<1>7. ASSUME NEW g \in Home, NEW o \in Home, NEW d \in Doc, ledger'[o].inbox = Origin[d]
      PROVE  Reached(At(o, d)', At(g, d)')
  <2>1. ledger[o].inbox = Origin[d] /\ OwnerLeads
    BY <1>6, <1>7 DEF TrueTo
  <2>2. Reached(At(o, d), At(g, d)')
    <3>1. CASE g = h
      BY <1>4, <2>1, <3>1, OwnerReached DEF At
    <3>2. CASE g # h
      BY <2>1, <3>2 DEF Adopting, Unmoved, OwnerLeads, At
    <3>3. QED
      BY <3>1, <3>2
  <2>3. QED
    BY <1>5, <2>2, ReachedTransitive
<1>8. TrueStep(T, T, h)
  <2>1. \A d \in Doc : TrueState(T, d, Fingerprint(new(d))) /\ Reached(At(h, d)', At(h, d))
    BY <1>3, <1>5 DEF Genuine
  <2>2. OwnerLeads' /\ Identities'
    BY <1>6, <1>7 DEF OwnerLeads, Identities, TrueTo
  <2>3. QED
    BY <2>1, <2>2 DEF Adopting, TrueStep, Carries, Genuine
<1>9. ASSUME NEW d \in Doc, new(d).state # old(d).state
      PROVE  /\ History!After(new(d).state, old(d).state)
             /\ History!Signed(d, new(d).state)
             /\ ledger[h].inbox # Origin[d]
  <2>1. new(d).state # "absent" /\ (old(d).state = "absent" \/ new(d).state = "deleted")
    BY <1>2, <1>3, <1>9 DEF Reached
  <2>2. History!After(new(d).state, old(d).state)
    BY <1>2, <1>9, <2>1 DEF History!After
  <2>3. PICK g \in Home : Reached(At(g, d), new(d).state)
    BY <1>4 DEF SignedAt
  <2>4. History!Signed(d, new(d).state)
    BY <1>2, <2>1, <2>3 DEF History!Signed, History!After, Reached, At
  <2>5. ledger[h].inbox # Origin[d]
    <3> SUFFICES ASSUME ledger[h].inbox = Origin[d] PROVE FALSE
      OBVIOUS
    <3>1. Reached(old(d).state, new(d).state)
      BY <1>4, OwnerReached DEF TrueTo, At
    <3>2. QED
      BY <1>3, <1>9, <3>1 DEF Reached
  <2>6. QED
    BY <2>2, <2>4, <2>5
<1>10. History!Adopt(h)
  <2> DEFINE states == [d \in Doc |-> new(d).state]
             copy == [g \in Home |-> [d \in Doc |-> ledger[g].rec[d].state]]
  <2>1. states \in [Doc -> {"absent", "live", "deleted"}]
    BY <1>2
  <2>2. [g \in Home |-> [d \in Doc |-> ledger'[g].rec[d].state]] = [copy EXCEPT ![h] = states]
    BY DEF Adopting, Unmoved
  <2>3. [g \in Home |-> ledger'[g].inbox] = [g \in Home |-> ledger[g].inbox]
    BY <1>6
  <2>4. \A d \in Doc : \/ states[d] = copy[h][d]
                       \/ /\ History!After(states[d], copy[h][d])
                          /\ History!Signed(d, states[d])
                          /\ [g \in Home |-> ledger[g].inbox][h] # Origin[d]
    BY <1>9
  <2>5. QED
    BY <2>1, <2>2, <2>3, <2>4 DEF History!Adopt, History!States
<1>11. QED
  BY <1>8, <1>10

\* What the owner signs becomes part of the truth, which nobody knew yet.
LEMMA SigningTrue ==
  ASSUME NEW T, NEW U, TypeOK, TypeOK', TrueTo(T), NEW h \in Home, NEW d \in Doc, NEW s,
         Signing(h, d, s), TrueState(U, d, s), Reached(s.state, At(h, d)), s.state # "absent",
         \A x \in Doc : x # d => U[x] = T[x],
         \A t \in OriginState : Genuine(T, d, t) => TrueState(U, d, t)
  PROVE  TrueStep(T, U, h)
<1>1. Carries(T, U)
  BY DEF Carries, Genuine, TrueState
<1>2. ASSUME NEW x \in Doc
      PROVE  TrueState(U, x, Fingerprint(ledger'[h].rec[x])) /\ Reached(At(h, x)', At(h, x))
  <2>1. CASE x = d
    BY <2>1 DEF Signing, Fingerprint, At
  <2>2. CASE x # d
    <3>1. Fingerprint(ledger'[h].rec[x]) = Fingerprint(ledger[h].rec[x])
      BY <2>2 DEF Signing
    <3>2. TrueState(T, x, Fingerprint(ledger[h].rec[x]))
      BY DEF TrueTo
    <3>3. TrueState(U, x, Fingerprint(ledger[h].rec[x]))
      BY <2>2, <3>2 DEF TrueState
    <3>4. At(h, x)' = At(h, x)
      BY <3>1 DEF Fingerprint, At
    <3>5. QED
      BY <3>1, <3>3, <3>4 DEF Reached
  <2>3. QED
    BY <2>1, <2>2
<1>3. \A g \in Home : ledger'[g].inbox = ledger[g].inbox
  BY DEF Signing, Unmoved
<1>4. Identities /\ OwnerLeads
  BY DEF TrueTo
<1>5. ASSUME NEW g \in Home, NEW o \in Home, NEW x \in Doc, ledger'[o].inbox = Origin[x]
      PROVE  Reached(At(o, x)', At(g, x)')
  <2>1. Reached(At(o, x), At(g, x))
    BY <1>3, <1>4, <1>5 DEF OwnerLeads
  <2>2. CASE g = o
    BY <2>2 DEF Reached
  <2>3. CASE g # o /\ g # h
    <3>1. At(g, x)' = At(g, x)
      BY <2>3 DEF Signing, Unmoved, At
    <3>2. Reached(At(o, x)', At(o, x))
      BY <1>2 DEF Signing, Unmoved, At, Reached
    <3>3. QED
      BY <2>1, <3>1, <3>2, ReachedTransitive
  <2>4. CASE g # o /\ g = h
    <3>1. x # d
      BY <1>3, <1>4, <1>5, <2>4 DEF Signing, Identities
    <3>2. At(g, x)' = At(g, x) /\ At(o, x)' = At(o, x)
      BY <2>4, <3>1 DEF Signing, Unmoved, At, Fingerprint
    <3>3. QED
      BY <2>1, <3>2
  <2>5. QED
    BY <2>2, <2>3, <2>4
<1>6. OwnerLeads' /\ Identities'
  BY <1>3, <1>4, <1>5 DEF OwnerLeads, Identities
<1>7. QED
  BY <1>1, <1>2, <1>6 DEF TrueStep, Signing

\* A first publication: nobody knows the document.
LEMMA PublishTrue ==
  ASSUME NEW T \in Truth, TypeOK, TypeOK', TrueTo(T), NEW h \in Home, NEW d \in Doc,
         NEW v \in Nat, Signing(h, d, [version |-> v, state |-> "live"]),
         At(h, d) = "absent"
  PROVE  /\ TrueStep(T, [T EXCEPT ![d].live = v], h)
         /\ [T EXCEPT ![d].live = v] \in Truth
         /\ History!Publish(h, d)
<1> DEFINE U == [T EXCEPT ![d].live = v]
           s == [version |-> v, state |-> "live"]
<1>1. U \in Truth /\ U[d].live = v /\ \A x \in Doc : x # d => U[x] = T[x]
  BY DEF Truth
<1>2. OwnerLeads /\ ledger[h].inbox = Origin[d]
  BY DEF TrueTo, Signing
<1>3. ASSUME NEW t, SignedAt(d, t) PROVE t.state = "absent"
  BY <1>2, <1>3, OwnerReached DEF Reached
<1>4. TrueState(U, d, s) /\ Reached(s.state, At(h, d)) /\ s.state # "absent"
  BY <1>1 DEF TrueState, Reached
<1>5. \A t \in OriginState : Genuine(T, d, t) => TrueState(U, d, t)
  BY <1>3 DEF Genuine, TrueState
<1> HIDE DEF U
<1>6. TrueStep(T, U, h)
  BY <1>1, <1>4, <1>5, SigningTrue
<1>7. History!Publish(h, d)
  <2> DEFINE copy == [g \in Home |-> [x \in Doc |-> ledger[g].rec[x].state]]
  <2>1. \A g \in Home : ledger[g].rec[d].state = "absent"
    BY <1>2 DEF OwnerLeads, Reached, At
  <2>2. \A x \in Doc : ledger'[h].rec[x].state = IF x = d THEN "live" ELSE ledger[h].rec[x].state
    BY DEF Signing, Fingerprint
  <2>3. [g \in Home |-> [x \in Doc |-> ledger'[g].rec[x].state]] = [copy EXCEPT ![h][d] = "live"]
    <3>1. ASSUME NEW g \in Home
          PROVE  [x \in Doc |-> ledger'[g].rec[x].state]
                   = IF g = h THEN [copy[h] EXCEPT ![d] = "live"] ELSE copy[g]
      <4>1. CASE g = h
        BY <2>2, <4>1
      <4>2. CASE g # h
        BY <4>2 DEF Signing, Unmoved
      <4>3. QED
        BY <4>1, <4>2
    <3>2. [copy EXCEPT ![h][d] = "live"]
            = [g \in Home |-> IF g = h THEN [copy[h] EXCEPT ![d] = "live"] ELSE copy[g]]
      OBVIOUS
    <3>3. QED
      BY <3>1, <3>2, Zenon
  <2>4. [g \in Home |-> ledger'[g].inbox] = [g \in Home |-> ledger[g].inbox]
    BY DEF Signing, Unmoved
  <2>5. QED
    BY <1>2, <2>1, <2>3, <2>4 DEF History!Publish
<1>8. QED
  BY <1>1, <1>6, <1>7 DEF U

\* A deletion by the owner: nobody knows the tombstone.
LEMMA DeleteTrue ==
  ASSUME NEW T \in Truth, TypeOK, TypeOK', TrueTo(T), NEW h \in Home, NEW d \in Doc,
         NEW v \in Nat, Signing(h, d, [version |-> v, state |-> "deleted"]),
         At(h, d) = "live", ledger[h].rec[d].version < v
  PROVE  /\ TrueStep(T, [T EXCEPT ![d].dead = v], h)
         /\ [T EXCEPT ![d].dead = v] \in Truth
         /\ History!Delete(h, d)
<1> DEFINE U == [T EXCEPT ![d].dead = v]
           s == [version |-> v, state |-> "deleted"]
<1>1. /\ U \in Truth /\ U[d].dead = v /\ U[d].live = T[d].live
      /\ \A x \in Doc : x # d => U[x] = T[x]
  BY DEF Truth
<1>2. OwnerLeads /\ ledger[h].inbox = Origin[d]
  BY DEF TrueTo, Signing
<1>3. ASSUME NEW t, SignedAt(d, t) PROVE t.state \in {"absent", "live"}
  BY <1>2, <1>3, OwnerReached DEF Reached
<1>4. ledger[h].rec[d].version = T[d].live
  BY DEF TrueTo, TrueState, Fingerprint, At
<1>5. TrueState(U, d, s) /\ Reached(s.state, At(h, d)) /\ s.state # "absent"
  BY <1>1, <1>4 DEF TrueState, Reached
<1>6. \A t \in OriginState : Genuine(T, d, t) => TrueState(U, d, t)
  BY <1>1, <1>3 DEF Genuine, TrueState
<1> HIDE DEF U
<1>7. TrueStep(T, U, h)
  BY <1>1, <1>5, <1>6, SigningTrue
<1>8. History!Delete(h, d)
  <2> DEFINE copy == [g \in Home |-> [x \in Doc |-> ledger[g].rec[x].state]]
  <2>1. \A x \in Doc :
          ledger'[h].rec[x].state = IF x = d THEN "deleted" ELSE ledger[h].rec[x].state
    BY DEF Signing, Fingerprint
  <2>2. [g \in Home |-> [x \in Doc |-> ledger'[g].rec[x].state]]
          = [copy EXCEPT ![h][d] = "deleted"]
    <3>1. ASSUME NEW g \in Home
          PROVE  [x \in Doc |-> ledger'[g].rec[x].state]
                   = IF g = h THEN [copy[h] EXCEPT ![d] = "deleted"] ELSE copy[g]
      <4>1. CASE g = h
        BY <2>1, <4>1
      <4>2. CASE g # h
        BY <4>2 DEF Signing, Unmoved
      <4>3. QED
        BY <4>1, <4>2
    <3>2. [copy EXCEPT ![h][d] = "deleted"]
            = [g \in Home |-> IF g = h THEN [copy[h] EXCEPT ![d] = "deleted"] ELSE copy[g]]
      OBVIOUS
    <3>3. QED
      BY <3>1, <3>2, Zenon
  <2>3. [g \in Home |-> ledger'[g].inbox] = [g \in Home |-> ledger[g].inbox]
    BY DEF Signing, Unmoved
  <2>4. QED
    BY <1>2, <2>2, <2>3 DEF History!Delete, At
<1>9. QED
  BY <1>1, <1>7, <1>8 DEF U

\* A fresh identity owns nothing anybody knows.
LEMMA ForkTrue ==
  ASSUME NEW T, TypeOK, TypeOK', TrueTo(T), NEW h \in Home, NEW i \in Inbox, Forking(h, i)
  PROVE  TrueStep(T, T, h) /\ History!Fork(h, i)
<1>1. ASSUME NEW g \in Home, NEW d \in Doc PROVE At(g, d)' = At(g, d)
  BY DEF Forking, Unmoved, At, Fingerprint
<1>2. \A g \in Home, d \in Doc : Origin[d] = i => At(g, d) = "absent"
  BY DEF Forking, Fresh, Present, At
<1>3. /\ \A g \in Home : ledger'[g].inbox = IF g = h THEN i ELSE ledger[g].inbox
      /\ \A g \in Home : ledger[g].inbox # i
  BY DEF Forking, Unmoved, Fresh
<1>4. OwnerLeads' /\ Identities'
  <2>1. ASSUME NEW g \in Home, NEW o \in Home, NEW d \in Doc, ledger'[o].inbox = Origin[d]
        PROVE  Reached(At(o, d)', At(g, d)')
    <3>1. CASE o = h
      BY <1>1, <1>2, <1>3, <2>1, <3>1 DEF Reached
    <3>2. CASE o # h
      BY <1>1, <1>3, <2>1, <3>2 DEF TrueTo, OwnerLeads
    <3>3. QED
      BY <3>1, <3>2
  <2>2. QED
    BY <1>3, <2>1 DEF OwnerLeads, Identities, TrueTo
<1>5. \A r \in Route : GenuineFull(T, h, r)'
  BY DEF Forking, GenuineFull, TrueState, Reached, NoCut, NoState
<1>6. TrueStep(T, T, h)
  <2>1. \A d \in Doc : TrueState(T, d, Fingerprint(ledger'[h].rec[d]))
    BY DEF Forking, TrueTo
  <2>2. QED
    BY <1>1, <1>4, <1>5, <2>1 DEF Forking, TrueStep, Carries, Genuine, Reached
<1>7. History!Fork(h, i)
  <2>1. [g \in Home |-> [d \in Doc |-> ledger'[g].rec[d].state]]
          = [g \in Home |-> [d \in Doc |-> ledger[g].rec[d].state]]
    BY <1>1 DEF At
  <2>2. [g \in Home |-> ledger'[g].inbox] = [[g \in Home |-> ledger[g].inbox] EXCEPT ![h] = i]
    BY <1>3
  <2>3. QED
    BY <1>2, <1>3, <2>1, <2>2 DEF History!Fork, At
<1>8. QED
  BY <1>6, <1>7

-----------------------------------------------------------------------------
(* Which way each operation moves a home. *)

\* A commit is a step of one home.
LEMMA CommitMoves ==
  ASSUME TypeOK, NEW h \in Home, NEW K, Commit(h, K)
  PROVE  ledger'[h] = K /\ Unmoved(h)
BY DEF Commit, Unmoved, TypeOK

\* A home that changes no state adopts nothing new.
LEMMA IdleAdopting ==
  ASSUME NEW T, NEW h \in Home, UNCHANGED ledger,
         \A m \in wire' : m \in wire \/ GenuineMessage(T, m)
  PROVE  Adopting(T, h)
<1>1. NoCut \in Cut
  BY DEF NoCut, NoState, Cut, OriginState
<1>2. GenuineCut(T, NoCut)
  BY NothingGenuine DEF GenuineCut, NoCut
<1>3. \A d \in Doc : Adopts(ledger[h].rec[d], ledger'[h].rec[d], NoCut[d])
  BY DEF Adopts
<1>4. QED
  BY <1>1, <1>2, <1>3 DEF Adopting, Unmoved

\* Every copy in the state it was; at most, checkpoints are dropped.
LEMMA QuietAdopting ==
  ASSUME NEW T, TypeOK, NEW h \in Home, NEW K, Commit(h, K),
         K.inbox = ledger[h].inbox, SameStates(ledger[h], K),
         \A r \in Route : K.full[r].cut \in {ledger[h].full[r].cut, NoCut},
         \A m \in wire' : m \in wire \/ GenuineMessage(T, m)
  PROVE  Adopting(T, h)
<1>1. NoCut \in Cut
  BY DEF NoCut, NoState, Cut, OriginState
<1>2. GenuineCut(T, NoCut)
  BY NothingGenuine DEF GenuineCut, NoCut
<1>3. ledger'[h] = K /\ Unmoved(h)
  BY CommitMoves
<1>4. \A d \in Doc : Adopts(ledger[h].rec[d], ledger'[h].rec[d], NoCut[d])
  BY <1>3 DEF Adopts, SameStates
<1>5. ASSUME NEW r \in Route, ledger'[h].full[r].cut = NoCut PROVE GenuineFull(T, h, r)'
  BY <1>5 DEF GenuineFull, TrueState, Reached, NoCut, NoState
<1>6. QED
  BY <1>1, <1>2, <1>3, <1>4, <1>5 DEF Adopting

\* One document in a genuine state, the others as they were.
LEMMA StateAdopting ==
  ASSUME NEW T, TypeOK, NEW h \in Home, NEW K, Commit(h, K),
         K.inbox = ledger[h].inbox, K.full = ledger[h].full,
         NEW d \in Doc, NEW s \in OriginState, Genuine(T, d, s),
         Adopts(ledger[h].rec[d], K.rec[d], s),
         \A x \in Doc : x # d => Fingerprint(K.rec[x]) = Fingerprint(ledger[h].rec[x]),
         \A m \in wire' : m \in wire \/ GenuineMessage(T, m)
  PROVE  Adopting(T, h)
<1> DEFINE S == [x \in Doc |-> IF x = d THEN s ELSE NoState]
<1>1. S \in Cut
  BY DEF NoState, Cut, OriginState
<1>2. GenuineCut(T, S)
  BY NothingGenuine DEF GenuineCut
<1>3. ledger'[h] = K /\ Unmoved(h)
  BY CommitMoves
<1>4. \A x \in Doc : Adopts(ledger[h].rec[x], ledger'[h].rec[x], S[x])
  BY <1>3 DEF Adopts
<1>5. QED
  BY <1>1, <1>2, <1>3, <1>4 DEF Adopting

Signs(h) ==
  \E d \in Doc, v \in Nat :
    \/ Signing(h, d, [version |-> v, state |-> "live"]) /\ At(h, d) = "absent"
    \/ /\ Signing(h, d, [version |-> v, state |-> "deleted"])
       /\ At(h, d) = "live" /\ ledger[h].rec[d].version < v

Moves(T, h) == Adopting(T, h) \/ Signs(h) \/ \E i \in Inbox : Forking(h, i)

\* What users, operators and crashes do.
LEMMA UsersMove ==
  ASSUME NEW T, Inv, LedgersServed, NEW h \in Home, Users(h) PROVE Moves(T, h)
<1>1. /\ ledger[h] \in LedgerType /\ Sound(ledger[h]) /\ AllDelivered(ledger[h]) /\ TypeOK
  BY DEF Inv, TypeOK, LedgersSound, LedgersServed, Served
<1>2. ASSUME NEW L, Commit(h, L), UNCHANGED wire,
             Follows(ledger[h], L), SameStates(ledger[h], L)
      PROVE  Adopting(T, h)
  BY <1>1, <1>2, QuietAdopting DEF Follows
<1>3. ASSUME NEW d \in Doc, PublishDocument(h, d) PROVE Signs(h)
  <2> DEFINE K == Publish(ledger[h], d)
  <2>1. /\ Commit(h, K) /\ UNCHANGED wire
        /\ Origin[d] = ledger[h].inbox /\ ~Present(ledger[h], d)
    BY <1>3 DEF PublishDocument, CanPublish
  <2>2. /\ Follows(ledger[h], K)
        /\ Fingerprint(K.rec[d]) = [version |-> ledger[h].next, state |-> "live"]
        /\ \A x \in Doc : x # d => K.rec[x] = ledger[h].rec[x]
    BY <1>1, <2>1, PublishAdvances DEF Advances
  <2> HIDE DEF K
  <2>3. ledger'[h] = K /\ Unmoved(h)
    BY <1>1, <2>1, CommitMoves
  <2>4. Signing(h, d, [version |-> ledger[h].next, state |-> "live"])
    BY <2>1, <2>2, <2>3 DEF Signing, Follows
  <2>5. At(h, d) = "absent" /\ ledger[h].next \in Nat
    BY <1>1, <2>1 DEF At, Present, LedgerType
  <2>6. QED
    BY <2>4, <2>5 DEF Signs
<1>4. ASSUME NEW d \in Doc, DeleteDocument(h, d) PROVE Adopting(T, h) \/ Signs(h)
  <2> DEFINE K == Delete(ledger[h], d)
  <2>1. Commit(h, K) /\ UNCHANGED wire /\ CanDelete(ledger[h], d)
    BY <1>4 DEF DeleteDocument
  <2>2. At(h, d) = "live" /\ Present(ledger[h], d)
    BY <2>1 DEF CanDelete, At, Present
  <2>3. /\ Follows(ledger[h], K)
        /\ Origin[d] # ledger[h].inbox => SameStates(ledger[h], K)
        /\ Origin[d] = ledger[h].inbox =>
             Fingerprint(K.rec[d]) = [version |-> ledger[h].next, state |-> "deleted"]
        /\ \A x \in Doc : x # d => Fingerprint(K.rec[x]) = Fingerprint(ledger[h].rec[x])
    BY <1>1, <2>2, DeleteAdvances DEF Advances
  <2> HIDE DEF K
  <2>4. CASE Origin[d] # ledger[h].inbox
    BY <1>2, <2>1, <2>3, <2>4
  <2>5. CASE Origin[d] = ledger[h].inbox
    <3>1. ledger'[h] = K /\ Unmoved(h)
      BY <1>1, <2>1, CommitMoves
    <3>2. Signing(h, d, [version |-> ledger[h].next, state |-> "deleted"])
      BY <2>1, <2>3, <2>5, <3>1 DEF Signing, Follows
    <3>3. ledger[h].rec[d].version < ledger[h].next
      BY <1>1, <2>1, <2>2, <2>5 DEF Sound, OwnerCounterAhead, CanDelete
    <3>4. ledger[h].next \in Nat
      BY <1>1 DEF LedgerType
    <3>5. QED
      BY <2>2, <3>2, <3>3, <3>4 DEF Signs
  <2>6. QED
    BY <2>4, <2>5
<1>5. ASSUME NEW d \in Doc, LoseBody(h, d) PROVE Adopting(T, h)
  <2> DEFINE rec == [ledger[h].rec[d] EXCEPT !.body = FALSE]
             K == [ledger[h] EXCEPT !.rec[d] = rec]
  <2>1. ledger[h].rec[d] \in Record
    BY <1>1 DEF LedgerType
  <2>2. rec \in Record /\ rec.version = ledger[h].rec[d].version
        /\ rec.state = ledger[h].rec[d].state /\ rec.from = ledger[h].rec[d].from
    BY <2>1 DEF Record
  <2>3. Commit(h, K) /\ UNCHANGED wire
    BY <1>1, <1>5 DEF LoseBody, LedgerType
  <2> HIDE DEF rec
  <2>4. Follows(ledger[h], K) /\ SameStates(ledger[h], K)
    BY <1>1, <2>2, SameStateAdvances
  <2>5. QED
    BY <1>2, <2>3, <2>4
<1>6. ASSUME NEW d \in Doc, NEW b \in BOOLEAN, SetSuppressed(h, d, b) PROVE Adopting(T, h)
  BY <1>1, <1>2, <1>6, SuppressAdvances DEF SetSuppressed, Advances
<1>7. ASSUME NEW r \in Route, NEW state \in {"reconnecting", "detached"},
             ConfigureRoute(h, r, state)
      PROVE  Adopting(T, h)
  BY <1>1, <1>2, <1>7, ConfigureAdvances DEF ConfigureRoute, Advances
<1>8. ASSUME NEW r \in Route, RevokeRoute(h, r) PROVE Adopting(T, h)
  BY <1>1, <1>2, <1>8, RevokeAdvances DEF RevokeRoute, Advances
<1>9. ASSUME NEW r \in Route, RetryRoute(h, r) PROVE Adopting(T, h)
  BY <1>1, <1>2, <1>9, RetryAdvances DEF RetryRoute, Advances
<1>10. ASSUME NEW r \in Route, NEW d \in Doc, NEW b \in BOOLEAN, FailAttempt(h, r, d, b)
       PROVE  Adopting(T, h)
  BY <1>1, <1>2, <1>10, UpdateAttemptAdvances DEF FailAttempt, Advances
<1>11. ASSUME AuditConflict(h) PROVE Adopting(T, h)
  BY <1>1, <1>2, <1>11, QuarantineAdvances DEF AuditConflict, Advances
<1>12. ASSUME QuarantineRestored(h) PROVE Adopting(T, h)
  <2> DEFINE K == QuarantineRestore(ledger[h])
  <2>1. /\ K.inbox = ledger[h].inbox /\ K.rec = Quarantine(ledger[h]).rec
        /\ K.full = [r \in Route |-> NoCheckpoint] /\ SameStates(ledger[h], Quarantine(ledger[h]))
    BY <1>1, QuarantineRestoreAdvances
  <2>2. Commit(h, K) /\ UNCHANGED wire
    BY <1>12 DEF QuarantineRestored
  <2> HIDE DEF K
  <2>3. SameStates(ledger[h], K)
    BY <2>1 DEF SameStates
  <2>4. \A r \in Route : K.full[r].cut = NoCut
    BY <2>1 DEF NoCheckpoint
  <2>5. QED
    BY <1>1, <2>1, <2>2, <2>3, <2>4, QuietAdopting
<1>13. ASSUME NEW i \in Inbox, ForkIdentity(h, i) PROVE Forking(h, i)
  <2> DEFINE K == Fork(ledger[h], i)
  <2>1. K.inbox = i /\ SameStates(ledger[h], K) /\ K.full = [r \in Route |-> NoCheckpoint]
    BY <1>1, ForkAdvances
  <2>2. Commit(h, K) /\ UNCHANGED wire /\ Fresh(i)
    BY <1>13 DEF ForkIdentity
  <2> HIDE DEF K
  <2>3. ledger'[h] = K /\ Unmoved(h)
    BY <1>1, <2>2, CommitMoves
  <2>4. \A r \in Route : K.full[r].cut = NoCut
    BY <2>1 DEF NoCheckpoint
  <2>5. QED
    BY <2>1, <2>2, <2>3, <2>4 DEF Forking, SameStates
<1>14. QED
  BY <1>3, <1>4, <1>5, <1>6, <1>7, <1>8, <1>9, <1>10, <1>11, <1>12, <1>13 DEF Users, Moves

\* What a home sends is genuine because what it holds is.
LEMMA SendsMove ==
  ASSUME NEW T, TrueTo(T), NEW h \in Home, Sends(h) PROVE Adopting(T, h)
<1>1. ASSUME NEW m, GenuineMessage(T, m), Request(m), UNCHANGED ledger PROVE Adopting(T, h)
  BY <1>1, IdleAdopting DEF Request
<1>2. ASSUME NEW r \in Route PROVE GenuineCut(T, InventoryCut(ledger[h], r))
  BY HeldGenuine, NothingGenuine DEF GenuineCut, InventoryCut
<1>3. ASSUME NEW r \in Route, NEW d \in Doc, OfferTerminal(h, r, d) \/ OfferState(h, r, d)
      PROVE  Adopting(T, h)
  <2> DEFINE m == StateMsg("offer", "push", r, Rev(h, r), d, Fingerprint(ledger[h].rec[d]))
  <2>1. m.kind = "offer" /\ m.doc = d /\ m.signed = Fingerprint(ledger[h].rec[d])
    BY DEF StateMsg
  <2>2. Request(m) /\ UNCHANGED ledger
    BY <1>3 DEF OfferTerminal, OfferState
  <2> HIDE DEF m
  <2>3. GenuineMessage(T, m)
    BY <2>1, HeldGenuine DEF GenuineMessage
  <2>4. QED
    BY <1>1, <2>2, <2>3
<1>4. ASSUME NEW r \in Route, NEW mode \in Modes, SendManifest(h, r, mode) PROVE Adopting(T, h)
  <2> DEFINE m == CutMsg("manifest", mode, r, Rev(h, r), InventoryCut(ledger[h], r))
  <2>1. m.kind = "manifest" /\ m.cut = InventoryCut(ledger[h], r)
    BY DEF CutMsg
  <2>2. Request(m) /\ UNCHANGED ledger
    BY <1>4 DEF SendManifest
  <2> HIDE DEF m
  <2>3. GenuineMessage(T, m)
    BY <1>2, <2>1 DEF GenuineMessage
  <2>4. QED
    BY <1>1, <2>2, <2>3
<1>5. ASSUME NEW r \in Route, QueryHoldings(h, r) PROVE Adopting(T, h)
  <2> DEFINE m == [kind |-> "query", route |-> r, revision |-> Rev(h, r),
                   cut |-> InventoryCut(ledger[h], r)]
  <2>1. m.kind = "query" /\ m.cut = InventoryCut(ledger[h], r)
    OBVIOUS
  <2>2. Request(m) /\ UNCHANGED ledger
    BY <1>5 DEF QueryHoldings
  <2> HIDE DEF m
  <2>3. GenuineMessage(T, m)
    BY <1>2, <2>1 DEF GenuineMessage
  <2>4. QED
    BY <1>1, <2>2, <2>3
<1>6. QED
  BY <1>3, <1>4, <1>5 DEF Sends

\* What a receiver answers to a genuine state.
LEMMA AnswerMoves ==
  ASSUME NEW T, Inv, LedgersServed, TrueTo(T), NEW h \in Home, NEW m \in StateMessage,
         GenuineMessage(T, m), NEW staged \in BOOLEAN, m.kind \in {"offer", "body"},
         SentTo(h, m), Answer(h, m, staged)
  PROVE  Adopting(T, h)
<1> DEFINE L == ledger[h]
           K == Apply(L, m.route, m.doc, m.signed, staged)
           rec == AppliedRecord(L, m.route, m.doc, m.signed, staged)
           x == ReceiptOf(L, m.route, m.doc, m.signed, staged)
           verdict == Verdict(L, m.route, m.doc, m.signed, staged)
           wanted == [m EXCEPT !.kind = "wanted"]
           told == ReceiptMsg(m.route, m.revision, m.signed, x)
<1>1. L \in LedgerType /\ Sound(L) /\ AllDelivered(L) /\ TypeOK
  BY DEF Inv, TypeOK, LedgersSound, LedgersServed, Served
<1>2. /\ m.route \in Route /\ m.doc \in Doc /\ m.signed \in OriginState
      /\ Genuine(T, m.doc, m.signed)
      /\ Configured(L, m.route) /\ Dst[m.route] = L.inbox
  BY SentEnds DEF StateMessage, GenuineMessage
<1>3. Commit(h, K)
  BY DEF Answer
<1>4. Adopts(L.rec[m.doc], rec, m.signed)
  BY <1>1, <1>2, AppliedState
<1>5. /\ Follows(L, K) /\ Fingerprint(K.rec[m.doc]) = Fingerprint(rec)
      /\ \A y \in Doc : y # m.doc => Fingerprint(K.rec[y]) = Fingerprint(L.rec[y])
  BY <1>1, <1>2, ApplyAdvances DEF Advances
<1>6. \/ \A y \in wire' : y \in wire \/ y = wanted
      \/ verdict \in {"accept", "superseded"} /\ \A y \in wire' : y \in wire \/ y = told
      \/ wire' \subseteq wire
  BY DEF Answer, Reply, Done
<1>7. verdict \in {"accept", "superseded"} =>
        x.doc = m.doc /\ x.signed = Fingerprint(rec)
  BY <1>1, <1>2, ReceiptOfHonest
<1>8. wanted.kind = "wanted" /\ wanted.doc = m.doc /\ wanted.signed = m.signed
  BY DEF StateMessage
<1>9. told.kind = "receipt" /\ told.receipt = x
  BY DEF ReceiptMsg
<1> HIDE DEF K, rec, x, wanted, told, verdict
<1>10. GenuineMessage(T, wanted)
  BY <1>2, <1>8 DEF GenuineMessage
<1>11. Genuine(T, m.doc, Fingerprint(rec))
  BY <1>2, <1>4, HeldGenuine DEF Adopts
<1>12. verdict \in {"accept", "superseded"} => GenuineMessage(T, told)
  BY <1>2, <1>7, <1>9, <1>11 DEF GenuineMessage
<1>13. \A y \in wire' : y \in wire \/ GenuineMessage(T, y)
  BY <1>6, <1>10, <1>12
<1>14. Adopts(L.rec[m.doc], K.rec[m.doc], m.signed)
  BY <1>4, <1>5 DEF Adopts, Fingerprint
<1>15. QED
  BY <1>1, <1>2, <1>3, <1>5, <1>13, <1>14, StateAdopting DEF Follows

\* A receiver that is fully reconciled holds what the cut covers, or later.
LEMMA ReconciledReached ==
  ASSUME NEW T \in Truth, TypeOK, TrueTo(T), NEW h \in Home, NEW r \in Route, NEW cut \in Cut,
         GenuineCut(T, cut), Reconciled(ledger[h], r, cut), NEW d \in Doc
  PROVE  TrueState(T, d, cut[d]) /\ Reached(At(h, d), cut[d].state)
<1>1. TrueState(T, d, cut[d]) /\ TrueState(T, d, Fingerprint(ledger[h].rec[d]))
  BY DEF GenuineCut, Genuine, TrueTo
<1>2. At(h, d) \in {"absent", "live", "deleted"} /\ cut[d].state \in {"absent", "live", "deleted"}
  BY DEF At, TypeOK, LedgerType, Record, Cut, OriginState, States
<1>3. \/ cut[d].state = "absent" \/ At(h, d) = "deleted"
      \/ (At(h, d) = "live" /\ ledger[h].rec[d].version >= cut[d].version)
  BY <1>2 DEF Reconciled, Present, At
<1>4. ~(At(h, d) = "live" /\ ledger[h].rec[d].version >= cut[d].version
        /\ cut[d].state = "deleted")
  BY <1>1 DEF TrueState, Fingerprint, At, Truth
<1>5. QED
  BY <1>1, <1>2, <1>3, <1>4 DEF Reached

\* What a home makes of a message.
LEMMA HandlesMove ==
  ASSUME NEW T \in Truth, Inv, LedgersServed, TrueTo(T), NEW h \in Home, NEW m \in wire,
         Handles(h, m)
  PROVE  Adopting(T, h)
<1>1. /\ ledger[h] \in LedgerType /\ Sound(ledger[h]) /\ AllDelivered(ledger[h]) /\ TypeOK
      /\ m \in Message /\ GenuineMessage(T, m)
  BY DEF Inv, TypeOK, LedgersSound, LedgersServed, Served, TrueTo
<1>2. ASSUME NEW reply, GenuineMessage(T, reply), Reply(m, reply) \/ Done(m)
      PROVE  \A y \in wire' : y \in wire \/ GenuineMessage(T, y)
  BY <1>2 DEF Reply, Done
<1>3. ASSUME NEW K, Commit(h, K), Follows(ledger[h], K), SameStates(ledger[h], K),
             \A y \in wire' : y \in wire \/ GenuineMessage(T, y)
      PROVE  Adopting(T, h)
  BY <1>1, <1>3, QuietAdopting DEF Follows
<1>4. ASSUME NEW K, Commit(h, K), K.rec = ledger[h].rec, K.inbox = ledger[h].inbox,
             K.full = ledger[h].full, \A y \in wire' : y \in wire \/ GenuineMessage(T, y)
      PROVE  Adopting(T, h)
  BY <1>1, <1>4, QuietAdopting DEF SameStates
<1>5. ASSUME SendBody(h, m) PROVE Adopting(T, h)
  <2>1. m \in StateMessage /\ UNCHANGED ledger
    BY <1>1, <1>5, MessageKinds DEF SendBody
  <2>2. GenuineMessage(T, [m EXCEPT !.kind = "body"])
    BY <1>1, <1>5, <2>1 DEF SendBody, GenuineMessage, StateMessage
  <2>3. QED
    BY <1>2, <1>5, <2>1, <2>2, IdleAdopting DEF SendBody
<1>6. ASSUME ActivateRoute(h, m) PROVE Adopting(T, h)
  <2> DEFINE K == ActivateOutbound(ledger[h], m.route)
  <2>1. m \in CutMessage
    BY <1>1, <1>6, MessageKinds DEF ActivateRoute
  <2>2. m.route \in Route /\ Live(ledger[h], m.route) /\ Src[m.route] = ledger[h].inbox
    BY <1>6, <2>1, SentEnds DEF ActivateRoute, CutMessage
  <2>3. K.rec = ledger[h].rec /\ K.inbox = ledger[h].inbox /\ K.full = ledger[h].full
    BY <1>1, <2>2, ActivateOutboundAdvances
  <2>4. GenuineMessage(T, [m EXCEPT !.kind = "active"])
    BY <1>1, <1>6, <2>1 DEF ActivateRoute, GenuineMessage, CutMessage
  <2>5. Commit(h, K) /\ (Reply(m, [m EXCEPT !.kind = "active"]) \/ Done(m))
    BY <1>6 DEF ActivateRoute
  <2> HIDE DEF K
  <2>6. QED
    BY <1>2, <1>4, <2>3, <2>4, <2>5
<1>7. ASSUME AcknowledgeReceipt(h, m) \/ CrashAfterReceipt(h, m) PROVE Adopting(T, h)
  <2>1. Receive(h, m) /\ Done(m)
    BY <1>7 DEF AcknowledgeReceipt, CrashAfterReceipt
  <2>2. m \in ReceiptMessage
    BY <1>1, <2>1, MessageKinds DEF Receive
  <2>3. m.route \in Route /\ m.receipt \in Receipt /\ Src[m.route] = ledger[h].inbox
        /\ CanAcknowledge(ledger[h], m.route, m.receipt)
    BY <2>1, <2>2, SentEnds DEF Receive, ReceiptMessage
  <2>4. /\ Follows(ledger[h], StoreReceipt(ledger[h], m.receipt))
        /\ SameStates(ledger[h], StoreReceipt(ledger[h], m.receipt))
    BY <1>1, <2>3, ReceiptAdvances DEF Advances
  <2>5. /\ Acknowledge(ledger[h], m.receipt).rec = ledger[h].rec
        /\ Acknowledge(ledger[h], m.receipt).inbox = ledger[h].inbox
        /\ Acknowledge(ledger[h], m.receipt).full = ledger[h].full
    BY <1>1, <2>3, ReceiptAdvances
  <2>6. \A y \in wire' : y \in wire \/ GenuineMessage(T, y)
    BY <2>1 DEF Done
  <2>7. QED
    BY <1>3, <1>4, <1>7, <2>4, <2>5, <2>6 DEF AcknowledgeReceipt, CrashAfterReceipt
<1>8. ASSUME ObserveReceipt(h, m) PROVE Adopting(T, h)
  <2> DEFINE K == ObserveOutbound(ledger[h], m.receipt.doc, m.receipt.signed)
  <2>1. m \in ReceiptMessage
    BY <1>1, <1>8, MessageKinds DEF ObserveReceipt
  <2>2. m.receipt.doc \in Doc /\ m.receipt.signed \in OriginState
        /\ m.receipt.signed.state = "deleted" /\ Genuine(T, m.receipt.doc, m.receipt.signed)
    BY <1>1, <1>8, <2>1 DEF ObserveReceipt, CanObserve, ReceiptMessage, Receipt, GenuineMessage
  <2>3. /\ Follows(ledger[h], K)
        /\ Adopts(ledger[h].rec[m.receipt.doc], K.rec[m.receipt.doc], m.receipt.signed)
        /\ \A x \in Doc : x # m.receipt.doc =>
             Fingerprint(K.rec[x]) = Fingerprint(ledger[h].rec[x])
    BY <1>1, <2>2, ObserveOutboundAdvances DEF Advances
  <2>4. Commit(h, K) /\ Done(m)
    BY <1>8 DEF ObserveReceipt
  <2> HIDE DEF K
  <2>5. \A y \in wire' : y \in wire \/ GenuineMessage(T, y)
    BY <2>4 DEF Done
  <2>6. QED
    BY <1>1, <2>2, <2>3, <2>4, <2>5, StateAdopting DEF Follows
<1>9. ASSUME NEW d \in Doc, ObserveHolding(h, m, d) PROVE Adopting(T, h)
  <2> DEFINE K == ObserveOutbound(ledger[h], d, m.holding[d].signed)
  <2>1. m \in HoldingsMessage /\ m.kind = "holdings"
    BY <1>1, <1>9, MessageKinds DEF ObserveHolding
  <2>2. m.holding[d].signed \in OriginState /\ m.holding[d].signed.state = "deleted"
        /\ Genuine(T, d, m.holding[d].signed)
    BY <1>1, <1>9, <2>1 DEF ObserveHolding, CanObserve, HoldingsMessage, Holding, GenuineMessage
  <2>3. /\ Follows(ledger[h], K)
        /\ Adopts(ledger[h].rec[d], K.rec[d], m.holding[d].signed)
        /\ \A x \in Doc : x # d => Fingerprint(K.rec[x]) = Fingerprint(ledger[h].rec[x])
    BY <1>1, <2>2, ObserveOutboundAdvances DEF Advances
  <2>4. Commit(h, K) /\ Reply(m, [m EXCEPT !.left = @ \ {d}])
    BY <1>9 DEF ObserveHolding
  <2> HIDE DEF K
  <2>5. GenuineMessage(T, [m EXCEPT !.left = @ \ {d}])
    BY <1>1, <2>1 DEF GenuineMessage, HoldingsMessage
  <2>6. QED
    BY <1>1, <1>2, <2>2, <2>3, <2>4, <2>5, StateAdopting DEF Follows
<1>10. ASSUME ReconcileHeld(h, m) PROVE Adopting(T, h)
  <2> DEFINE asked == {d \in Doc : m.cut[d].state # "absent"}
             K == ReconcileHoldings(ledger[h], m.route, asked, m.holding, m.incarnation)
  <2>1. m \in HoldingsMessage /\ m.kind = "holdings"
    BY <1>1, <1>10, MessageKinds DEF ReconcileHeld
  <2>2. m.route \in Route /\ m.incarnation \in Nat /\ m.holding \in [Doc -> Holding]
    BY <2>1 DEF HoldingsMessage
  <2>3. asked \in SUBSET Doc
    OBVIOUS
  <2>4. Commit(h, K)
    BY <1>10 DEF ReconcileHeld
  <2>5. wire' = (wire \ {m}) \cup {ReceiptMsg(m.route, m.revision, x.signed, x) : x \in CustodyOf(m)}
    BY <1>10 DEF ReconcileHeld
  <2> HIDE DEF asked
  <2>6. Follows(ledger[h], K) /\ SameStates(ledger[h], K)
    BY <1>1, <2>2, <2>3, ReconcileHoldingsAdvances DEF Advances
  <2> HIDE DEF K
  <2>7. ASSUME NEW x \in CustodyOf(m)
        PROVE  GenuineMessage(T, ReceiptMsg(m.route, m.revision, x.signed, x))
    <3>1. x.doc \in Doc /\ x.signed = m.cut[x.doc]
      BY <2>1 DEF CustodyOf, HoldingsMessage, Receipt
    <3>2. Genuine(T, x.doc, x.signed)
      BY <1>1, <2>1, <3>1 DEF GenuineMessage, GenuineCut
    <3>3. QED
      BY <3>2 DEF GenuineMessage, ReceiptMsg
  <2>8. QED
    BY <1>3, <2>4, <2>5, <2>6, <2>7
<1>11. ASSUME ReceiveOffer(h, m) \/ ReceiveBody(h, m) PROVE Adopting(T, h)
  <2>1. m \in StateMessage
    BY <1>1, <1>11, MessageKinds DEF ReceiveOffer, ReceiveBody
  <2>2. QED
    BY <1>1, <1>11, <2>1, AnswerMoves DEF ReceiveOffer, ReceiveBody
<1>12. ASSUME NEW d \in Doc, ApplyPageTerminal(h, m, d) \/ PullDocument(h, m, d)
       PROVE  Adopting(T, h)
  <2> DEFINE K == Apply(ledger[h], m.route, d, m.cut[d], FALSE)
             rec == AppliedRecord(ledger[h], m.route, d, m.cut[d], FALSE)
             ask == StateMsg("wanted", "pull", m.route, m.revision, d, m.cut[d])
  <2>1. m \in CutMessage
    BY <1>1, <1>12, MessageKinds DEF ApplyPageTerminal, PullDocument
  <2>2. m.route \in Route /\ m.cut[d] \in OriginState /\ Genuine(T, d, m.cut[d])
    BY <1>1, <2>1 DEF CutMessage, Cut, GenuineMessage, GenuineCut
  <2>3. Configured(ledger[h], m.route) /\ Dst[m.route] = ledger[h].inbox
    BY <1>12, SentEnds DEF ApplyPageTerminal, PullDocument
  <2>4. Commit(h, K) /\ \A y \in wire' : y \in wire \/ y = ask
    BY <1>12 DEF ApplyPageTerminal, PullDocument
  <2>5. Adopts(ledger[h].rec[d], rec, m.cut[d])
    BY <1>1, <2>2, AppliedState
  <2>6. /\ Follows(ledger[h], K) /\ Fingerprint(K.rec[d]) = Fingerprint(rec)
        /\ \A y \in Doc : y # d => Fingerprint(K.rec[y]) = Fingerprint(ledger[h].rec[y])
    BY <1>1, <2>2, <2>3, ApplyAdvances DEF Advances
  <2>7. ask.kind = "wanted" /\ ask.doc = d /\ ask.signed = m.cut[d]
    BY DEF StateMsg
  <2> HIDE DEF K, rec, ask
  <2>8. Adopts(ledger[h].rec[d], K.rec[d], m.cut[d])
    BY <2>5, <2>6 DEF Adopts, Fingerprint
  <2>9. GenuineMessage(T, ask)
    BY <2>2, <2>7 DEF GenuineMessage
  <2>10. QED
    BY <1>1, <2>2, <2>4, <2>6, <2>8, <2>9, StateAdopting DEF Follows
<1>13. ASSUME FinishInventory(h, m) PROVE Adopting(T, h)
  <2> DEFINE K == CompleteInventory(ledger[h], m.route, m.cut)
  <2>1. m \in CutMessage
    BY <1>1, <1>13, MessageKinds DEF FinishInventory
  <2>2. m.route \in Route /\ m.cut \in Cut /\ Live(ledger[h], m.route)
        /\ Dst[m.route] = ledger[h].inbox
    BY <1>13, <2>1, SentEnds DEF CutMessage, FinishInventory
  <2>3. /\ Reconnects(ledger[h], K, m.route, m.cut)
        /\ \A d \in Doc : Adopts(ledger[h].rec[d], K.rec[d], m.cut[d])
    BY <1>1, <2>2, CompleteInventoryAdvances
  <2>4. Commit(h, K) /\ (Reply(m, [m EXCEPT !.kind = "ready"]) \/ Done(m))
    BY <1>13 DEF FinishInventory
  <2>5. GenuineMessage(T, [m EXCEPT !.kind = "ready"]) /\ GenuineCut(T, m.cut)
    BY <1>1, <1>13, <2>1 DEF FinishInventory, GenuineMessage, CutMessage
  <2> HIDE DEF K
  <2>6. ledger'[h] = K /\ Unmoved(h)
    BY <1>1, <2>4, CommitMoves
  <2>7. \A y \in wire' : y \in wire \/ GenuineMessage(T, y)
    BY <1>2, <2>4, <2>5
  <2>8. QED
    BY <2>2, <2>3, <2>5, <2>6, <2>7 DEF Adopting, Reconnects
<1>14. ASSUME FinishReconciliation(h, m) PROVE Adopting(T, h)
  <2> DEFINE K == CompleteReconciliation(ledger[h], m.route, m.cut)
  <2>1. m \in CutMessage
    BY <1>1, <1>14, MessageKinds DEF FinishReconciliation
  <2>2. m.route \in Route /\ m.cut \in Cut /\ GenuineCut(T, m.cut)
    BY <1>1, <1>14, <2>1 DEF CutMessage, FinishReconciliation, GenuineMessage
  <2>3. /\ K.inbox = ledger[h].inbox /\ K.rec = ledger[h].rec /\ K.full[m.route].cut = m.cut
        /\ \A q \in Route : q # m.route => K.full[q] = ledger[h].full[q]
    BY <1>1, <2>2, CompleteReconciliationAdvances
  <2>4. Commit(h, K) /\ Done(m) /\ Reconciled(ledger[h], m.route, m.cut)
    BY <1>14 DEF FinishReconciliation, CanCompleteReconciliation
  <2> HIDE DEF K
  <2>5. ledger'[h] = K /\ Unmoved(h)
    BY <1>1, <2>4, CommitMoves
  <2>6. \A d \in Doc : TrueState(T, d, m.cut[d]) /\ Reached(At(h, d), m.cut[d].state)
    BY <1>1, <2>2, <2>4, ReconciledReached
  <2>7. GenuineFull(T, h, m.route)'
    BY <2>3, <2>5, <2>6 DEF GenuineFull, TrueState, At
  <2>8. \A d \in Doc : Adopts(ledger[h].rec[d], ledger'[h].rec[d], m.cut[d])
    BY <2>3, <2>5 DEF Adopts
  <2>9. \A y \in wire' : y \in wire
    BY <2>4 DEF Done
  <2>10. \A q \in Route : ledger'[h].full[q].cut = ledger[h].full[q].cut \/ GenuineFull(T, h, q)'
    BY <2>3, <2>5, <2>7
  <2>11. QED
    BY <2>2, <2>3, <2>5, <2>8, <2>9, <2>10 DEF Adopting
<1>15. ASSUME AnswerQuery(h, m) PROVE Adopting(T, h)
  <2> DEFINE asked == {d \in Doc : m.cut[d].state # "absent"}
             reply == [kind |-> "holdings", route |-> m.route, revision |-> m.revision,
                       cut |-> m.cut, holding |-> [d \in Doc |-> HoldingOf(ledger[h].rec[d])],
                       receipts |-> UNION {Custody(ledger[h], m.route, d) : d \in asked},
                       incarnation |-> ledger[h].incarnation,
                       left |-> {d \in asked : /\ ledger[h].rec[d].state = "deleted"
                                               /\ Fingerprint(ledger[h].rec[d]) # m.cut[d]}]
  <2>1. Reply(m, reply) /\ UNCHANGED ledger /\ m.kind = "query"
    BY <1>15 DEF AnswerQuery
  <2>2. /\ reply.kind = "holdings" /\ reply.cut = m.cut
        /\ \A d \in Doc : reply.holding[d].signed = Fingerprint(ledger[h].rec[d])
    BY DEF HoldingOf
  <2> HIDE DEF reply
  <2>3. GenuineMessage(T, reply)
    BY <1>1, <2>1, <2>2, HeldGenuine DEF GenuineMessage
  <2>4. QED
    BY <1>2, <2>1, <2>3, IdleAdopting
<1>16. QED
  BY <1>5, <1>6, <1>7, <1>8, <1>9, <1>10, <1>11, <1>12, <1>13, <1>14, <1>15 DEF Handles

-----------------------------------------------------------------------------
(* The invariant and the refinement. *)

HistoryInv == Inv /\ LedgersServed /\ \E T \in Truth : TrueTo(T)

\* What the abstract history sees of the machine.
Seen == <<[h \in Home |-> ledger[h].inbox],
          [h \in Home |-> [d \in Doc |-> ledger[h].rec[d].state]]>>

\* Before anything is signed, any versions will do.
LEMMA InitTrue == Init => \E T \in Truth : TrueTo(T)
<1> SUFFICES ASSUME Init PROVE \E T \in Truth : TrueTo(T)
  OBVIOUS
<1> DEFINE T == [d \in Doc |-> [live |-> 0, dead |-> 0]]
<1>1. T \in Truth
  BY DEF Truth
<1>2. ASSUME NEW h \in Home
      PROVE  /\ ledger[h].inbox = InboxOf[h]
             /\ \A d \in Doc : ledger[h].rec[d] = Absent
             /\ \A r \in Route : ledger[h].full[r] = NoCheckpoint
  BY DEF Init, NewLedger
<1>3. \A h \in Home, d \in Doc : TrueState(T, d, Fingerprint(ledger[h].rec[d]))
  BY <1>2 DEF TrueState, Fingerprint, Absent
<1>4. \A h \in Home, r \in Route : GenuineFull(T, h, r)
  BY <1>2 DEF GenuineFull, TrueState, Reached, NoCheckpoint, NoCut, NoState
<1>5. OwnerLeads /\ Identities
  BY <1>2, ReplicationAssumption DEF OwnerLeads, Identities, Reached, At, Absent
<1>6. wire = {}
  BY DEF Init
<1>7. TrueTo(T)
  BY <1>3, <1>4, <1>5, <1>6 DEF TrueTo
<1>8. QED
  BY <1>1, <1>7

\* Without a commit only messages can be lost.
LEMMA IdleTrue ==
  ASSUME NEW T, TrueTo(T), UNCHANGED ledger, wire' \subseteq wire
  PROVE  TrueTo(T)' /\ UNCHANGED Seen
<1>1. ASSUME NEW d, NEW s, Genuine(T, d, s) PROVE Genuine(T, d, s)'
  BY <1>1 DEF Genuine, TrueState, SignedAt, At, Reached
<1>2. ASSUME NEW m \in wire' PROVE GenuineMessage(T, m)'
  BY <1>1 DEF TrueTo, GenuineMessage, GenuineCut
<1>3. \A h \in Home, d \in Doc : TrueState(T, d, Fingerprint(ledger'[h].rec[d]))
  BY DEF TrueTo
<1>4. \A h \in Home, r \in Route : GenuineFull(T, h, r)'
  BY DEF TrueTo, GenuineFull, TrueState, At, Reached
<1>5. OwnerLeads' /\ Identities'
  BY DEF TrueTo, OwnerLeads, Identities, At
<1>6. TrueTo(T)'
  BY <1>2, <1>3, <1>4, <1>5 DEF TrueTo, TrueState
<1>7. UNCHANGED Seen
  BY DEF Seen
<1>8. QED
  BY <1>6, <1>7

\* Every step of a home is a step of the abstract history.
LEMMA MoveTrue ==
  ASSUME NEW T \in Truth, TypeOK, TypeOK', TrueTo(T), NEW h \in Home, Moves(T, h)
  PROVE  (\E U \in Truth : TrueTo(U)') /\ History!Next
<1>1. CASE Adopting(T, h)
  <2>1. TrueStep(T, T, h) /\ History!Adopt(h)
    BY <1>1, AdoptingTrue
  <2>2. TrueTo(T)'
    BY <2>1, TrueStepKeeps
  <2>3. QED
    BY <2>1, <2>2 DEF History!Next
<1>2. CASE Signs(h)
  <2>1. PICK d \in Doc, v \in Nat :
          \/ Signing(h, d, [version |-> v, state |-> "live"]) /\ At(h, d) = "absent"
          \/ /\ Signing(h, d, [version |-> v, state |-> "deleted"])
             /\ At(h, d) = "live" /\ ledger[h].rec[d].version < v
    BY <1>2 DEF Signs
  <2>2. CASE Signing(h, d, [version |-> v, state |-> "live"]) /\ At(h, d) = "absent"
    <3> DEFINE U == [T EXCEPT ![d].live = v]
    <3>1. TrueStep(T, U, h) /\ U \in Truth /\ History!Publish(h, d)
      BY <2>2, PublishTrue
    <3> HIDE DEF U
    <3>2. TrueTo(U)'
      BY <3>1, TrueStepKeeps
    <3>3. QED
      BY <3>1, <3>2 DEF History!Next
  <2>3. CASE /\ Signing(h, d, [version |-> v, state |-> "deleted"])
             /\ At(h, d) = "live" /\ ledger[h].rec[d].version < v
    <3> DEFINE U == [T EXCEPT ![d].dead = v]
    <3>1. TrueStep(T, U, h) /\ U \in Truth /\ History!Delete(h, d)
      BY <2>3, DeleteTrue
    <3> HIDE DEF U
    <3>2. TrueTo(U)'
      BY <3>1, TrueStepKeeps
    <3>3. QED
      BY <3>1, <3>2 DEF History!Next
  <2>4. QED
    BY <2>1, <2>2, <2>3
<1>3. CASE \E i \in Inbox : Forking(h, i)
  <2>1. PICK i \in Inbox : Forking(h, i)
    BY <1>3
  <2>2. TrueStep(T, T, h) /\ History!Fork(h, i)
    BY <2>1, ForkTrue
  <2>3. TrueTo(T)'
    BY <2>2, TrueStepKeeps
  <2>4. QED
    BY <2>2, <2>3 DEF History!Next
<1>4. QED
  BY <1>1, <1>2, <1>3 DEF Moves

\* Every step keeps the truth and is a step of the abstract history.
LEMMA StepTrue ==
  HistoryInv /\ [Next]_vars => HistoryInv' /\ [History!Next]_Seen
<1> SUFFICES ASSUME HistoryInv, [Next]_vars PROVE HistoryInv' /\ [History!Next]_Seen
  OBVIOUS
<1>1. Inv /\ LedgersServed /\ TypeOK
  BY DEF HistoryInv, Inv
<1>2. Inv' /\ LedgersServed' /\ TypeOK'
  BY <1>1, StepSound, StepServed DEF Inv
<1>3. PICK T \in Truth : TrueTo(T)
  BY DEF HistoryInv
<1>4. ASSUME NEW h \in Home, Users(h) \/ Sends(h) \/ \E m \in wire : Handles(h, m)
      PROVE  Moves(T, h)
  BY <1>1, <1>3, <1>4, UsersMove, SendsMove, HandlesMove DEF Moves
<1>5. ASSUME NEW h \in Home, Moves(T, h)
      PROVE  (\E U \in Truth : TrueTo(U)') /\ [History!Next]_Seen
  BY <1>1, <1>2, <1>3, <1>5, MoveTrue
<1>6. ASSUME NEW m \in wire, Lose(m)
      PROVE  (\E U \in Truth : TrueTo(U)') /\ [History!Next]_Seen
  BY <1>3, <1>6, IdleTrue DEF Lose, Done
<1>7. CASE UNCHANGED vars
  <2>1. TrueTo(T)' /\ UNCHANGED Seen
    BY <1>3, <1>7, IdleTrue DEF vars
  <2>2. QED
    BY <1>2, <2>1 DEF HistoryInv
<1>8. CASE Next
  <2>1. (\E U \in Truth : TrueTo(U)') /\ [History!Next]_Seen
    BY <1>4, <1>5, <1>6, <1>8 DEF Next
  <2>2. QED
    BY <1>2, <2>1 DEF HistoryInv
<1>9. QED
  BY <1>7, <1>8

\* The inductive invariant with the truth.
LEMMA HistoryAlways == Spec => []HistoryInv
<1>1. Init => HistoryInv
  BY InitType, InitSound, InitServed, InitTrue DEF HistoryInv, Inv
<1>2. QED
  BY <1>1, StepTrue, PTL DEF Spec

\* The machine implements the abstract history: only owners sign, other homes
\* adopt what was signed, no copy goes back, and a fork takes an identity with
\* no history (`allocateVersion`, `applyLocked`, `fork`).
THEOREM HistoryImplemented == Spec => ImplementsHistory
<1>1. Init => HistoryInv /\ History!Init
  <2>1. Init => HistoryInv
    BY InitType, InitSound, InitServed, InitTrue DEF HistoryInv, Inv
  <2>2. ASSUME Init PROVE History!Init
    <3>1. \A h \in Home : ledger[h].inbox = InboxOf[h] /\ \A d \in Doc : ledger[h].rec[d] = Absent
      BY <2>2 DEF Init, NewLedger
    <3>2. [h \in Home |-> ledger[h].inbox] \in [Home -> Inbox]
      BY <3>1, ReplicationAssumption
    <3>3. [h \in Home |-> [d \in Doc |-> ledger[h].rec[d].state]]
            = [h \in Home |-> [d \in Doc |-> "absent"]]
      BY <3>1 DEF Absent
    <3>4. QED
      BY <3>2, <3>3 DEF History!Init
  <2>3. QED
    BY <2>1, <2>2
<1>2. HistoryInv /\ [Next]_vars => HistoryInv' /\ [History!Next]_Seen
  BY StepTrue
<1>3. QED
  BY <1>1, <1>2, PTL DEF Spec, ImplementsHistory, History!Spec, Seen

\* No two states of one document are signed at the same version, wherever the
\* copies are (`allocateVersion`, `fork`).
THEOREM SignedOnceAlways == Spec => []SignedOnce
<1>1. HistoryInv => SignedOnce
  <2> SUFFICES ASSUME HistoryInv, NEW g \in Home, NEW h \in Home, NEW d \in Doc,
                      Present(ledger[g], d), Present(ledger[h], d),
                      ledger[g].rec[d].version = ledger[h].rec[d].version
               PROVE  ledger[g].rec[d].state = ledger[h].rec[d].state
    BY DEF SignedOnce
  <2>1. PICK T \in Truth : TrueTo(T)
    BY DEF HistoryInv
  <2>2. /\ TrueState(T, d, Fingerprint(ledger[g].rec[d]))
        /\ TrueState(T, d, Fingerprint(ledger[h].rec[d]))
    BY <2>1 DEF TrueTo
  <2>3. T[d].live \in Nat /\ T[d].dead \in Nat
    BY DEF Truth
  <2>4. QED
    BY <2>2, <2>3 DEF TrueState, Fingerprint, Present
<1>2. QED
  BY <1>1, HistoryAlways, PTL

\* A full-reconciliation checkpoint covers only states that are held, at that
\* version or later (`completeReconciliation`).
THEOREM FullIsHeldAlways == Spec => []FullIsHeld
<1>1. HistoryInv => FullIsHeld
  <2> SUFFICES ASSUME HistoryInv, NEW h \in Home, NEW r \in Route, NEW d \in Doc,
                      ledger[h].full[r].cut[d].state # "absent"
               PROVE  /\ Present(ledger[h], d)
                      /\ ledger[h].rec[d].version >= ledger[h].full[r].cut[d].version
    BY DEF FullIsHeld
  <2> DEFINE s == ledger[h].full[r].cut[d]
             rec == ledger[h].rec[d]
  <2>1. PICK T \in Truth : TrueTo(T)
    BY DEF HistoryInv
  <2>2. /\ TrueState(T, d, Fingerprint(rec)) /\ TrueState(T, d, s)
        /\ Reached(rec.state, s.state)
    BY <2>1 DEF TrueTo, GenuineFull, At
  <2>3. T[d].live \in Nat /\ T[d].dead \in Nat
    BY DEF Truth
  <2>4. rec.state # "absent"
    BY <2>2 DEF Reached
  <2>5. rec.version >= s.version
    BY <2>2, <2>3, <2>4 DEF TrueState, Fingerprint, Reached
  <2>6. QED
    BY <2>4, <2>5 DEF Present
<1>2. QED
  BY <1>1, HistoryAlways, PTL

-----------------------------------------------------------------------------
(* Deliveries.  What a source is told by a receipt stays true at the         *)
(* destination, and what it is told by readiness does too: an inbound route  *)
(* leaves its revision active only to a later revision.                      *)

Holds(h, d, s, outcome) ==
  /\ At(h, d) # "absent" /\ Reached(At(h, d), s.state)
  /\ outcome = "committed" /\ "lose-body" \notin Disruption[h] => ledger[h].rec[d].body

DeliveredTo(r, d, s, outcome) ==
  \A h \in Home : ledger[h].inbox = Dst[r] => Holds(h, d, s, outcome)

Honest(x) == DeliveredTo(x.route, x.doc, x.signed, x.disposition)

\* At revision v of route r the destination is active, or it has moved on.
Ready(r, v) ==
  \A h \in Home : ledger[h].inbox = Dst[r] =>
    /\ ledger[h].route[r].revision >= v
    /\ ledger[h].route[r].revision = v => ledger[h].route[r].state = "active"

HonestMessage(m) ==
  /\ m.kind = "receipt" => m.receipt.route = m.route /\ Honest(m.receipt)
  /\ m.kind = "holdings" => /\ \A x \in m.receipts : x.route = m.route
                            /\ \A x \in CustodyOf(m) : Honest(x)
  /\ m.kind = "ready" => Ready(m.route, m.revision)

ConfirmedHonest(g, r, d) ==
  LET e == ledger[g].outbox[r][d] IN
  e.disposition = "confirmed" /\ ledger[g].inbox = Src[r] => DeliveredTo(r, d, e.signed, e.outcome)

ActiveReady(g, r) ==
  ledger[g].inbox = Src[r] /\ ledger[g].route[r].state = "active"
    => Ready(r, ledger[g].route[r].revision)

Deliveries ==
  /\ \A m \in wire : HonestMessage(m)
  /\ \A g \in Home, r \in Route, d \in Doc : ConfirmedHonest(g, r, d)
  /\ \A g \in Home, r \in Route : ActiveReady(g, r)

\* A step of home h as the other ends see it.
Steady(h) ==
  LET L == ledger[h]  K == ledger'[h] IN
  /\ Unmoved(h) /\ K.inbox = L.inbox
  /\ "lose-body" \notin Disruption[h] => BodiesKept(L, K)
  /\ \A r \in Route : Dst[r] = L.inbox =>
       \/ K.route[r] = L.route[r]
       \/ K.route[r].revision > L.route[r].revision
       \/ K.route[r].revision = L.route[r].revision /\ K.route[r].state = "active"
  /\ \A r \in Route : Src[r] = L.inbox /\ K.route[r].state = "active" =>
       K.route[r] = L.route[r] \/ Ready(r, K.route[r].revision)
  /\ \A r \in Route, d \in Doc :
       LET e == L.outbox[r][d]  f == K.outbox[r][d] IN
       Src[r] = L.inbox /\ f.disposition = "confirmed" =>
         \/ e.disposition = "confirmed" /\ f.signed = e.signed /\ f.outcome = e.outcome
         \/ DeliveredTo(r, d, f.signed, f.outcome)
  /\ \A m \in wire' : m \in wire \/ HonestMessage(m) \/ HonestMessage(m)'

\* What a step of one home must show for deliveries to hold after it.
LEMMA SteadyKeeps ==
  ASSUME TypeOK, TypeOK', Onwards, Deliveries, NEW h \in Home, Steady(h)
  PROVE  Deliveries'
<1>1. \A g \in Home : ledger'[g].inbox = ledger[g].inbox
  BY DEF Steady, Unmoved
<1>2. ASSUME NEW g \in Home, NEW d \in Doc, NEW s, NEW outcome, Holds(g, d, s, outcome)
      PROVE  Holds(g, d, s, outcome)'
  <2>1. At(g, d)' # "absent" /\ Reached(At(g, d)', s.state)
    <3>1. Reached(At(g, d)', At(g, d)) /\ At(g, d) # "absent" /\ Reached(At(g, d), s.state)
      BY <1>2 DEF Onwards, Holds
    <3>2. QED
      BY <3>1, ReachedTransitive DEF Reached
  <2>2. ASSUME outcome = "committed", "lose-body" \notin Disruption[g]
        PROVE  ledger'[g].rec[d].body
    <3>1. ledger[g].rec[d].body
      BY <1>2, <2>2 DEF Holds
    <3>2. QED
      BY <2>2, <3>1 DEF Steady, Unmoved, BodiesKept
  <2>3. QED
    BY <2>1, <2>2 DEF Holds
<1>3. ASSUME NEW r, NEW d \in Doc, NEW s, NEW outcome, DeliveredTo(r, d, s, outcome)
      PROVE  DeliveredTo(r, d, s, outcome)'
  BY <1>1, <1>2, <1>3 DEF DeliveredTo
<1>4. ASSUME NEW r \in Route, NEW v \in Nat, Ready(r, v) PROVE Ready(r, v)'
  <2> SUFFICES ASSUME NEW g \in Home, ledger'[g].inbox = Dst[r]
               PROVE  /\ ledger'[g].route[r].revision >= v
                      /\ ledger'[g].route[r].revision = v => ledger'[g].route[r].state = "active"
    BY DEF Ready
  <2>1. /\ ledger[g].route[r].revision >= v
        /\ ledger[g].route[r].revision = v => ledger[g].route[r].state = "active"
    BY <1>1, <1>4 DEF Ready
  <2>2. \/ ledger'[g].route[r] = ledger[g].route[r]
        \/ ledger'[g].route[r].revision > ledger[g].route[r].revision
        \/ /\ ledger'[g].route[r].revision = ledger[g].route[r].revision
           /\ ledger'[g].route[r].state = "active"
    BY <1>1 DEF Steady, Unmoved
  <2>3. ledger[g].route[r].revision \in Nat /\ ledger'[g].route[r].revision \in Nat
    BY DEF TypeOK, LedgerType
  <2>4. QED
    BY <2>1, <2>2, <2>3
<1>5. ASSUME NEW m \in wire' PROVE HonestMessage(m)'
  <2>1. CASE m \in wire \/ HonestMessage(m)
    <3>1. m \in Message /\ HonestMessage(m)
      BY <2>1 DEF TypeOK, Deliveries
    <3>2. m.kind = "receipt" => m.receipt.route = m.route /\ Honest(m.receipt)'
      <4> SUFFICES ASSUME m.kind = "receipt" PROVE m.receipt.route = m.route /\ Honest(m.receipt)'
        OBVIOUS
      <4>1. m.receipt.doc \in Doc
        BY <3>1, MessageKinds DEF ReceiptMessage, Receipt
      <4>2. QED
        BY <1>3, <3>1, <4>1 DEF HonestMessage, Honest
    <3>3. m.kind = "holdings" => \A x \in CustodyOf(m) : Honest(x)'
      <4> SUFFICES ASSUME m.kind = "holdings", NEW x \in CustodyOf(m) PROVE Honest(x)'
        OBVIOUS
      <4>1. x.doc \in Doc
        BY <3>1, MessageKinds DEF HoldingsMessage, Receipt, CustodyOf
      <4>2. QED
        BY <1>3, <3>1, <4>1 DEF HonestMessage, Honest
    <3>4. m.kind = "ready" => Ready(m.route, m.revision)'
      <4> SUFFICES ASSUME m.kind = "ready" PROVE Ready(m.route, m.revision)'
        OBVIOUS
      <4>1. m.route \in Route /\ m.revision \in Nat
        BY <3>1, MessageKinds DEF CutMessage
      <4>2. QED
        BY <1>4, <3>1, <4>1 DEF HonestMessage
    <3>5. QED
      BY <3>1, <3>2, <3>3, <3>4 DEF HonestMessage
  <2>2. CASE m \notin wire /\ ~HonestMessage(m)
    BY <2>2 DEF Steady
  <2>3. QED
    BY <2>1, <2>2
<1>6. ASSUME NEW g \in Home, NEW r \in Route, NEW d \in Doc PROVE ConfirmedHonest(g, r, d)'
  <2> DEFINE e == ledger[g].outbox[r][d]
             f == ledger'[g].outbox[r][d]
  <2> SUFFICES ASSUME f.disposition = "confirmed", ledger'[g].inbox = Src[r],
                      NEW k \in Home, ledger'[k].inbox = Dst[r]
               PROVE  /\ At(k, d)' # "absent" /\ Reached(At(k, d)', f.signed.state)
                      /\ f.outcome = "committed" /\ "lose-body" \notin Disruption[k] =>
                           ledger'[k].rec[d].body
    BY DEF ConfirmedHonest, DeliveredTo, Holds
  <2>1. \/ e.disposition = "confirmed" /\ f.signed = e.signed /\ f.outcome = e.outcome
        \/ DeliveredTo(r, d, f.signed, f.outcome)
    BY <1>1 DEF Steady, Unmoved
  <2>2. e.disposition = "confirmed" => DeliveredTo(r, d, e.signed, e.outcome)
    BY <1>1 DEF Deliveries, ConfirmedHonest
  <2> HIDE DEF e
  <2>3. DeliveredTo(r, d, f.signed, f.outcome)
    BY <2>1, <2>2
  <2>4. \A s, outcome : DeliveredTo(r, d, s, outcome) =>
          /\ At(k, d)' # "absent" /\ Reached(At(k, d)', s.state)
          /\ outcome = "committed" /\ "lose-body" \notin Disruption[k] => ledger'[k].rec[d].body
    <3> SUFFICES ASSUME NEW s, NEW outcome, DeliveredTo(r, d, s, outcome)
                 PROVE  Holds(k, d, s, outcome)'
      BY DEF Holds
    <3>1. Holds(k, d, s, outcome)
      BY <1>1 DEF DeliveredTo
    <3>2. QED
      BY <1>2, <3>1
  <2>5. QED
    BY <2>3, <2>4
<1>7. ASSUME NEW g \in Home, NEW r \in Route PROVE ActiveReady(g, r)'
  <2> DEFINE v == ledger'[g].route[r].revision
  <2> SUFFICES ASSUME ledger'[g].inbox = Src[r], ledger'[g].route[r].state = "active",
                      NEW k \in Home, ledger'[k].inbox = Dst[r]
               PROVE  /\ ledger'[k].route[r].revision >= v
                      /\ ledger'[k].route[r].revision = v => ledger'[k].route[r].state = "active"
    BY DEF ActiveReady, Ready
  <2>1. ledger'[g].route[r] = ledger[g].route[r] \/ Ready(r, v)
    BY <1>1 DEF Steady, Unmoved
  <2>2. Ready(r, v)
    BY <1>1, <2>1 DEF Deliveries, ActiveReady
  <2>3. v \in Nat
    BY DEF TypeOK, LedgerType
  <2>4. \A n \in Nat : Ready(r, n) =>
          /\ ledger'[k].route[r].revision >= n
          /\ ledger'[k].route[r].revision = n => ledger'[k].route[r].state = "active"
    BY <1>4 DEF Ready
  <2>5. QED
    BY <2>2, <2>3, <2>4
<1>8. QED
  BY <1>5, <1>6, <1>7 DEF Deliveries

\* A fork takes an identity no confirmation, active route or message names.
LEMMA ForkDeliveries ==
  ASSUME TypeOK, LedgersSound, Deliveries, NEW h \in Home, NEW i \in Inbox, ForkIdentity(h, i)
  PROVE  Deliveries'
<1> DEFINE K == Fork(ledger[h], i)
<1>1. /\ K.inbox = i /\ K.route = [r \in Route |-> [revision |-> 0, state |-> "none"]]
      /\ K.outbox = [r \in Route |-> [d \in Doc |-> NoEntry]]
  BY ForkAdvances DEF TypeOK
<1>2. Commit(h, K) /\ UNCHANGED wire /\ Fresh(i)
  BY DEF ForkIdentity
<1> HIDE DEF K
<1>3. ledger'[h] = K /\ Unmoved(h)
  BY <1>2, CommitMoves
<1>4. ASSUME NEW k \in Home, ledger'[k].inbox # i PROVE k # h /\ ledger'[k] = ledger[k]
  BY <1>1, <1>3, <1>4 DEF Unmoved
<1>5. ASSUME NEW r, NEW d, NEW s, NEW outcome, Dst[r] # i, DeliveredTo(r, d, s, outcome)
      PROVE  DeliveredTo(r, d, s, outcome)'
  BY <1>4, <1>5 DEF DeliveredTo, Holds, At
<1>6. ASSUME NEW r, NEW v, Dst[r] # i, Ready(r, v) PROVE Ready(r, v)'
  BY <1>4, <1>6 DEF Ready
<1>7. ASSUME NEW m \in wire PROVE HonestMessage(m)'
  <2>1. HonestMessage(m) /\ Dst[m.route] # i
    BY <1>2 DEF Deliveries, Fresh
  <2>2. m.kind = "receipt" => m.receipt.route = m.route /\ Honest(m.receipt)'
    BY <1>5, <2>1 DEF HonestMessage, Honest
  <2>3. m.kind = "holdings" => \A x \in m.receipts : x.route = m.route
    BY <2>1 DEF HonestMessage
  <2>4. m.kind = "holdings" => \A x \in CustodyOf(m) : Honest(x)'
    BY <1>5, <2>1, <2>3 DEF HonestMessage, Honest, CustodyOf
  <2>5. m.kind = "ready" => Ready(m.route, m.revision)'
    BY <1>6, <2>1 DEF HonestMessage
  <2>6. QED
    BY <2>2, <2>3, <2>4, <2>5 DEF HonestMessage
<1>8. ASSUME NEW g \in Home, NEW r \in Route, NEW d \in Doc PROVE ConfirmedHonest(g, r, d)'
  <2>1. CASE g = h
    BY <1>1, <1>3, <2>1 DEF ConfirmedHonest, NoEntry
  <2>2. CASE g # h
    <3> DEFINE e == ledger[g].outbox[r][d]
    <3>1. ledger'[g] = ledger[g]
      BY <1>3, <2>2 DEF Unmoved
    <3> SUFFICES ASSUME e.disposition = "confirmed", ledger[g].inbox = Src[r],
                        NEW k \in Home, ledger'[k].inbox = Dst[r]
                 PROVE  /\ At(k, d)' # "absent" /\ Reached(At(k, d)', e.signed.state)
                        /\ e.outcome = "committed" /\ "lose-body" \notin Disruption[k] =>
                             ledger'[k].rec[d].body
      BY <3>1 DEF ConfirmedHonest, DeliveredTo, Holds
    <3>2. Configured(ledger[g], r)
      BY SoundParses DEF LedgersSound, Parses, OutboxBound
    <3>3. k # h /\ ledger'[k] = ledger[k]
      BY <1>2, <1>4, <3>2 DEF Fresh
    <3>4. DeliveredTo(r, d, e.signed, e.outcome)
      BY DEF Deliveries, ConfirmedHonest
    <3> HIDE DEF e
    <3>5. QED
      BY <3>3, <3>4 DEF DeliveredTo, Holds, At
  <2>3. QED
    BY <2>1, <2>2
<1>9. ASSUME NEW g \in Home, NEW r \in Route PROVE ActiveReady(g, r)'
  <2>1. CASE g = h
    BY <1>1, <1>3, <2>1 DEF ActiveReady
  <2>2. CASE g # h
    <3>1. ledger'[g] = ledger[g]
      BY <1>3, <2>2 DEF Unmoved
    <3> DEFINE v == ledger[g].route[r].revision
    <3> SUFFICES ASSUME ledger[g].inbox = Src[r], ledger[g].route[r].state = "active",
                        NEW k \in Home, ledger'[k].inbox = Dst[r]
                 PROVE  /\ ledger'[k].route[r].revision >= v
                        /\ ledger'[k].route[r].revision = v => ledger'[k].route[r].state = "active"
      BY <3>1 DEF ActiveReady, Ready
    <3>2. k # h /\ ledger'[k] = ledger[k]
      BY <1>2, <1>4 DEF Configured, Fresh
    <3>3. QED
      BY <3>2 DEF Deliveries, ActiveReady, Ready
  <2>3. QED
    BY <2>1, <2>2
<1>10. QED
  BY <1>2, <1>7, <1>8, <1>9 DEF Deliveries

\* No way a home moves takes a copy back.
LEMMA MoveOnwards ==
  ASSUME NEW T \in Truth, TypeOK, TypeOK', TrueTo(T), NEW h \in Home, Moves(T, h)
  PROVE  Onwards
<1>1. ASSUME NEW U, TrueStep(T, U, h) PROVE Onwards
  BY <1>1 DEF TrueStep, Unmoved, Onwards, At, Reached
<1>2. CASE Adopting(T, h)
  BY <1>1, <1>2, AdoptingTrue
<1>3. CASE Signs(h)
  <2>1. PICK d \in Doc, v \in Nat :
          \/ Signing(h, d, [version |-> v, state |-> "live"]) /\ At(h, d) = "absent"
          \/ /\ Signing(h, d, [version |-> v, state |-> "deleted"])
             /\ At(h, d) = "live" /\ ledger[h].rec[d].version < v
    BY <1>3 DEF Signs
  <2>2. QED
    BY <1>1, <2>1, PublishTrue, DeleteTrue
<1>4. CASE \E i \in Inbox : Forking(h, i)
  BY <1>1, <1>4, ForkTrue
<1>5. QED
  BY <1>2, <1>3, <1>4 DEF Moves

\* A commit that only goes forward, with honest messages, is steady.
LEMMA FollowsSteady ==
  ASSUME TypeOK, NEW h \in Home, NEW K, Commit(h, K), Follows(ledger[h], K),
         "lose-body" \notin Disruption[h] => BodiesKept(ledger[h], K),
         \A m \in wire' : m \in wire \/ HonestMessage(m) \/ HonestMessage(m)'
  PROVE  Steady(h)
<1>1. ledger'[h] = K /\ Unmoved(h)
  BY CommitMoves
<1>2. QED
  BY <1>1 DEF Steady, Follows

\* So is no commit at all.
LEMMA IdleSteady ==
  ASSUME TypeOK, NEW h \in Home, UNCHANGED ledger, Deliveries,
         \A m \in wire' : m \in wire \/ HonestMessage(m) \/ HonestMessage(m)'
  PROVE  Steady(h)
BY DEF Steady, Unmoved, BodiesKept

\* What users, operators and crashes do, but for a fork.
LEMMA UsersSteady ==
  ASSUME Inv, LedgersServed, NEW h \in Home, Users(h)
  PROVE  Steady(h) \/ \E i \in Inbox : ForkIdentity(h, i)
<1>1. /\ ledger[h] \in LedgerType /\ Sound(ledger[h]) /\ AllDelivered(ledger[h]) /\ TypeOK
  BY DEF Inv, TypeOK, LedgersSound, LedgersServed, Served
<1>2. ASSUME NEW K, Commit(h, K), UNCHANGED wire, Follows(ledger[h], K),
             "lose-body" \notin Disruption[h] => BodiesKept(ledger[h], K)
      PROVE  Steady(h)
  BY <1>1, <1>2, FollowsSteady
<1>3. ASSUME NEW d \in Doc, PublishDocument(h, d) PROVE Steady(h)
  BY <1>1, <1>2, <1>3, PublishAdvances DEF PublishDocument, CanPublish, Advances
<1>4. ASSUME NEW d \in Doc, DeleteDocument(h, d) PROVE Steady(h)
  BY <1>1, <1>2, <1>4, DeleteAdvances DEF DeleteDocument, CanDelete, Present, Advances
<1>5. ASSUME NEW d \in Doc, LoseBody(h, d) PROVE Steady(h)
  <2> DEFINE rec == [ledger[h].rec[d] EXCEPT !.body = FALSE]
             K == [ledger[h] EXCEPT !.rec[d] = rec]
  <2>1. ledger[h].rec[d] \in Record
    BY <1>1 DEF LedgerType
  <2>2. rec \in Record /\ rec.version = ledger[h].rec[d].version
        /\ rec.state = ledger[h].rec[d].state /\ rec.from = ledger[h].rec[d].from
    BY <2>1 DEF Record
  <2>3. Commit(h, K) /\ UNCHANGED wire /\ "lose-body" \in Disruption[h]
    BY <1>1, <1>5 DEF LoseBody, LedgerType
  <2> HIDE DEF rec
  <2>4. Follows(ledger[h], K)
    BY <1>1, <2>2, SameStateAdvances
  <2>5. QED
    BY <1>2, <2>3, <2>4
<1>6. ASSUME NEW d \in Doc, NEW b \in BOOLEAN, SetSuppressed(h, d, b) PROVE Steady(h)
  BY <1>1, <1>2, <1>6, SuppressAdvances DEF SetSuppressed, Advances
<1>7. ASSUME NEW r \in Route, NEW state \in {"reconnecting", "detached"},
             ConfigureRoute(h, r, state)
      PROVE  Steady(h)
  BY <1>1, <1>2, <1>7, ConfigureAdvances DEF ConfigureRoute, Advances
<1>8. ASSUME NEW r \in Route, RevokeRoute(h, r) PROVE Steady(h)
  BY <1>1, <1>2, <1>8, RevokeAdvances DEF RevokeRoute, Advances
<1>9. ASSUME NEW r \in Route, RetryRoute(h, r) PROVE Steady(h)
  BY <1>1, <1>2, <1>9, RetryAdvances DEF RetryRoute, Advances
<1>10. ASSUME NEW r \in Route, NEW d \in Doc, NEW b \in BOOLEAN, FailAttempt(h, r, d, b)
       PROVE  Steady(h)
  BY <1>1, <1>2, <1>10, UpdateAttemptAdvances DEF FailAttempt, Advances
<1>11. ASSUME AuditConflict(h) PROVE Steady(h)
  BY <1>1, <1>2, <1>11, QuarantineAdvances DEF AuditConflict, Advances
<1>12. ASSUME QuarantineRestored(h) PROVE Steady(h)
  <2> DEFINE K == QuarantineRestore(ledger[h])
             Q == Quarantine(ledger[h])
  <2>1. /\ K.inbox = ledger[h].inbox /\ K.rec = Q.rec /\ K.route = Q.route
        /\ K.outbox = Q.outbox /\ Follows(ledger[h], Q) /\ BodiesKept(ledger[h], Q)
    BY <1>1, QuarantineRestoreAdvances
  <2>2. Commit(h, K) /\ UNCHANGED wire
    BY <1>12 DEF QuarantineRestored
  <2> HIDE DEF K, Q
  <2>3. ledger'[h] = K /\ Unmoved(h)
    BY <1>1, <2>2, CommitMoves
  <2>4. QED
    BY <2>1, <2>2, <2>3 DEF Steady, Follows, BodiesKept
<1>13. QED
  BY <1>3, <1>4, <1>5, <1>6, <1>7, <1>8, <1>9, <1>10, <1>11, <1>12 DEF Users

\* A request tells nothing of a destination.
LEMMA SendsSteady ==
  ASSUME TypeOK, Deliveries, NEW h \in Home, Sends(h) PROVE Steady(h)
<1>1. ASSUME NEW m, m.kind \in {"offer", "manifest", "query"}, Request(m), UNCHANGED ledger
      PROVE  Steady(h)
  <2>1. HonestMessage(m)
    BY <1>1 DEF HonestMessage
  <2>2. QED
    BY <1>1, <2>1, IdleSteady DEF Request
<1>2. ASSUME NEW r \in Route, NEW d \in Doc, OfferTerminal(h, r, d) \/ OfferState(h, r, d)
      PROVE  Steady(h)
  <2> DEFINE m == StateMsg("offer", "push", r, Rev(h, r), d, Fingerprint(ledger[h].rec[d]))
  <2>1. m.kind = "offer"
    BY DEF StateMsg
  <2>2. Request(m) /\ UNCHANGED ledger
    BY <1>2 DEF OfferTerminal, OfferState
  <2> HIDE DEF m
  <2>3. QED
    BY <1>1, <2>1, <2>2
<1>3. ASSUME NEW r \in Route, NEW mode \in Modes, SendManifest(h, r, mode) PROVE Steady(h)
  BY <1>1, <1>3 DEF SendManifest, CutMsg
<1>4. ASSUME NEW r \in Route, QueryHoldings(h, r) PROVE Steady(h)
  <2> DEFINE m == [kind |-> "query", route |-> r, revision |-> Rev(h, r),
                   cut |-> InventoryCut(ledger[h], r)]
  <2>1. m.kind = "query" /\ Request(m) /\ UNCHANGED ledger
    BY <1>4 DEF QueryHoldings
  <2> HIDE DEF m
  <2>2. QED
    BY <1>1, <2>1
<1>5. QED
  BY <1>2, <1>3, <1>4 DEF Sends

\* Only one home is the destination, so what it holds is what was delivered.
LEMMA HereDelivered ==
  ASSUME Identities, NEW h \in Home, Unmoved(h), ledger'[h].inbox = ledger[h].inbox,
         NEW r, Dst[r] = ledger[h].inbox, NEW d, NEW s, NEW outcome
  PROVE  /\ Holds(h, d, s, outcome) => DeliveredTo(r, d, s, outcome)
         /\ Holds(h, d, s, outcome)' => DeliveredTo(r, d, s, outcome)'
<1>1. \A k \in Home : ledger[k].inbox = Dst[r] => k = h
  BY DEF Identities
<1>2. \A k \in Home : ledger'[k].inbox = Dst[r] => k = h
  BY <1>1 DEF Unmoved
<1>3. Holds(h, d, s, outcome) => DeliveredTo(r, d, s, outcome)
  BY <1>1 DEF DeliveredTo
<1>4. Holds(h, d, s, outcome)' => DeliveredTo(r, d, s, outcome)'
  BY <1>2 DEF DeliveredTo
<1>5. QED
  BY <1>3, <1>4

\* What a destination answers to a state it holds now is so.
LEMMA AnswerSteady ==
  ASSUME Inv, LedgersServed, Identities, NEW h \in Home, NEW m \in StateMessage,
         m.kind \in {"offer", "body"}, NEW staged \in BOOLEAN, SentTo(h, m), Answer(h, m, staged)
  PROVE  Steady(h)
<1> DEFINE L == ledger[h]
           K == Apply(L, m.route, m.doc, m.signed, staged)
           rec == AppliedRecord(L, m.route, m.doc, m.signed, staged)
           x == ReceiptOf(L, m.route, m.doc, m.signed, staged)
           verdict == Verdict(L, m.route, m.doc, m.signed, staged)
           wanted == [m EXCEPT !.kind = "wanted"]
           told == ReceiptMsg(m.route, m.revision, m.signed, x)
<1>1. L \in LedgerType /\ Sound(L) /\ AllDelivered(L) /\ TypeOK
  BY DEF Inv, TypeOK, LedgersSound, LedgersServed, Served
<1>2. /\ m.route \in Route /\ m.doc \in Doc /\ m.signed \in OriginState
      /\ Configured(L, m.route) /\ Dst[m.route] = L.inbox
  BY SentEnds DEF StateMessage
<1>3. Commit(h, K)
  BY DEF Answer
<1>4. /\ Follows(L, K) /\ BodiesKept(L, K) /\ Fingerprint(K.rec[m.doc]) = Fingerprint(rec)
      /\ rec.body => K.rec[m.doc].body
  BY <1>1, <1>2, ApplyAdvances DEF Advances
<1>5. \/ \A y \in wire' : y \in wire \/ y = wanted
      \/ verdict \in {"accept", "superseded"} /\ \A y \in wire' : y \in wire \/ y = told
      \/ wire' \subseteq wire
  BY DEF Answer, Reply, Done
<1>6. verdict \in {"accept", "superseded"} =>
        /\ x.route = m.route /\ x.doc = m.doc /\ x.signed = Fingerprint(rec)
        /\ rec.state # "absent" /\ (x.disposition = "committed" => rec.body)
  BY <1>1, <1>2, ReceiptOfHonest
<1>7. wanted.kind = "wanted"
  BY DEF StateMessage
<1>8. told.kind = "receipt" /\ told.receipt = x /\ told.route = m.route
  BY DEF ReceiptMsg
<1>9. ledger'[h] = K /\ Unmoved(h) /\ K.inbox = L.inbox
  BY <1>1, <1>3, <1>4, CommitMoves DEF Follows
<1> HIDE DEF K, rec, x, wanted, told, verdict
<1>10. HonestMessage(wanted)
  BY <1>7 DEF HonestMessage
<1>11. ASSUME verdict \in {"accept", "superseded"}, NEW y, y = told PROVE HonestMessage(y)'
  <2>1. \A s, outcome : Holds(h, m.doc, s, outcome)' => DeliveredTo(m.route, m.doc, s, outcome)'
    BY <1>2, <1>9, HereDelivered
  <2>2. ASSUME NEW s, NEW outcome, s = x.signed, outcome = x.disposition
        PROVE  Holds(h, m.doc, s, outcome)'
    BY <1>4, <1>6, <1>9, <1>11, <2>2 DEF Holds, At, Reached, Fingerprint
  <2>3. DeliveredTo(m.route, m.doc, y.receipt.signed, y.receipt.disposition)'
    BY <1>8, <1>11, <2>1, <2>2
  <2>4. y.kind = "receipt" /\ y.receipt.route = y.route /\ Honest(y.receipt)'
    BY <1>6, <1>8, <1>11, <2>3 DEF Honest
  <2>5. QED
    BY <2>4 DEF HonestMessage
<1>12. ASSUME NEW y \in wire' PROVE y \in wire \/ HonestMessage(y) \/ HonestMessage(y)'
  BY <1>5, <1>10, <1>11
<1>13. QED
  BY <1>1, <1>3, <1>4, <1>12, FollowsSteady

\* What a home makes of a message.
LEMMA HandlesSteady ==
  ASSUME Inv, LedgersServed, Identities, Deliveries, NEW h \in Home, NEW m \in wire,
         Handles(h, m)
  PROVE  Steady(h)
<1>1. /\ ledger[h] \in LedgerType /\ Sound(ledger[h]) /\ AllDelivered(ledger[h]) /\ TypeOK
      /\ m \in Message /\ HonestMessage(m)
  BY DEF Inv, TypeOK, LedgersSound, LedgersServed, Served, Deliveries
<1>2. ASSUME NEW K, Commit(h, K), Advances(ledger[h], K),
             \A y \in wire' : y \in wire \/ HonestMessage(y) \/ HonestMessage(y)'
      PROVE  Steady(h)
  BY <1>1, <1>2, FollowsSteady DEF Advances
<1>3. ASSUME SendBody(h, m) PROVE Steady(h)
  <2>1. m \in StateMessage /\ UNCHANGED ledger
    BY <1>1, <1>3, MessageKinds DEF SendBody
  <2>2. HonestMessage([m EXCEPT !.kind = "body"])
    BY <2>1 DEF HonestMessage, StateMessage
  <2>3. QED
    BY <1>1, <1>3, <2>1, <2>2, IdleSteady DEF SendBody, Reply
<1>4. ASSUME ActivateRoute(h, m) PROVE Steady(h)
  <2> DEFINE K == ActivateOutbound(ledger[h], m.route)
             active == [m EXCEPT !.kind = "active"]
  <2>1. m \in CutMessage /\ m.kind = "ready"
    BY <1>1, <1>4, MessageKinds DEF ActivateRoute
  <2>2. /\ m.route \in Route /\ Live(ledger[h], m.route) /\ Src[m.route] = ledger[h].inbox
        /\ ledger[h].route[m.route].revision = m.revision
    BY <1>4, <2>1, SentEnds DEF ActivateRoute, CutMessage
  <2>3. /\ K.inbox = ledger[h].inbox /\ K.rec = ledger[h].rec
        /\ K.route[m.route].revision = ledger[h].route[m.route].revision
        /\ K.route[m.route].state = "active"
        /\ \A q \in Route : q # m.route => K.route[q] = ledger[h].route[q]
        /\ \A q \in Route, d \in Doc :
             K.outbox[q][d].disposition = "confirmed" =>
               /\ ledger[h].outbox[q][d].disposition = "confirmed"
               /\ K.outbox[q][d].signed = ledger[h].outbox[q][d].signed
               /\ K.outbox[q][d].outcome = ledger[h].outbox[q][d].outcome
    BY <1>1, <2>2, ActivateOutboundAdvances
  <2>4. active.kind = "active"
    BY <2>1 DEF CutMessage
  <2>5. Commit(h, K) /\ \A y \in wire' : y \in wire \/ y = active
    BY <1>4 DEF ActivateRoute, Reply, Done
  <2> HIDE DEF K, active
  <2>6. ledger'[h] = K /\ Unmoved(h)
    BY <1>1, <2>5, CommitMoves
  <2>7. HonestMessage(active)
    BY <2>4 DEF HonestMessage
  <2>8. Ready(m.route, m.revision)
    BY <1>1, <2>1 DEF HonestMessage
  <2>9. \A r \in Route : Dst[r] = ledger[h].inbox => K.route[r] = ledger[h].route[r]
    BY <2>2, <2>3, LedgerAssumption
  <2>10. \A r \in Route :
           Src[r] = ledger[h].inbox /\ K.route[r].state = "active" =>
             K.route[r] = ledger[h].route[r] \/ Ready(r, K.route[r].revision)
    BY <2>2, <2>3, <2>8
  <2>11. \A y \in wire' : y \in wire \/ HonestMessage(y)
    BY <2>5, <2>7
  <2>12. QED
    BY <2>3, <2>6, <2>9, <2>10, <2>11 DEF Steady, BodiesKept
<1>5. ASSUME Receive(h, m), Done(m)
      PROVE  /\ Commit(h, StoreReceipt(ledger[h], m.receipt)) => Steady(h)
             /\ Commit(h, Acknowledge(ledger[h], m.receipt)) => Steady(h)
  <2> DEFINE r == m.route
             x == m.receipt
             K == Acknowledge(ledger[h], m.receipt)
  <2>1. m \in ReceiptMessage /\ m.kind = "receipt"
    BY <1>1, <1>5, MessageKinds DEF Receive
  <2>2. /\ r \in Route /\ x \in Receipt /\ Src[r] = ledger[h].inbox
        /\ CanAcknowledge(ledger[h], r, x)
    BY <1>5, <2>1, SentEnds DEF Receive, ReceiptMessage
  <2>3. \A y \in wire' : y \in wire
    BY <1>5 DEF Done
  <2>4. Advances(ledger[h], StoreReceipt(ledger[h], x))
    BY <1>1, <2>2, ReceiptAdvances
  <2>5. /\ K.inbox = ledger[h].inbox /\ K.rec = ledger[h].rec /\ K.route = ledger[h].route
        /\ K.outbox[r][x.doc].signed = x.signed /\ K.outbox[r][x.doc].outcome = x.disposition
        /\ \A q \in Route, d \in Doc :
             q # r \/ d # x.doc => K.outbox[q][d] = ledger[h].outbox[q][d]
    BY <1>1, <2>2, ReceiptAdvances
  <2>6. DeliveredTo(r, x.doc, x.signed, x.disposition)
    BY <1>1, <2>1 DEF HonestMessage, Honest
  <2>7. ASSUME Commit(h, K) PROVE Steady(h)
    <3> HIDE DEF K, r, x
    <3>1. ledger'[h] = K /\ Unmoved(h)
      BY <1>1, <2>7, CommitMoves
    <3>2. ASSUME NEW q \in Route, NEW d \in Doc, K.outbox[q][d].disposition = "confirmed"
          PROVE  \/ /\ ledger[h].outbox[q][d].disposition = "confirmed"
                    /\ K.outbox[q][d].signed = ledger[h].outbox[q][d].signed
                    /\ K.outbox[q][d].outcome = ledger[h].outbox[q][d].outcome
                 \/ DeliveredTo(q, d, K.outbox[q][d].signed, K.outbox[q][d].outcome)
      BY <2>5, <2>6, <3>2
    <3>3. QED
      BY <2>3, <2>5, <3>1, <3>2 DEF Steady, BodiesKept
  <2>8. QED
    BY <1>2, <2>3, <2>4, <2>7
<1>6. ASSUME ObserveReceipt(h, m) PROVE Steady(h)
  <2>1. m \in ReceiptMessage
    BY <1>1, <1>6, MessageKinds DEF ObserveReceipt
  <2>2. m.receipt.doc \in Doc /\ m.receipt.signed \in OriginState
        /\ m.receipt.signed.state = "deleted"
    BY <1>6, <2>1 DEF ObserveReceipt, CanObserve, ReceiptMessage, Receipt
  <2>3. QED
    BY <1>1, <1>2, <1>6, <2>2, ObserveOutboundAdvances DEF ObserveReceipt, Done
<1>7. ASSUME NEW d \in Doc, ObserveHolding(h, m, d) PROVE Steady(h)
  <2> DEFINE reply == [m EXCEPT !.left = @ \ {d}]
  <2>1. m \in HoldingsMessage /\ m.kind = "holdings"
    BY <1>1, <1>7, MessageKinds DEF ObserveHolding
  <2>2. m.holding[d].signed \in OriginState /\ m.holding[d].signed.state = "deleted"
    BY <1>7, <2>1 DEF ObserveHolding, CanObserve, HoldingsMessage, Holding
  <2>3. /\ reply.kind = "holdings" /\ reply.receipts = m.receipts /\ reply.route = m.route
        /\ reply.cut = m.cut /\ reply.holding = m.holding
    BY <2>1 DEF HoldingsMessage
  <2>4. Commit(h, ObserveOutbound(ledger[h], d, m.holding[d].signed)) /\ Reply(m, reply)
    BY <1>7 DEF ObserveHolding
  <2> HIDE DEF reply
  <2>5. HonestMessage(reply)
    BY <1>1, <2>1, <2>3 DEF HonestMessage, CustodyOf
  <2>6. QED
    BY <1>1, <1>2, <2>2, <2>4, <2>5, ObserveOutboundAdvances DEF Reply
<1>8. ASSUME ReconcileHeld(h, m) PROVE Steady(h)
  <2> DEFINE asked == {d \in Doc : m.cut[d].state # "absent"}
             K == ReconcileHoldings(ledger[h], m.route, asked, m.holding, m.incarnation)
  <2>1. m \in HoldingsMessage /\ m.kind = "holdings"
    BY <1>1, <1>8, MessageKinds DEF ReconcileHeld
  <2>2. m.route \in Route /\ m.incarnation \in Nat /\ m.holding \in [Doc -> Holding]
    BY <2>1 DEF HoldingsMessage
  <2>3. asked \in SUBSET Doc
    OBVIOUS
  <2>4. Commit(h, K)
    BY <1>8 DEF ReconcileHeld
  <2>5. wire' = (wire \ {m}) \cup {ReceiptMsg(m.route, m.revision, x.signed, x) : x \in CustodyOf(m)}
    BY <1>8 DEF ReconcileHeld
  <2> HIDE DEF asked
  <2>6. Advances(ledger[h], K)
    BY <1>1, <2>2, <2>3, ReconcileHoldingsAdvances
  <2> HIDE DEF K
  <2>7. ASSUME NEW x \in CustodyOf(m)
        PROVE  HonestMessage(ReceiptMsg(m.route, m.revision, x.signed, x))
    <3>1. Honest(x) /\ x.route = m.route
      BY <1>1, <2>1 DEF HonestMessage, CustodyOf
    <3>2. QED
      BY <3>1 DEF HonestMessage, ReceiptMsg
  <2>8. QED
    BY <1>2, <2>4, <2>5, <2>6, <2>7
<1>9. ASSUME ReceiveOffer(h, m) \/ ReceiveBody(h, m) PROVE Steady(h)
  <2>1. m \in StateMessage
    BY <1>1, <1>9, MessageKinds DEF ReceiveOffer, ReceiveBody
  <2>2. QED
    BY <1>9, <2>1, AnswerSteady DEF ReceiveOffer, ReceiveBody
<1>10. ASSUME NEW d \in Doc, ApplyPageTerminal(h, m, d) \/ PullDocument(h, m, d)
       PROVE  Steady(h)
  <2> DEFINE K == Apply(ledger[h], m.route, d, m.cut[d], FALSE)
             ask == StateMsg("wanted", "pull", m.route, m.revision, d, m.cut[d])
  <2>1. m \in CutMessage
    BY <1>1, <1>10, MessageKinds DEF ApplyPageTerminal, PullDocument
  <2>2. m.route \in Route /\ m.cut[d] \in OriginState
    BY <2>1 DEF CutMessage, Cut
  <2>3. Configured(ledger[h], m.route) /\ Dst[m.route] = ledger[h].inbox
    BY <1>10, SentEnds DEF ApplyPageTerminal, PullDocument
  <2>4. Commit(h, K) /\ \A y \in wire' : y \in wire \/ y = ask
    BY <1>10 DEF ApplyPageTerminal, PullDocument
  <2>5. Advances(ledger[h], K)
    BY <1>1, <2>2, <2>3, ApplyAdvances
  <2>6. ask.kind = "wanted"
    BY DEF StateMsg
  <2> HIDE DEF K, ask
  <2>7. HonestMessage(ask)
    BY <2>6 DEF HonestMessage
  <2>8. QED
    BY <1>2, <2>4, <2>5, <2>7
<1>11. ASSUME FinishInventory(h, m) PROVE Steady(h)
  <2> DEFINE K == CompleteInventory(ledger[h], m.route, m.cut)
             ready == [m EXCEPT !.kind = "ready"]
  <2>1. m \in CutMessage
    BY <1>1, <1>11, MessageKinds DEF FinishInventory
  <2>2. /\ m.route \in Route /\ m.cut \in Cut /\ Live(ledger[h], m.route)
        /\ Dst[m.route] = ledger[h].inbox
        /\ ledger[h].route[m.route].revision = m.revision
    BY <1>11, <2>1, SentEnds DEF CutMessage, FinishInventory
  <2>3. Reconnects(ledger[h], K, m.route, m.cut) /\ BodiesKept(ledger[h], K)
    BY <1>1, <2>2, CompleteInventoryAdvances
  <2>4. Commit(h, K) /\ \A y \in wire' : y \in wire \/ y = ready
    BY <1>11 DEF FinishInventory, Reply, Done
  <2>5. ready.kind = "ready" /\ ready.route = m.route /\ ready.revision = m.revision
    BY <2>1 DEF CutMessage
  <2> HIDE DEF K, ready
  <2>6. ledger'[h] = K /\ Unmoved(h)
    BY <1>1, <2>4, CommitMoves
  <2>7. K.inbox = ledger[h].inbox
    BY <2>3 DEF Reconnects
  <2>8. \A k \in Home : ledger'[k].inbox = Dst[m.route] => k = h
    BY <2>2, <2>6, <2>7 DEF Unmoved, Identities
  <2>9. /\ K.route[m.route].revision >= m.revision
        /\ K.route[m.route].revision = m.revision => K.route[m.route].state = "active"
    <3>1. ledger[h].route[m.route].revision \in Nat /\ K.route[m.route].revision \in Nat
      BY <1>1, <2>2, CompleteInventoryType DEF LedgerType, K
    <3>2. QED
      BY <2>2, <2>3, <3>1 DEF Reconnects
  <2>10. Ready(m.route, m.revision)'
    BY <2>6, <2>8, <2>9 DEF Ready
  <2>11. ASSUME NEW y \in wire' PROVE y \in wire \/ HonestMessage(y)'
    BY <2>4, <2>5, <2>10 DEF HonestMessage
  <2>12. \A r \in Route : Dst[r] = ledger[h].inbox =>
           \/ K.route[r] = ledger[h].route[r]
           \/ K.route[r].revision > ledger[h].route[r].revision
           \/ K.route[r].revision = ledger[h].route[r].revision /\ K.route[r].state = "active"
    BY <2>3 DEF Reconnects
  <2>13. \A r \in Route : Src[r] = ledger[h].inbox /\ K.route[r].state = "active" =>
           K.route[r] = ledger[h].route[r]
    BY <2>2, <2>3, LedgerAssumption DEF Reconnects
  <2>14. QED
    BY <2>3, <2>6, <2>11, <2>12, <2>13 DEF Steady, Reconnects
<1>12. ASSUME FinishReconciliation(h, m) PROVE Steady(h)
  <2> DEFINE K == CompleteReconciliation(ledger[h], m.route, m.cut)
  <2>1. m \in CutMessage
    BY <1>1, <1>12, MessageKinds DEF FinishReconciliation
  <2>2. m.route \in Route /\ m.cut \in Cut
    BY <2>1 DEF CutMessage
  <2>3. /\ K.inbox = ledger[h].inbox /\ K.rec = ledger[h].rec /\ K.route = ledger[h].route
        /\ K.outbox = ledger[h].outbox
    BY <1>1, <2>2, CompleteReconciliationAdvances
  <2>4. Commit(h, K) /\ \A y \in wire' : y \in wire
    BY <1>12 DEF FinishReconciliation, Done
  <2> HIDE DEF K
  <2>5. ledger'[h] = K /\ Unmoved(h)
    BY <1>1, <2>4, CommitMoves
  <2>6. QED
    BY <2>3, <2>4, <2>5 DEF Steady, BodiesKept
<1>13. ASSUME AnswerQuery(h, m) PROVE Steady(h)
  <2> DEFINE asked == {d \in Doc : m.cut[d].state # "absent"}
             reply == [kind |-> "holdings", route |-> m.route, revision |-> m.revision,
                       cut |-> m.cut, holding |-> [d \in Doc |-> HoldingOf(ledger[h].rec[d])],
                       receipts |-> UNION {Custody(ledger[h], m.route, d) : d \in asked},
                       incarnation |-> ledger[h].incarnation,
                       left |-> {d \in asked : /\ ledger[h].rec[d].state = "deleted"
                                               /\ Fingerprint(ledger[h].rec[d]) # m.cut[d]}]
  <2>1. Reply(m, reply) /\ UNCHANGED ledger /\ SentTo(h, m)
    BY <1>13 DEF AnswerQuery
  <2>2. /\ reply.kind = "holdings" /\ reply.cut = m.cut /\ reply.route = m.route
        /\ \A d \in Doc : reply.holding[d].available = Available(ledger[h].rec[d])
        /\ reply.receipts = UNION {Custody(ledger[h], m.route, d) : d \in asked}
    BY DEF HoldingOf
  <2>3. ASSUME NEW x \in reply.receipts
        PROVE  /\ x.route = m.route /\ x.doc \in Doc /\ m.cut[x.doc].state # "absent"
               /\ x.signed.state = At(h, x.doc)
    <3>1. PICK d \in asked : x \in Custody(ledger[h], m.route, d)
      BY <2>2
    <3>2. x.route = m.route /\ x.doc = d /\ x.signed = Fingerprint(ledger[h].rec[d])
      BY <3>1 DEF Custody
    <3>3. d \in Doc /\ m.cut[d].state # "absent" /\ x.signed.state = ledger[h].rec[d].state
      BY <3>2 DEF Fingerprint
    <3>4. QED
      BY <3>2, <3>3 DEF At
  <2> HIDE DEF reply
  <2>4. ASSUME NEW x \in CustodyOf(reply) PROVE Honest(x)
    <3>1. /\ x \in reply.receipts /\ x.signed = m.cut[x.doc]
          /\ x.disposition # "committed" \/ Available(ledger[h].rec[x.doc])
      BY <2>2, <2>3 DEF CustodyOf
    <3>2. Holds(h, x.doc, x.signed, x.disposition)
      <4>1. x.signed.state = At(h, x.doc) /\ At(h, x.doc) # "absent"
        BY <2>3, <3>1
      <4>2. QED
        BY <3>1, <4>1 DEF Holds, Reached, Available
    <3>3. Dst[m.route] = ledger[h].inbox
      BY <2>1, SentEnds
    <3>4. \A k \in Home : ledger[k].inbox = Dst[m.route] => k = h
      BY <3>3 DEF Identities
    <3>5. QED
      BY <2>3, <3>1, <3>2, <3>4 DEF Honest, DeliveredTo
  <2>5. HonestMessage(reply)
    BY <2>2, <2>3, <2>4 DEF HonestMessage
  <2>6. QED
    BY <1>1, <2>1, <2>5, IdleSteady DEF Reply
<1>14. QED
  BY <1>3, <1>4, <1>5, <1>6, <1>7, <1>8, <1>9, <1>10, <1>11, <1>12, <1>13
     DEF Handles, AcknowledgeReceipt, CrashAfterReceipt

\* Nothing was told yet.
LEMMA InitDelivered == Init => Deliveries
<1> SUFFICES ASSUME Init PROVE Deliveries
  OBVIOUS
<1>1. /\ wire = {}
      /\ \A h \in Home : /\ ledger[h].route = [r \in Route |-> [revision |-> 0, state |-> "none"]]
                         /\ ledger[h].outbox = [r \in Route |-> [d \in Doc |-> NoEntry]]
  BY DEF Init, NewLedger
<1>2. ASSUME NEW g \in Home, NEW r \in Route
      PROVE  /\ ledger[g].route[r].state = "none"
             /\ \A d \in Doc : ledger[g].outbox[r][d].disposition = "none"
  BY <1>1 DEF NoEntry
<1>3. QED
  BY <1>1, <1>2 DEF Deliveries, ConfirmedHonest, ActiveReady

\* Every step keeps what was told of a destination true.
LEMMA StepDelivered == HistoryInv /\ Deliveries /\ [Next]_vars => Deliveries'
<1> SUFFICES ASSUME HistoryInv, Deliveries, [Next]_vars PROVE Deliveries'
  OBVIOUS
<1>1. Inv /\ LedgersServed /\ LedgersSound /\ TypeOK
  BY DEF HistoryInv, Inv
<1>2. TypeOK'
  BY <1>1, StepType
<1>3. PICK T \in Truth : TrueTo(T)
  BY DEF HistoryInv
<1>4. Identities
  BY <1>3 DEF TrueTo
<1>5. ASSUME UNCHANGED ledger, wire' \subseteq wire PROVE Deliveries'
  BY <1>5 DEF Deliveries, HonestMessage, Honest, DeliveredTo, Holds, At, Ready,
              ConfirmedHonest, ActiveReady
<1>6. ASSUME NEW h \in Home, Users(h) \/ Sends(h) \/ \E m \in wire : Handles(h, m)
      PROVE  Deliveries'
  <2>1. Moves(T, h)
    BY <1>1, <1>3, <1>6, UsersMove, SendsMove, HandlesMove DEF Moves
  <2>2. Onwards
    BY <1>1, <1>2, <1>3, <2>1, MoveOnwards
  <2>3. Steady(h) \/ \E i \in Inbox : ForkIdentity(h, i)
    BY <1>1, <1>4, <1>6, UsersSteady, SendsSteady, HandlesSteady
  <2>4. CASE Steady(h)
    BY <1>1, <1>2, <2>2, <2>4, SteadyKeeps
  <2>5. CASE \E i \in Inbox : ForkIdentity(h, i)
    BY <1>1, <2>5, ForkDeliveries
  <2>6. QED
    BY <2>3, <2>4, <2>5
<1>7. CASE UNCHANGED vars
  BY <1>5, <1>7 DEF vars
<1>8. CASE Next
  BY <1>5, <1>6, <1>8 DEF Next, Lose, Done
<1>9. QED
  BY <1>7, <1>8

\* The inductive invariant with the deliveries.
LEMMA DeliveredAlways == Spec => [](HistoryInv /\ Deliveries)
<1>1. Init => HistoryInv /\ Deliveries
  BY InitType, InitSound, InitServed, InitTrue, InitDelivered DEF HistoryInv, Inv
<1>2. HistoryInv /\ Deliveries /\ [Next]_vars => (HistoryInv /\ Deliveries)'
  BY StepTrue, StepDelivered
<1>3. QED
  BY <1>1, <1>2, PTL DEF Spec

\* An obligation is confirmed only when the destination holds that state or a
\* later one, with its body when it was committed (`acknowledge`): nobody is
\* told "delivered" of a document that is not there.
THEOREM ConfirmedIsHeldAlways == Spec => []ConfirmedIsHeld
<1>1. HistoryInv /\ Deliveries => ConfirmedIsHeld
  <2> SUFFICES ASSUME HistoryInv, Deliveries,
                      NEW g \in Home, NEW h \in Home, NEW r \in Route, NEW d \in Doc,
                      CurrentEntry(ledger[g], r, d).disposition = "confirmed",
                      ledger[g].inbox = Src[r], ledger[h].inbox = Dst[r]
               PROVE  LET e == CurrentEntry(ledger[g], r, d)  held == ledger[h].rec[d] IN
                      /\ held.state # "absent" /\ held.version >= e.signed.version
                      /\ e.signed.state = "deleted" => held.state = "deleted"
                      /\ e.outcome = "committed" /\ "lose-body" \notin Disruption[h] => held.body
    BY DEF ConfirmedIsHeld
  <2> DEFINE e == ledger[g].outbox[r][d]
             rec == ledger[h].rec[d]
  <2>1. CurrentEntry(ledger[g], r, d) = e /\ e.disposition = "confirmed"
    BY DEF CurrentEntry, NoEntry
  <2>2. Holds(h, d, e.signed, e.outcome)
    BY <2>1 DEF Deliveries, ConfirmedHonest, DeliveredTo
  <2>3. PICK T \in Truth : TrueTo(T)
    BY DEF HistoryInv
  <2>4. e.signed = Fingerprint(ledger[g].rec[d])
    BY <2>1, SoundParses DEF HistoryInv, Inv, LedgersSound, Parses, OutboxBound
  <2>5. TrueState(T, d, e.signed) /\ TrueState(T, d, Fingerprint(rec))
    BY <2>3, <2>4 DEF TrueTo
  <2>6. Present(ledger[g], d)
    BY <2>1, SoundParses DEF HistoryInv, Inv, LedgersSound, Parses, OutboxBound
  <2>7. e.signed.state # "absent"
    BY <2>4, <2>6 DEF Present, Fingerprint
  <2>8. T[d].live \in Nat /\ T[d].dead \in Nat
    BY DEF Truth
  <2> HIDE DEF e
  <2>9. rec.state # "absent" /\ Reached(rec.state, e.signed.state)
        /\ (e.outcome = "committed" /\ "lose-body" \notin Disruption[h] => rec.body)
    BY <2>2 DEF Holds, At
  <2>10. rec.version >= e.signed.version
    BY <2>5, <2>7, <2>8, <2>9 DEF TrueState, Fingerprint, Reached
  <2>11. e.signed.state = "deleted" => rec.state = "deleted"
    BY <2>9 DEF Reached
  <2>12. QED
    BY <2>1, <2>9, <2>10, <2>11
<1>2. QED
  BY <1>1, DeliveredAlways, PTL

\* The source believes a route active only if the destination, while it is still
\* at that revision, has completed its terminal inventory (`activateOutbound`).
THEOREM ActiveAtBothEndsAlways == Spec => []ActiveAtBothEnds
<1>1. HistoryInv /\ Deliveries => ActiveAtBothEnds
  <2> SUFFICES ASSUME HistoryInv, Deliveries,
                      NEW g \in Home, NEW h \in Home, NEW r \in Route,
                      ledger[g].inbox = Src[r], ledger[g].route[r].state = "active",
                      ledger[h].inbox = Dst[r],
                      ledger[h].route[r].revision = ledger[g].route[r].revision
               PROVE  /\ ledger[h].route[r].state = "active"
                      /\ ledger[h].history[r].revision = ledger[h].route[r].revision
    BY DEF ActiveAtBothEnds
  <2>1. ledger[h].route[r].state = "active"
    BY DEF Deliveries, ActiveReady, Ready
  <2>2. Reconnected(ledger[h])
    BY DEF HistoryInv, LedgersServed, Served
  <2>3. QED
    BY <2>1, <2>2 DEF Reconnected
<1>2. QED
  BY <1>1, DeliveredAlways, PTL
=============================================================================
