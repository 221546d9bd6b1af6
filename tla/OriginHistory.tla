--------------------------- MODULE OriginHistory ---------------------------
(***************************************************************************)
(* What managed sync promises about the history of a document, whatever    *)
(* routes, passes and failures lie between the copies: only the inbox that *)
(* owns a document gives it a new state, every other home adopts states    *)
(* that exist somewhere, and no copy ever goes back.                       *)
(***************************************************************************)
CONSTANTS Home, Inbox, Doc,
          Origin       \* Doc -> Inbox, the inbox that signs the document

VARIABLES identity,    \* [Home -> Inbox], who each home signs as
          copy         \* [Home -> [Doc -> absent, live or deleted]]

States == {"absent", "live", "deleted"}

\* x follows y in the history of every document.
After(x, y) == \/ x = "live" /\ y = "absent"
               \/ x = "deleted" /\ y # "deleted"

\* A state somebody holds was signed, and so was every state before it.
Signed(d, s) == \E g \in Home : copy[g][d] = s \/ After(copy[g][d], s)

Init == /\ identity \in [Home -> Inbox]
        /\ copy = [h \in Home |-> [d \in Doc |-> "absent"]]

Publish(h, d) ==
  /\ identity[h] = Origin[d] /\ \A g \in Home : copy[g][d] = "absent"
  /\ copy' = [copy EXCEPT ![h][d] = "live"] /\ UNCHANGED identity

Delete(h, d) ==
  /\ identity[h] = Origin[d] /\ copy[h][d] = "live"
  /\ copy' = [copy EXCEPT ![h][d] = "deleted"] /\ UNCHANGED identity

\* One inventory may bring several states at once.
Adopt(h) ==
  /\ \E new \in [Doc -> States] :
       /\ \A d \in Doc : \/ new[d] = copy[h][d]
                         \/ /\ After(new[d], copy[h][d]) /\ Signed(d, new[d])
                            /\ identity[h] # Origin[d]
       /\ copy' = [copy EXCEPT ![h] = new]
  /\ UNCHANGED identity

\* A home that lost its history goes on under an identity that has none.
Fork(h, i) ==
  /\ \A g \in Home : identity[g] # i
  /\ \A g \in Home, d \in Doc : Origin[d] = i => copy[g][d] = "absent"
  /\ identity' = [identity EXCEPT ![h] = i] /\ UNCHANGED copy

Next == \E h \in Home :
          \/ \E d \in Doc : Publish(h, d) \/ Delete(h, d)
          \/ Adopt(h)
          \/ \E i \in Inbox : Fork(h, i)

Spec == Init /\ [][Next]_<<identity, copy>>
=============================================================================
