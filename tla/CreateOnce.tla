----------------------------- MODULE CreateOnce -----------------------------
(***************************************************************************)
(* What the operation ledger promises about creating droplets, without any *)
(* of its machinery: a deployment obtains at most one provider droplet in  *)
(* its whole life, the droplet belongs to no other deployment, and once    *)
(* the ledger has learnt which droplet that is it never forgets it.        *)
(***************************************************************************)
EXTENDS Naturals

CONSTANT Deployments

VARIABLES
    made,   \* made[d]: provider ids created on behalf of deployment d
    known   \* known[d]: the ids of those the operations table records

vars == <<made, known>>

Init ==
    /\ made  = [d \in Deployments |-> {}]
    /\ known = [d \in Deployments |-> {}]

Acquire(d) ==
    /\ made[d] = {}
    /\ \E id \in made'[d] :       \* some id nobody has, chosen by the provider
          /\ id \in Nat \ {0}
          /\ \A e \in Deployments : id \notin made[e]
          /\ made' = [made EXCEPT ![d] = {id}]
    /\ UNCHANGED known

Learn(d) ==
    /\ made[d] # {}
    /\ known' = [known EXCEPT ![d] = made[d]]
    /\ UNCHANGED made

Next == \E d \in Deployments : Acquire(d) \/ Learn(d)

Spec == Init /\ [][Next]_vars
=============================================================================
