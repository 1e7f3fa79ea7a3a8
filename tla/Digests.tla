------------------------------- MODULE Digests -------------------------------
(***************************************************************************)
(* The digests companies deliver (digests/): each has an idempotency key,  *)
(* is stored under it and then as the latest of its kind; the keys that    *)
(* were stored are remembered in memory only.  A client that is told of an *)
(* error, or of nothing, delivers again, in any order.  The key "latest"   *)
(* is a key like any other, and names the object of the latest.            *)
(***************************************************************************)
EXTENDS Naturals, FiniteSets

CONSTANTS Digest,       \* the digests of one company and one kind, by their keys
          KeyLatest,    \* the one whose key is "latest"
          NoDigest,
          DgMaxFaults   \* bound of the model

ASSUME DigestAssumption == KeyLatest \in Digest /\ NoDigest \notin Digest

VARIABLES
  seen,      \* _seen_keys of this process
  objects,   \* what is stored under each key, and so in latest.json
  answered,  \* what each delivery was last answered: nothing, accepted, refused
  puts,      \* history: how often each digest was stored in this process
  dgFaults

digestVars == <<seen, objects, answered, puts, dgFaults>>

DigestInit ==
  /\ seen = {} /\ objects = [d \in Digest |-> NoDigest]
  /\ answered = [d \in Digest |-> "none"]
  /\ puts = [d \in Digest |-> 0]
  /\ dgFaults = 0

DgFault == dgFaults < DgMaxFaults /\ dgFaults' = dgFaults + 1

\* put_digest: the digest's own object, then the latest.
FirstPut(d) == [objects EXCEPT ![d] = d]
BothPut(d) == [objects EXCEPT ![d] = d, ![KeyLatest] = d]

\* ingest: either write may fail, before or after it took effect, which is answered
\* with an error; a key that was stored is answered as accepted.
Ingest(d) ==
  \/ /\ d \in seen
     /\ answered' = [answered EXCEPT ![d] = "accepted"]
     /\ UNCHANGED <<seen, objects, puts, dgFaults>>
  \/ /\ d \notin seen
     /\ objects' = BothPut(d)
     /\ seen' = seen \cup {d}
     /\ answered' = [answered EXCEPT ![d] = "accepted"]
     /\ puts' = [puts EXCEPT ![d] = @ + 1]
     /\ UNCHANGED dgFaults
  \/ /\ d \notin seen /\ DgFault
     /\ objects' \in {objects, FirstPut(d), BothPut(d)}
     /\ answered' = [answered EXCEPT ![d] = "refused"]
     /\ UNCHANGED <<seen, puts>>

\* The process ends; what is delivered again is stored again.
DigestRestart ==
  /\ DgFault
  /\ seen' = {} /\ puts' = [d \in Digest |-> 0]
  /\ UNCHANGED <<objects, answered>>

DigestNext == (\E d \in Digest : Ingest(d)) \/ DigestRestart

\* An accepted digest can be read under its key, but for the one whose key is
\* "latest", which every later digest overwrites, and then there is a latest; one
\* process stores a digest once; and the latest, delivered and perhaps answered
\* with an error, can be read under its own key too.
AcceptedIsStored ==
  /\ \A d \in Digest :
       /\ answered[d] = "accepted" =>
            objects[KeyLatest] # NoDigest /\ (d # KeyLatest => objects[d] = d)
       /\ puts[d] <= 1
  /\ LET top == objects[KeyLatest]
     IN  top # NoDigest => answered[top] # "none" /\ objects[top] = top
=============================================================================
