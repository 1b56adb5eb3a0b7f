----------------------------- MODULE PrService -----------------------------
(***************************************************************************)
(* What partial reconfiguration promises to the owner of a port: while a   *)
(* PR of the port runs nothing is known of its content; a PR that returns  *)
(* success leaves exactly the image it was given; a PR that fails leaves   *)
(* the content unknown; and nothing but a PR of this port changes it.      *)
(***************************************************************************)
EXTENDS Naturals, Sequences

CONSTANTS Ports, UNKNOWN

VARIABLES
    content,      \* what a port holds, or UNKNOWN
    request       \* the PR that runs (port and image), or UNKNOWN if none

vars == <<content, request>>

Begin(p) ==
    /\ request = UNKNOWN
    /\ request' # UNKNOWN
    /\ request' = [port |-> p, image |-> request'.image]
    /\ request'.image \in Seq(Nat)
    /\ content' = [content EXCEPT ![p] = UNKNOWN]

Succeed ==
    /\ request # UNKNOWN
    /\ content' = [content EXCEPT ![request.port] = request.image]
    /\ request' = UNKNOWN

Fail ==
    /\ request # UNKNOWN
    /\ request' = UNKNOWN
    /\ UNCHANGED content

Init ==
    /\ content \in [Ports -> {<<0>>, UNKNOWN}]
    /\ request = UNKNOWN

Next == (\E p \in Ports : Begin(p)) \/ Succeed \/ Fail

Spec == Init /\ [][Next]_vars

=============================================================================
