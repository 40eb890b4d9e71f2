--------------------------- MODULE FrameAllocator ---------------------------
(* What a physical memory manager promises its clients: it is started once  *)
(* with some set of available frames, and from then on a frame is either    *)
(* available or held by exactly one client.  A request may be refused.      *)
EXTENDS Integers

CONSTANTS Clients,      \* those who hold memory
          AllFrames     \* every frame there could be

VARIABLES started,      \* whether the manager has been given its memory
          avail,        \* the frames that can be granted
          held          \* held[c]: the frames client c holds

vars == <<started, avail, held>>

Init ==
    /\ started = FALSE
    /\ avail = {}
    /\ held = [c \in Clients |-> {}]

(* The manager takes over the memory of the machine. *)
Start ==
    /\ ~started
    /\ started' = TRUE
    /\ avail' \in SUBSET AllFrames
    /\ UNCHANGED held

(* A client that holds nothing is given a run of available frames. *)
Grant(c, frames) ==
    /\ started
    /\ held[c] = {}
    /\ frames \subseteq avail
    /\ avail' = avail \ frames
    /\ held' = [held EXCEPT ![c] = frames]
    /\ UNCHANGED started

(* A client gives back what it holds. *)
Release(c) ==
    /\ avail' = avail \cup held[c]
    /\ held' = [held EXCEPT ![c] = {}]
    /\ UNCHANGED started

Next ==
    \/ Start
    \/ \E c \in Clients, first, last \in AllFrames : Grant(c, first .. last)
    \/ \E c \in Clients : Release(c)

Spec == Init /\ [][Next]_vars

(* No frame is available while it is held, and none is held twice. *)
Exclusive ==
    /\ \A c \in Clients : held[c] \cap avail = {}
    /\ \A c, d \in Clients : c # d => held[c] \cap held[d] = {}
=============================================================================
