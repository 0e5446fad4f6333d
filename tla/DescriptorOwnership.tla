------------------------ MODULE DescriptorOwnership -------------------------
(***************************************************************************)
(* What the socket classes promise about descriptors, with no code in it:  *)
(* the process's descriptor table and who is responsible for each open     *)
(* descriptor.  A descriptor is opened for one holder, passes from one     *)
(* holder to one other, and is closed by the step in which its holder      *)
(* gives it up.  So no descriptor leaks, none has two holders, and none is *)
(* closed under a holder.                                                  *)
(***************************************************************************)
CONSTANTS Fds,      \* descriptor numbers, reused after a close
          Holders   \* everything that can be responsible for a descriptor

VARIABLES open,     \* the descriptors that are open
          holders   \* holders[fd]: who is responsible for fd

vars == <<open, holders>>

Init ==
  /\ open = {}
  /\ holders = [fd \in Fds |-> {}]

Acquire(fd, h) ==
  /\ fd \notin open
  /\ holders[fd] = {}
  /\ open' = open \cup {fd}
  /\ holders' = [holders EXCEPT ![fd] = {h}]

Transfer(fd, h, g) ==
  /\ fd \in open
  /\ holders[fd] = {h}
  /\ holders' = [holders EXCEPT ![fd] = {g}]
  /\ open' = open

Release(fd, h) ==
  /\ fd \in open
  /\ holders[fd] = {h}
  /\ open' = open \ {fd}
  /\ holders' = [holders EXCEPT ![fd] = {}]

Next ==
  \E fd \in Fds, h \in Holders :
    \/ Acquire(fd, h)
    \/ Release(fd, h)
    \/ \E g \in Holders : Transfer(fd, h, g)

Spec == Init /\ [][Next]_vars

=============================================================================
