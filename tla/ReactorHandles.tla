--------------------------- MODULE ReactorHandles ---------------------------
(***************************************************************************)
(* The readiness tables of src/src/pthr_reactor.c: HANDLES, the            *)
(* append-with-holes array of reactor handles, and POLL_ARRAY, the         *)
(* deduplicated array of struct pollfd passed to poll(2).  A handle is a   *)
(* record [offset, data]; fn is always a callback that swaps into the      *)
(* fiber `data`.  A pollfd is [fd, events, revents]; revents is 1 when     *)
(* poll reported the descriptor ready, 0 when not, and Garbage for memory  *)
(* that was never written (realloc does not initialise it), which C code   *)
(* reading it may see as either.                                           *)
(*                                                                         *)
(* The whole table is one record                                           *)
(*   [handles, nh (nr_handles_allocated), pa (poll_array),                 *)
(*    na (nr_array_allocated), nu (nr_array_used)]                         *)
(* and the operations are operators from a table to a table, so that a    *)
(* fiber step can apply several in the order the code calls them.          *)
(***************************************************************************)
EXTENDS Integers, Sequences, FiniteSetsExt

CONSTANTS Fds, Ops, Data, NoData,
          HandleChunk,  \* nr_handles_allocated grows by 8 in the code
          ArrayChunk,   \* nr_array_allocated grows by 8 in the code
          MaxHandles,   \* bound on nr_handles_allocated
          MaxArray,     \* bound on nr_array_allocated
          OverlapCopy   \* what the build's memcpy does on overlapping
                        \* regions: "forward" or "backward"

ASSUME OverlapCopy \in {"forward", "backward"}

Garbage == -1
NoFd == "none"

HandleIdx == 0..MaxHandles - 1
Slot == 0..MaxArray - 1

UnusedHandle == [offset |-> -1, data |-> NoData]

Tables ==
  [handles : [HandleIdx -> [offset : -1..MaxArray - 1, data : Data \cup {NoData}]],
   nh : 0..MaxHandles,
   pa : [Slot -> [fd : Fds \cup {NoFd}, events : Ops \cup {NoFd},
                  revents : {0, 1, Garbage}]],
   na : 0..MaxArray,
   nu : 0..MaxArray]

\* The static initialisers: no handles and no poll array allocated.
InitTable ==
  [handles |-> [h \in HandleIdx |-> UnusedHandle], nh |-> 0,
   pa |-> [a \in Slot |-> [fd |-> NoFd, events |-> NoFd, revents |-> Garbage]],
   na |-> 0, nu |-> 0]

Pair(t, a) == <<t.pa[a].fd, t.pa[a].events>>

FreeHandles(t) == {h \in 0..t.nh - 1 : t.handles[h].offset = -1}

\* reactor_register's search for an unused handle: the first with offset
\* -1, or else the first of HandleChunk new ones.
NewHandle(t) ==
  IF FreeHandles(t) # {} THEN Min(FreeHandles(t)) ELSE t.nh

\* reactor_register (socket, operations, fn, data): take a handle (growing
\* HANDLES by HandleChunk entries set to offset -1 if none is free), share
\* the first pollfd with the same fd and events, or else append one
\* (growing POLL_ARRAY by ArrayChunk uninitialised entries if it is full);
\* revents of the appended entry is left as it was.
reactor_register(t, p, d) ==
  LET h      == NewHandle(t)
      shared == {a \in 0..t.nu - 1 : Pair(t, a) = p}
      a      == IF shared # {} THEN Min(shared) ELSE t.nu
  IN  [handles |-> [t.handles EXCEPT ![h] = [offset |-> a, data |-> d]],
       nh |-> IF h = t.nh THEN t.nh + HandleChunk ELSE t.nh,
       pa |-> IF shared # {} THEN t.pa
              ELSE [t.pa EXCEPT ![a].fd = p[1], ![a].events = p[2]],
       na |-> IF shared = {} /\ t.nu >= t.na THEN t.na + ArrayChunk ELSE t.na,
       nu |-> IF shared # {} THEN t.nu ELSE t.nu + 1]

\* memcpy (&poll_array[a], &poll_array[a+1], (nu - a - 1) * sizeof ...):
\* the regions overlap when two or more entries move, which is undefined;
\* a forward copy shifts them down, a backward one copies the last entry
\* into every moved place.
memcpy_down(pa, a, nu) ==
  [k \in Slot |-> IF a <= k /\ k < nu - 1
                  THEN IF OverlapCopy = "forward" THEN pa[k + 1] ELSE pa[nu - 1]
                  ELSE pa[k]]

(* A plausible fault: compaction that forgets to renumber the handles     *)
(* pointing past the removed entry.                                       *)
reactor_unregister_nofix(t, h) ==
  LET a  == t.handles[h].offset
      hs == [t.handles EXCEPT ![h].offset = -1]
  IN  IF \E k \in 0..t.nh - 1 : hs[k].offset = a
      THEN [t EXCEPT !.handles = hs]
      ELSE [t EXCEPT !.handles = hs, !.pa = memcpy_down(t.pa, a, t.nu),
                     !.nu = t.nu - 1]

\* reactor_unregister (handle): free the handle; unless another handle
\* shares its pollfd, remove that entry from POLL_ARRAY and renumber the
\* handles pointing past it.
reactor_unregister(t, h) ==
  LET a  == t.handles[h].offset
      hs == [t.handles EXCEPT ![h].offset = -1]
  IN  IF \E k \in 0..t.nh - 1 : hs[k].offset = a
      THEN [t EXCEPT !.handles = hs]
      ELSE [t EXCEPT !.handles = [k \in HandleIdx |->
                                    IF hs[k].offset > a
                                    THEN [hs[k] EXCEPT !.offset = @ - 1]
                                    ELSE hs[k]],
                     !.pa = memcpy_down(t.pa, a, t.nu),
                     !.nu = t.nu - 1]

(* A plausible fault: poll passed one descriptor too few.                *)
PollResult_short(t, ready) ==
  [t EXCEPT !.pa = [a \in Slot |-> IF a < t.nu - 1
                                   THEN [t.pa[a] EXCEPT !.revents =
                                           IF Pair(t, a) \in ready THEN 1 ELSE 0]
                                   ELSE t.pa[a]]]

\* poll (poll_array, nr_array_used, ...) returning with the pairs in
\* `ready` ready: it writes revents of the used entries only.
PollResult(t, ready) ==
  [t EXCEPT !.pa = [a \in Slot |-> IF a < t.nu
                                   THEN [t.pa[a] EXCEPT !.revents =
                                           IF Pair(t, a) \in ready THEN 1 ELSE 0]
                                   ELSE t.pa[a]]]
=============================================================================
