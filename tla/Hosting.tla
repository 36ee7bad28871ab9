-------------------------------- MODULE Hosting --------------------------------
(***************************************************************************)
(* The server process and its TOWL rooms: startup and shutdown             *)
(* (local-livehost-server-process.ts), admission of connections            *)
(* (node-towl-application.ts, towl-authority-application.ts) and the sweep *)
(* of idle rooms (application-idle-sweep.ts) over the library's registry   *)
(* of authorities.                                                         *)
(***************************************************************************)
EXTENDS Integers, SequencesExt

CONSTANTS HostedRooms, Connections,
          NoHostedRoom,             \* the room of a connection that has none
          Scheduled,                \* whether the lifecycle is given a schedule
          maxRooms, idleMs, sweepIntervalMs,
          EvictMs,                  \* bound: how long the registry takes to evict
          MaxNow                    \* bound: the time modelled

ASSUME HostingAssumption ==
  /\ Scheduled \in BOOLEAN
  /\ {maxRooms, idleMs, sweepIntervalMs} \subseteq Nat \ {0} /\ sweepIntervalMs <= idleMs
  /\ EvictMs \in Nat /\ MaxNow \in Nat

VARIABLE hosting

Busy == -1          \* an idleSince that is undefined
NeverDue == -1      \* no sweep is scheduled, or none is running
Times == -1..MaxNow + sweepIntervalMs

\* The state of a room's activity: sessions attached or kept for their owners'
\* return; a lease is an acquisition the registry counts.
Vacant == [live |-> FALSE, leases |-> 0, attached |-> {}, retained |-> FALSE, idle |-> Busy]
occupied(room) == room.leases > 0 \/ room.attached # {} \/ room.retained
liveRooms(h) == {r \in HostedRooms : h.room[r].live}

\* Mutant: every look at an entry starts its age anew.
reconcile_anew(h, r) ==
  IF h.acquisitions[r] > 0 \/ h.room[r].attached # {} \/ h.room[r].retained THEN Busy ELSE h.now

\* Whenever the activity of a room changes, the sweep's entry follows it.
reconcile(h, r) ==
  IF h.acquisitions[r] > 0 \/ h.room[r].attached # {} \/ h.room[r].retained THEN Busy
  ELSE IF h.idleSince[r] = Busy THEN h.now ELSE h.idleSince[r]

\* Since when a room is idle, in truth.
idle_from(h, r) ==
  IF occupied(h.room[r]) THEN Busy ELSE IF h.room[r].idle = Busy THEN h.now ELSE h.room[r].idle

\* Mutant: an entry that was idle once stays so.
onChange_idle(h, r) ==
  [h EXCEPT !.idleSince[r] = IF r \notin ToSet(h.entries) THEN @ ELSE IF @ = Busy THEN reconcile(h, r) ELSE @,
            !.room[r].idle = idle_from(h, r)]

onChange(h, r) ==
  [h EXCEPT !.idleSince[r] = IF r \in ToSet(h.entries) THEN reconcile(h, r) ELSE @,
            !.room[r].idle = idle_from(h, r)]

track(h, r) ==
  onChange([h EXCEPT !.entries = Append(@, r), !.idleSince[r] = h.now, !.acquisitions[r] = 0], r)

\* Of a room the sweep has forgotten these say nothing.
beginAcquisition(h, r) ==
  IF r \notin ToSet(h.entries) THEN h ELSE onChange([h EXCEPT !.acquisitions[r] = @ + 1], r)
endAcquisition(h, r) ==
  IF r \notin ToSet(h.entries) THEN h
  ELSE onChange([h EXCEPT !.acquisitions[r] = IF @ > 0 THEN @ - 1 ELSE 0], r)

\* The library's: a disposed room listens to nobody and counts no lease.
attach(h, c, r) ==
  IF ~h.room[r].live THEN h ELSE onChange([h EXCEPT !.room[r].attached = @ \union {c}], r)
release(h, r) == IF ~h.room[r].live THEN h ELSE [h EXCEPT !.room[r].leases = @ - 1]

remove(h, r) == [h EXCEPT !.entries = RemoveFirst(@, r)]

\* registry.evict: an occupied room is busy, another one is disposed of.
evict(h, r) ==
  IF occupied(h.room[r]) THEN h ELSE remove([h EXCEPT !.room[r] = Vacant], r)

schedule_next(h) ==
  IF h.towl = "disposed" \/ ~Scheduled \/ h.due # NeverDue THEN h
  ELSE [h EXCEPT !.due = h.now + sweepIntervalMs]

\* A room the sweep may evict: idle for long enough when the sweep began.
sweepable(h, r) ==
  /\ r \in ToSet(h.entries)
  /\ h.acquisitions[r] = 0 /\ h.room[r].attached = {} /\ ~h.room[r].retained
  /\ h.sweepNow - reconcile(h, r) >= idleMs

\* The sweep from where it is to its next eviction or to its end.
run_sweep(h) ==
  LET i == SelectInSeq(h.left, LAMBDA r : sweepable(h, r))
  IN IF i = 0 THEN schedule_next([h EXCEPT !.sweepNow = NeverDue, !.left = <<>>])
     ELSE [evict(h, h.left[i]) EXCEPT !.left = SubSeq(@, i + 1, Len(@)), !.waited = 0]

\* The disposal of the TOWL application: the connections it has recorded are
\* closed, those it has admitted to a room and not yet connected are not (late).
Ended(phase) == IF phase = "open" THEN "closed" ELSE phase
dispose_towl(h) ==
  [h EXCEPT !.towl = "disposed", !.due = NeverDue, !.entries = <<>>,
            !.room = [r \in HostedRooms |-> Vacant],
            !.late = {c \in Connections : h.connection[c].phase = "acquired"},
            !.connection = [c \in Connections |-> [h.connection[c] EXCEPT !.phase = Ended(@)]]]
dispose_circuit(h) == [h EXCEPT !.circuit = "disposed"]

-----------------------------------------------------------------------------
(* Startup and shutdown.                                                   *)

CircuitReady ==
  /\ hosting.server = "towl"
  /\ hosting' = [hosting EXCEPT !.server = "host", !.circuit = "live"]

CircuitFails ==
  /\ hosting.server = "towl"
  /\ hosting' = [dispose_towl(hosting) EXCEPT !.server = "failed"]

HostStarts ==
  /\ hosting.server = "host"
  /\ hosting' = [hosting EXCEPT !.server = "up"]

HostFails ==
  /\ hosting.server = "host"
  /\ hosting' = [dispose_circuit(dispose_towl(hosting)) EXCEPT !.server = "failed"]

\* SIGINT, SIGTERM or the end of the owning process: the server is stopped
\* once, whichever of them follow.
handleSignal ==
  /\ hosting.server = "up"
  /\ hosting' = [hosting EXCEPT !.server = "stopping"]

\* host.dispose, of which the process only learns how it ended: it disposes of
\* the applications, and what they had begun goes on until the process exits.
ApplicationsDisposed ==
  /\ hosting.server = "stopping" /\ hosting.towl = "live"
  /\ hosting' = dispose_circuit(dispose_towl(hosting))

Stopped ==
  /\ hosting.server = "stopping" /\ hosting.towl = "disposed"
  /\ hosting' = [hosting EXCEPT !.server = "exited"]

-----------------------------------------------------------------------------
(* Connections.                                                            *)

Serving == hosting.server \in {"up", "stopping"}

\* accept, up to the acquisition of the room.
accept(c, r) ==
  /\ hosting.connection[c].phase = "none"
  /\ hosting' = [hosting EXCEPT !.connection[c] =
       [phase |-> IF hosting.towl = "disposed" THEN "closed" ELSE "acquiring", room |-> r]]

\* registry.acquire: the room is there or there is room for it.
Acquired(c) ==
  LET r == hosting.connection[c].room
      h == IF hosting.room[r].live THEN hosting
           ELSE track([hosting EXCEPT !.room[r] = [Vacant EXCEPT !.live = TRUE]], r)
  IN /\ hosting.connection[c].phase = "acquiring" /\ hosting.towl = "live"
     /\ hosting.room[r].live \/ Cardinality(liveRooms(hosting)) < maxRooms
     /\ hosting' = [h EXCEPT !.room[r].leases = @ + 1, !.room[r].idle = Busy,
                             !.connection[c].phase = "acquired"]

Refused(c) ==
  LET r == hosting.connection[c].room
  IN /\ hosting.connection[c].phase = "acquiring"
     /\ \/ hosting.towl = "disposed"
        \/ ~hosting.room[r].live /\ Cardinality(liveRooms(hosting)) >= maxRooms
     /\ hosting' = [hosting EXCEPT !.connection[c].phase = "closed"]

\* connectBounded after its await: the acquisition spans the connect, which
\* succeeds or throws; then accept records the connection.  Neither looks
\* whether it has been disposed of meanwhile.
connectBounded(c, connects) ==
  LET r == hosting.connection[c].room
      begun == beginAcquisition(hosting, r)
      connected == IF connects THEN attach(begun, c, r) ELSE begun
  IN /\ hosting.connection[c].phase = "acquired"
     /\ hosting' = endAcquisition([release(connected, r) EXCEPT
                                    !.connection[c].phase = IF connects THEN "open" ELSE "closed"], r)

\* A live room detaches the session, or keeps it for its owner's return.
Disconnected(c, retained) ==
  LET r == hosting.connection[c].room
      closed == [hosting EXCEPT !.connection[c].phase = "closed"]
  IN /\ hosting.connection[c].phase = "open"
     /\ hosting' = IF ~hosting.room[r].live THEN closed
                   ELSE onChange([closed EXCEPT !.room[r].attached = @ \ {c},
                                                !.room[r].retained = @ \/ retained], r)

SessionExpires(r) ==
  /\ hosting.room[r].retained
  /\ hosting' = onChange([hosting EXCEPT !.room[r].retained = FALSE], r)

-----------------------------------------------------------------------------
(* The sweep and the clock.                                                *)

SweepDue ==
  /\ hosting.due # NeverDue /\ hosting.due = hosting.now
  /\ hosting' = run_sweep([hosting EXCEPT !.due = NeverDue, !.sweepNow = hosting.now,
                                          !.left = hosting.entries])

Sweeping == hosting.sweepNow # NeverDue

Evicted ==
  /\ Sweeping
  /\ hosting' = run_sweep(hosting)

\* Timers fire on time, and the registry does not take longer than EvictMs.
Tick ==
  /\ hosting.now < MaxNow /\ hosting.due # hosting.now
  /\ Sweeping => hosting.waited < EvictMs
  /\ hosting' = [hosting EXCEPT !.now = @ + 1, !.waited = IF Sweeping THEN @ + 1 ELSE @]

\* create_local_livehost_server has created the TOWL application.
HostingInit ==
  hosting = schedule_next(
    [now |-> 0, server |-> "towl", towl |-> "live", circuit |-> "none",
     room |-> [r \in HostedRooms |-> Vacant],
     connection |-> [c \in Connections |-> [phase |-> "none", room |-> NoHostedRoom]],
     late |-> {}, entries |-> <<>>, idleSince |-> [r \in HostedRooms |-> Busy],
     acquisitions |-> [r \in HostedRooms |-> 0],
     due |-> NeverDue, sweepNow |-> NeverDue, left |-> <<>>, waited |-> 0])

ServingStep ==
  \/ \E c \in Connections :
       \/ \E r \in HostedRooms : accept(c, r)
       \/ Acquired(c) \/ Refused(c)
       \/ \E connects \in BOOLEAN : connectBounded(c, connects)
       \/ \E retained \in BOOLEAN : Disconnected(c, retained)
  \/ \E r \in HostedRooms : SessionExpires(r)
  \/ SweepDue \/ Evicted \/ Tick

HostingNext ==
  \/ CircuitReady \/ CircuitFails \/ HostStarts \/ HostFails \/ handleSignal
  \/ ApplicationsDisposed \/ Stopped
  \/ Serving /\ ServingStep

HostingSpec == HostingInit /\ [][HostingNext]_hosting

-----------------------------------------------------------------------------
HostingTypeOK ==
  /\ hosting.now \in 0..MaxNow
  /\ hosting.server \in {"towl", "host", "up", "failed", "stopping", "exited"}
  /\ hosting.towl \in {"live", "disposed"} /\ hosting.circuit \in {"none", "live", "disposed"}
  /\ hosting.room \in [HostedRooms -> [live : BOOLEAN, leases : Nat, attached : SUBSET Connections,
                                       retained : BOOLEAN, idle : Times]]
  /\ hosting.late \subseteq Connections
  /\ {hosting.entries, hosting.left} \subseteq Seq(HostedRooms)
  /\ hosting.idleSince \in [HostedRooms -> Times]
  /\ hosting.acquisitions \in [HostedRooms -> {0}]
  /\ {hosting.due, hosting.sweepNow} \subseteq Times

(* A room nobody uses does not keep its place: it is evicted within the    *)
(* idle time and one interval, and what the registry takes for evictions   *)
(* in this sweep and the one before.                                       *)
IdleRoomsEvicted ==
  \A r \in liveRooms(hosting) :
    hosting.room[r].idle # Busy =>
      hosting.now - hosting.room[r].idle
        <= idleMs + sweepIntervalMs + (2 * maxRooms - 1) * EvictMs

(* Nobody loses a room in use or one just left: a room goes only after a   *)
(* whole idle time without a session, attached or kept, and without an     *)
(* acquisition, whatever arrives while the sweep waits for the registry.   *)
OnlyIdleRoomsEvicted ==
  [][\A r \in HostedRooms :
       hosting.room[r].live /\ ~hosting'.room[r].live /\ hosting'.towl = "live" =>
         hosting.room[r].idle # Busy /\ hosting.now - hosting.room[r].idle >= idleMs]_hosting

(* A process that failed to start or has stopped leaves no application     *)
(* live.  A disposed TOWL application has no sweep to come, though one may *)
(* have been under way, and no room with a session, a lease or a place;    *)
(* and of its connections only those stay open, recorded after its         *)
(* disposal has closed the others, that had been admitted to a room and    *)
(* not connected when it was disposed of.  They are connected to nothing,  *)
(* and nobody but their socket's end or the process's closes them.         *)
DisposalIsFinal ==
  /\ hosting.server \in {"failed", "exited"} => "live" \notin {hosting.towl, hosting.circuit}
  /\ hosting.towl = "disposed" =>
       /\ hosting.due = NeverDue /\ \A r \in HostedRooms : hosting.room[r] = Vacant
       /\ \A c \in Connections : hosting.connection[c].phase = "open" => c \in hosting.late
=============================================================================
