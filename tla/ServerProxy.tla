----------------------------- MODULE ServerProxy -----------------------------
(***************************************************************************)
(* The process that serves a virtual DualSense, and its proxy: src/src/     *)
(* dualsense_server_proxy.py, dualsense_server_process.py and what         *)
(* virtual_controller.py does with them.  A thread that holds state_lock   *)
(* replaces or cleans up the server; disconnect and force_close stop it    *)
(* once more after they have released that lock; a watcher per proxy and   *)
(* the child's own messages start a worker that attaches the device anew.       *)
(*                                                                         *)
(* External: the processes of Windows (terminate never fails) and the UDP  *)
(* socket of a child, which takes no message before it is bound.  Input,   *)
(* output and haptic messages and the heartbeat (which nobody reads) are   *)
(* left out.                                                               *)
(***************************************************************************)
EXTENDS Naturals

CONSTANTS
  MaxProxies,   \* bound: the proxies ever made
  SetupTries,   \* attempts of _setup_vg_controller: 2
  AttachTries   \* attempts of _ps5_usbip_reconnect_worker: 3

ASSUME ProxyAssumption == MaxProxies \in Nat /\ SetupTries \in Nat /\ AttachTries \in Nat

VARIABLES
  server,       \* usbip_server: a proxy, or 0 for None
  proxies,      \* proxies made so far
  child,        \* each proxy's process: "none", "boots", "bound", "serves" or "dead"
  asked,        \* MSG_STOP waits in the child's socket
  on,           \* _running
  proc,         \* _proc is not None
  ready,        \* _ready_event
  watcher,      \* _watch_loop: "none", "looks", "checked" (has seen _running) or "gone"
  setup,        \* the thread with state_lock: step, proxy at hand, attempts
  tail,         \* the thread in the last part of disconnect or force_close
  vcRunning,    \* VirtualController.running
  suppress,     \* _suppress_usbip_reconnect
  reconnecting, \* _usbip_reconnect_active
  reconnector,  \* reconnect attempts begun; 0: no worker; AttachTries + 1: leaving
  slipped       \* (history) proxies forgotten by a thread that has not stopped their process

proxyVars == <<server, proxies, child, asked, on, proc, ready, watcher, setup, tail, vcRunning,
               suppress, reconnecting, reconnector, slipped>>

Proxy == 1 .. MaxProxies
NoBusiness == [step |-> "idle", proxy |-> 0, had |-> FALSE, tries |-> 0]

ProxyInit ==
  /\ server = 0 /\ proxies = 0
  /\ child = [p \in Proxy |-> "none"] /\ asked = [p \in Proxy |-> FALSE]
  /\ on = [p \in Proxy |-> FALSE] /\ proc = [p \in Proxy |-> FALSE]
  /\ ready = [p \in Proxy |-> FALSE] /\ watcher = [p \in Proxy |-> "none"]
  /\ setup = NoBusiness /\ tail = NoBusiness
  /\ vcRunning = TRUE /\ suppress = FALSE
  /\ reconnecting = FALSE /\ reconnector = 0 /\ slipped = {}

ChildAlive(p) == child[p] \in {"boots", "bound", "serves"}

ProxyTypeOK ==
  /\ proxies \in 0 .. MaxProxies /\ server \in 0 .. proxies
  /\ child \in [Proxy -> {"none", "boots", "bound", "serves", "dead"}]
  /\ \A p \in Proxy : (asked[p] => child[p] # "none") /\ (ready[p] => child[p] # "none")
  /\ watcher \in [Proxy -> {"none", "looks", "checked", "gone"}]
  /\ setup.step \in {"idle", "cleans", "replaces", "creates", "starts", "waits", "fails"}
  /\ tail.step \in {"idle", "stopping"} /\ reconnector \in 0 .. AttachTries + 1

childVars == <<child, asked, on, proc, ready, watcher>>
linkVars == <<vcRunning, suppress, reconnecting, reconnector>>

-----------------------------------------------------------------------------
(* DualSenseServerProxy.stop, by either thread *)

\* The message reaches a child whose socket is bound; had: the local proc is not None.
ProxyStopAsks(p) ==
  /\ on' = [on EXCEPT ![p] = FALSE]
  /\ asked' = [asked EXCEPT ![p] = @ \/ child[p] \in {"bound", "serves"}]

\* (mutation) a child that does not answer within the second is left alone
Abandons(c) == c

\* It is given a second, then terminated.
Terminates(c) == "dead"

\* Then _proc and usbip_server are cleared, whatever they name by now.
ProxyStopEnds(p, had) ==
  /\ child' = IF had THEN [child EXCEPT ![p] = Terminates(@)] ELSE child
  /\ proc' = [proc EXCEPT ![p] = FALSE] /\ server' = 0
  /\ slipped' = slipped \cup ({server} \ {0, p}) \cup (IF proc[p] /\ ~had THEN {p} ELSE {})

-----------------------------------------------------------------------------
(* _setup_vg_controller and cleanup_vg_controller, under state_lock *)

\* Cleans up or replaces what there is: detach, then stop.
HolderBegins(step) ==
  /\ setup = NoBusiness /\ step \in {"cleans", "replaces"}
  /\ step = "cleans" => server # 0
  /\ step = "replaces" => proxies < MaxProxies
  /\ suppress' = TRUE
  /\ IF server = 0
     THEN setup' = [NoBusiness EXCEPT !.step = "creates"] /\ UNCHANGED <<on, asked>>
     ELSE ProxyStopAsks(server) /\ setup' = [step |-> step, proxy |-> server, had |-> proc[server], tries |-> 0]
  /\ UNCHANGED <<server, proxies, child, proc, ready, watcher, tail, vcRunning, reconnecting, reconnector, slipped>>

HolderStopped ==
  /\ setup.step \in {"cleans", "replaces"}
  /\ ProxyStopEnds(setup.proxy, setup.had)
  /\ setup' = IF setup.step = "cleans" THEN NoBusiness ELSE [NoBusiness EXCEPT !.step = "creates"]
  /\ UNCHANGED <<proxies, asked, on, ready, watcher, tail, linkVars>>

\* A new proxy, as usbip_server from now on, though it has not been started yet.
Creates ==
  /\ setup.step = "creates" /\ proxies < MaxProxies
  /\ proxies' = proxies + 1 /\ server' = proxies' /\ suppress' = FALSE
  /\ setup' = [step |-> "starts", proxy |-> proxies', had |-> FALSE, tries |-> setup.tries + 1]
  /\ on' = [on EXCEPT ![proxies'] = TRUE]
  /\ UNCHANGED <<child, asked, proc, ready, watcher, tail, vcRunning, reconnecting, reconnector, slipped>>

\* Popen and the two threads
Spawns ==
  /\ setup.step = "starts" /\ setup' = [setup EXCEPT !.step = "waits"]
  /\ child' = [child EXCEPT ![setup.proxy] = "boots"]
  /\ proc' = [proc EXCEPT ![setup.proxy] = TRUE]
  /\ watcher' = [watcher EXCEPT ![setup.proxy] = "looks"]
  /\ UNCHANGED <<server, proxies, asked, on, ready, tail, linkVars, slipped>>

SeesReady ==
  /\ setup.step = "waits" /\ ready[setup.proxy]
  /\ setup' = NoBusiness
  /\ UNCHANGED <<server, proxies, childVars, tail, linkVars, slipped>>

\* The child has exited, _proc is gone (stop in another thread), or 10 s have passed.
StartFails ==
  /\ setup.step = "waits" /\ ~ready[setup.proxy]
  /\ ProxyStopAsks(setup.proxy)
  /\ setup' = [setup EXCEPT !.step = "fails", !.had = proc[setup.proxy]]
  /\ UNCHANGED <<server, proxies, child, proc, ready, watcher, tail, linkVars, slipped>>

\* start raises; the caller stops usbip_server, if it is still there, and tries once more.
FailedStartEnds ==
  /\ setup.step = "fails"
  /\ ProxyStopEnds(setup.proxy, setup.had)
  /\ setup' = IF setup.tries < SetupTries /\ proxies < MaxProxies
               THEN [setup EXCEPT !.step = "creates", !.proxy = 0, !.had = FALSE] ELSE NoBusiness
  /\ UNCHANGED <<proxies, asked, on, ready, watcher, tail, linkVars>>

-----------------------------------------------------------------------------
(* disconnect and force_close, after state_lock *)

TailBegins ==
  /\ tail = NoBusiness /\ server # 0
  /\ vcRunning' = FALSE
  /\ ProxyStopAsks(server)
  /\ tail' = [step |-> "stopping", proxy |-> server, had |-> proc[server], tries |-> 0]
  /\ UNCHANGED <<server, proxies, child, proc, ready, watcher, setup, suppress, reconnecting, reconnector, slipped>>

TailStopped ==
  /\ tail.step = "stopping"
  /\ ProxyStopEnds(tail.proxy, tail.had)
  /\ tail' = NoBusiness
  /\ UNCHANGED <<proxies, asked, on, ready, watcher, setup, linkVars>>

-----------------------------------------------------------------------------
(* The child: dualsense_server_process.main *)

Binds(p) ==
  /\ child[p] = "boots" /\ child' = [child EXCEPT ![p] = "bound"]
  /\ UNCHANGED <<server, proxies, asked, on, proc, ready, watcher, setup, tail, linkVars, slipped>>

\* "started" finds a proxy that still reads its socket.
Serves(p) ==
  /\ child[p] = "bound" /\ child' = [child EXCEPT ![p] = "serves"]
  /\ ready' = [ready EXCEPT ![p] = on[p]]
  /\ UNCHANGED <<server, proxies, asked, on, proc, watcher, setup, tail, linkVars, slipped>>

\* MSG_STOP is read, or the process fails.
Exits(p) ==
  /\ ChildAlive(p) /\ child' = [child EXCEPT ![p] = "dead"]
  /\ UNCHANGED <<server, proxies, asked, on, proc, ready, watcher, setup, tail, linkVars, slipped>>

-----------------------------------------------------------------------------
(* _on_ps5_usbip_disconnected and the worker it starts *)

Notifies ==
  IF vcRunning /\ ~suppress /\ ~reconnecting
  THEN reconnecting' = TRUE /\ reconnector' = 1
  ELSE UNCHANGED <<reconnecting, reconnector>>

WatcherLooks(p) ==
  /\ watcher[p] = "looks"
  /\ watcher' = [watcher EXCEPT ![p] = IF on[p] THEN "checked" ELSE "gone"]
  /\ UNCHANGED <<server, proxies, child, asked, on, proc, ready, setup, tail, linkVars, slipped>>

WatcherPolls(p) ==
  /\ watcher[p] = "checked"
  /\ IF proc[p] /\ child[p] = "dead"
     THEN watcher' = [watcher EXCEPT ![p] = "gone"] /\ Notifies
     ELSE watcher' = [watcher EXCEPT ![p] = "looks"] /\ UNCHANGED <<reconnecting, reconnector>>
  /\ UNCHANGED <<server, proxies, child, asked, on, proc, ready, setup, tail, vcRunning, suppress, slipped>>

\* Windows lets go of the device: the child's server tells its parent.
ChildTells(p) ==
  /\ child[p] = "serves" /\ on[p]
  /\ Notifies
  /\ UNCHANGED <<server, proxies, childVars, setup, tail, vcRunning, suppress, slipped>>

\* One attempt: it attaches if a server listens; it is the last if the device is going.
ReconnectTries ==
  /\ reconnector \in 1 .. AttachTries
  /\ reconnector' = IF ~vcRunning \/ (server # 0 /\ child[server] = "serves") THEN AttachTries + 1 ELSE reconnector + 1
  /\ UNCHANGED <<server, proxies, childVars, setup, tail, vcRunning, suppress, reconnecting, slipped>>

ReconnectEnds ==
  /\ reconnector = AttachTries + 1 /\ reconnector' = 0 /\ reconnecting' = FALSE
  /\ UNCHANGED <<server, proxies, childVars, setup, tail, vcRunning, suppress, slipped>>

-----------------------------------------------------------------------------

\* (bound) The proxies are used up; what is left has stopped.
AllStopped ==
  /\ proxies = MaxProxies /\ setup = NoBusiness /\ tail = NoBusiness /\ server = 0
  /\ \A p \in Proxy : ~ChildAlive(p) /\ watcher[p] = "gone"
  /\ UNCHANGED proxyVars

ProxyNext ==
  \/ \E step \in {"cleans", "replaces"} : HolderBegins(step)
  \/ HolderStopped \/ Creates \/ Spawns \/ SeesReady \/ StartFails \/ FailedStartEnds
  \/ TailBegins \/ TailStopped
  \/ \E p \in Proxy : \/ Binds(p) \/ Serves(p) \/ Exits(p)
                      \/ WatcherLooks(p) \/ WatcherPolls(p) \/ ChildTells(p)
  \/ ReconnectTries \/ ReconnectEnds \/ AllStopped

ProxySpec == ProxyInit /\ [][ProxyNext]_proxyVars

-----------------------------------------------------------------------------

\* Every live server process has somebody who will stop it: it is the device's server, or a
\* thread is starting or stopping it; and the flag that keeps a second reconnect worker out
\* is up exactly while there is one.  (A stop that overlaps a start in another thread may
\* clear a reference to a process, or to a proxy, that it has not stopped.)  Every variable
\* keeps its type: none but a process that was started is asked to stop, or ready.
NoOrphanChild ==
  /\ ProxyTypeOK
  /\ \A p \in Proxy : ChildAlive(p) =>
       \/ p \in {server, setup.proxy, tail.proxy}
       \/ p \in slipped
  /\ reconnecting = (reconnector # 0)

=============================================================================
