--------------------------- MODULE SessionRuntime ---------------------------
(***************************************************************************)
(* Replacing the session: packages/coding-agent/src/core/                  *)
(* agent-session-runtime.ts, with the way the RPC mode and the print mode  *)
(* follow it (modes/rpc/rpc-mode.ts, modes/print-mode.ts).                 *)
(*                                                                         *)
(* /new, /resume, /fork, /clone and /import tear the current session down, *)
(* create another and have the mode bind itself to it.  Every one of these *)
(* steps is awaited, and nothing keeps a second command from starting      *)
(* meanwhile: the RPC mode handles a line without waiting for the one      *)
(* before, and an extension's command may replace the session too.         *)
(***************************************************************************)
EXTENDS Naturals, FiniteSets

CONSTANTS
  Commands,    \* commands in flight at one time
  MaxCommands  \* bound: commands given in all

ASSUME CommandsAssumption == MaxCommands \in Nat

Sessions == 1 .. MaxCommands + 1
None     == 0

VARIABLES
  current,     \* _session of the runtime
  live,        \* sessions that have not been disposed
  session,     \* the session that the mode sends prompts to
  heard,       \* the session whose events the mode forwards
  starts,      \* how often each session's extensions heard session_start
  ends,        \* how often they heard session_shutdown
  pc,          \* what each command awaits
  rpc,         \* commands that came over RPC: the others are an extension's
  exit,        \* shutdown: no, ending, done
  given,       \* commands given so far
  num,         \* the number of the session that each command is to make
  broken,      \* a replacement failed, and no session was created since
  overlapped   \* history: a command was given, or a shutdown, while one ran

modeVars == <<session, heard>>
toldVars == <<starts, ends>>
askVars  == <<rpc, given, num>>
vars == <<current, live, modeVars, toldVars, pc, askVars, exit, broken, overlapped>>

Phases == {"idle", "asking", "ending", "creating", "setup", "binding", "bound",
           "rebinding"}

\* The first session is bound before any command is taken.
Init ==
  /\ current = 1 /\ live = {1}
  /\ session = 1 /\ heard = 1
  /\ starts = [s \in Sessions |-> IF s = 1 THEN 1 ELSE 0]
  /\ ends = [s \in Sessions |-> 0]
  /\ pc = [c \in Commands |-> "idle"]
  /\ rpc = {}
  /\ exit = "no" /\ given = 0 /\ num = [c \in Commands |-> 1]
  /\ broken = FALSE /\ overlapped = FALSE

Running == {c \in Commands : pc[c] # "idle"}
Told(count, s) == [count EXCEPT ![s] = @ + 1]
Goes(c, from, to) == exit # "done" /\ pc[c] = from /\ pc' = [pc EXCEPT ![c] = to]

(***************************************************************************)
(* A replacement, up to the new session.                                   *)
(***************************************************************************)

\* A command is given.  The current session's extensions are asked first.
Ask(c) ==
  /\ Goes(c, "idle", "asking") /\ given < MaxCommands
  /\ given' = given + 1 /\ num' = [num EXCEPT ![c] = given + 2]
  /\ rpc' \in {rpc \cup {c}, rpc \ {c}}
  /\ overlapped' = (overlapped \/ Running # {} \/ exit # "no")
  /\ UNCHANGED <<current, live, modeVars, toldVars, exit, broken>>

\* An extension cancels, or there is no such file, directory or entry.
Refuse(c) ==
  /\ Goes(c, "asking", "idle")
  /\ UNCHANGED <<current, live, modeVars, toldVars, askVars, exit, broken,
                 overlapped>>

\* teardownCurrent tells the extensions of the session that is current now.
End(c) ==
  /\ Goes(c, "asking", "ending")
  /\ ends' = Told(ends, current)
  /\ UNCHANGED <<current, live, modeVars, starts, askVars, exit, broken,
                 overlapped>>

\* Bug: the session loses its listeners but goes on running.
OnlyUnheard(s) ==
  /\ live' = live
  /\ heard' = IF heard = s THEN None ELSE heard

\* What dispose does to a session: its listeners are gone.
Dispose(s) ==
  /\ live' = live \ {s}
  /\ heard' = IF heard = s THEN None ELSE heard

\* They have been told: the session that is current by then is disposed.
TearDown(c) ==
  /\ Goes(c, "ending", "creating")
  /\ Dispose(current)
  /\ UNCHANGED <<current, session, toldVars, askVars, exit, broken, overlapped>>

\* createRuntime throws, or the cleanup of the old session did: the disposed session
\* remains the current one.
Fail(c) ==
  /\ Goes(c, "creating", "idle")
  /\ broken' = TRUE
  /\ UNCHANGED <<current, live, modeVars, toldVars, askVars, exit, overlapped>>

(***************************************************************************)
(* Binding the mode to it.                                                 *)
(***************************************************************************)

\* The mode's rebindSession begins: it takes the runtime's session, whose
\* extensions are bound and told that it starts.
Bind(s) ==
  /\ session' = s
  /\ starts' = Told(starts, s)

\* apply.  The mode is bound at once, but after newSession's setup if an
\* extension gave one.
Apply(c) ==
  /\ \/ Goes(c, "creating", "binding") /\ Bind(num[c])
     \/ Goes(c, "creating", "setup") /\ c \notin rpc /\ UNCHANGED <<session, starts>>
  /\ current' = num[c]
  /\ live' = live \cup {num[c]}
  /\ broken' = FALSE
  /\ UNCHANGED <<heard, ends, askVars, exit, overlapped>>

\* setup is done: the mode is bound to the session that is current by then.
SetUp(c) ==
  /\ Goes(c, "setup", "binding")
  /\ Bind(current)
  /\ UNCHANGED <<current, live, heard, ends, askVars, exit, broken, overlapped>>

\* setup is an extension's callback and throws: newSession() rejects, and the mode
\* keeps the session that was disposed.
SetUpFails(c) ==
  /\ Goes(c, "setup", "idle")
  /\ broken' = TRUE
  /\ UNCHANGED <<current, live, modeVars, toldVars, askVars, exit, overlapped>>

\* Bug: a mode that has a subscription keeps it.
SubscribeOnce(c) ==
  /\ \/ Goes(c, "binding", IF c \in rpc THEN "bound" ELSE "idle")
     \/ Goes(c, "rebinding", "idle")
  /\ heard' = IF heard = None THEN session ELSE heard
  /\ UNCHANGED <<current, live, session, toldVars, askVars, exit, broken,
                 overlapped>>

\* rebindSession goes on: the mode subscribes to the session in its variable.
Subscribe(c) ==
  /\ \/ Goes(c, "binding", IF c \in rpc THEN "bound" ELSE "idle")
     \/ Goes(c, "rebinding", "idle")
  /\ heard' = session
  /\ UNCHANGED <<current, live, session, toldVars, askVars, exit, broken,
                 overlapped>>

\* bindExtensions rejects, so that the mode never subscribes; the RPC handler, too,
\* leaves it at that.
BindFails(c) ==
  /\ Goes(c, "binding", "idle") \/ Goes(c, "rebinding", "idle")
  /\ broken' = TRUE
  /\ UNCHANGED <<current, live, modeVars, toldVars, askVars, exit, overlapped>>

\* The RPC handler binds the mode once more when the runtime has replied.
Rebind(c) ==
  /\ Goes(c, "bound", "rebinding")
  /\ Bind(current)
  /\ UNCHANGED <<current, live, heard, ends, askVars, exit, broken, overlapped>>

(***************************************************************************)
(* Shutdown: the end of the input, a signal or an extension's request.     *)
(***************************************************************************)

Stop ==
  /\ exit = "no" /\ exit' = "ending"
  /\ heard' = None
  /\ ends' = Told(ends, current)
  /\ overlapped' = (overlapped \/ Running # {})
  /\ UNCHANGED <<current, live, session, starts, pc, askVars, broken>>

Stopped ==
  /\ exit = "ending" /\ exit' = "done"
  /\ Dispose(current)
  /\ UNCHANGED <<current, session, toldVars, pc, askVars, broken, overlapped>>

Next ==
  \/ \E c \in Commands : Ask(c) \/ Refuse(c) \/ End(c) \/ TearDown(c) \/ Fail(c)
                           \/ Apply(c) \/ SetUp(c) \/ SetUpFails(c)
                           \/ Subscribe(c) \/ BindFails(c) \/ Rebind(c)
  \/ Stop \/ Stopped

Spec == Init /\ [][Next]_vars

(***************************************************************************)
(* Properties.                                                             *)
(***************************************************************************)

\* Every variable keeps its type; shown by SessionRuntime_proofs.
TypeOK ==
  /\ current \in Sessions /\ live \subseteq Sessions
  /\ session \in Sessions /\ heard \in Sessions \cup {None}
  /\ starts \in [Sessions -> Nat] /\ ends \in [Sessions -> Nat]
  /\ pc \in [Commands -> Phases] /\ rpc \subseteq Commands
  /\ exit \in {"no", "ending", "done"} /\ given \in 0 .. MaxCommands
  /\ num \in [Commands -> Sessions]
  /\ broken \in BOOLEAN /\ overlapped \in BOOLEAN

\* Commands between the disposal of a session and the mode's next subscription.
Replacing ==
  {c \in Commands : pc[c] \in {"creating", "setup", "binding", "rebinding"}}

\* However replacements overlap, once none is under way the mode is left with
\* a session that works: the current one has not been disposed, prompts go to
\* it, and its events are forwarded (rpc-mode.ts:316-358).  The exceptions are
\* shutdown, and a replacement that failed, in createRuntime, in setup or while
\* the mode was bound, until another session is created.
Usable ==
  Replacing = {} /\ ~broken /\ exit = "no"
    => current \in live /\ session = current /\ heard = current

\* As long as replacements do not overlap, extensions see an order: a session
\* is told once that it ends, before it is disposed, and one starts only when
\* each other that started has been told and disposed, and never after its end
\* (teardownCurrent and finishSessionReplacement; docs/extensions.md:414).
Ordered ==
  /\ \A s \in live \ live' : ends[s] = 1
  /\ \A s \in Sessions :
       starts'[s] # starts[s]
         => /\ ends[s] = 0
            /\ \A t \in Sessions \ {s} :
                 starts[t] > 0 => t \notin live /\ ends[t] > 0
LifecycleOrder == [][~overlapped => Ordered]_vars
=============================================================================
