---------------------------- MODULE FetchService ----------------------------
(***************************************************************************)
(* What the fetch engine promises to the commands and to the agent: one    *)
(* request at a time, kept until it is over, redirected a bounded number   *)
(* of times, and over only when its outcome was told: in exactly one line  *)
(* on the console, in at least one reply over UDP, to the agent by the     *)
(* call that ends it.                                                      *)
(***************************************************************************)
EXTENDS Naturals, Sequences

CONSTANTS Requests, Hosts, None, MaxRedirects

VARIABLES
    job,    \* the request being served, or None
    agent,  \* whether an agent turn owns the engine
    hops,   \* redirects followed for it
    lines   \* the outcome lines told for it

vars == <<job, agent, hops, lines>>

Outcomes == {"ok", "fail"}

Init == job = None /\ agent = FALSE /\ hops = 0 /\ lines = <<>>

Accept(r) ==
    /\ job = None
    /\ job' = r /\ hops' = 0 /\ lines' = <<>>
    /\ agent' \in BOOLEAN

\* The agent ends one request by making the next.
Continue(r) ==
    /\ job # None /\ agent
    /\ job' = r /\ hops' = 0 /\ lines' = <<>>
    /\ UNCHANGED agent

\* A hop keeps the listener and drops the body.
Redirect(host, https) ==
    /\ job # None /\ ~agent
    /\ hops < MaxRedirects
    /\ hops' = hops + 1
    /\ job' = [job EXCEPT !.host = host, !.https = https, !.fixed = FALSE,
                          !.post = FALSE]
    /\ UNCHANGED <<agent, lines>>

TellUdp(line) ==
    /\ job # None /\ job.src = "udp" /\ ~agent
    /\ lines' = Append(lines, line)
    /\ UNCHANGED <<job, agent, hops>>

Over == job # None /\ job' = None /\ hops' = 0

FinishConsole(line) ==
    /\ Over /\ ~agent /\ job.src = "console"
    /\ lines = <<>> /\ lines' = <<line>>
    /\ UNCHANGED agent

FinishUdp ==
    /\ Over /\ ~agent /\ job.src = "udp"
    /\ lines' # <<>>
    /\ lines' = lines \/ \E line \in Outcomes : lines' = Append(lines, line)
    /\ UNCHANGED agent

FinishAgent ==
    /\ Over /\ agent
    /\ agent' = FALSE
    /\ UNCHANGED lines

Next == \/ \E r \in Requests : Accept(r) \/ Continue(r)
        \/ \E host \in Hosts, https \in BOOLEAN : Redirect(host, https)
        \/ \E line \in Outcomes : TellUdp(line) \/ FinishConsole(line)
        \/ FinishUdp
        \/ FinishAgent

Spec == Init /\ [][Next]_vars
=============================================================================
