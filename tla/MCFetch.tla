------------------------------ MODULE MCFetch ------------------------------
(* Instances of the fetch engine for TLC. *)
EXTENDS FetchEngine

CONSTANTS a, b

Cmd(kind, src, host, https, fixed, post, auth) ==
    [kind |-> kind,
     req |-> [src |-> src, host |-> host, https |-> https, fixed |-> fixed,
              post |-> post, oauth |-> auth]]

To(host, https) == [host |-> host, https |-> https]

\* A URL typed at the console and a POST to the host bridge, both plain HTTP,
\* and a tweet, which a proxy tunnels.
Bridge == Cmd("checked", "console", a, FALSE, TRUE, TRUE, FALSE)
Tweet == Cmd("checked", "console", a, TRUE, FALSE, TRUE, TRUE)
MixedCommands == {Cmd("url", "console", a, FALSE, FALSE, FALSE, FALSE), Bridge,
                  Tweet}

\* A model request of the agent, and the commands that find it pending.
UdpTls == {Cmd("checked", "udp", a, TRUE, FALSE, FALSE, FALSE)}
AgentCommands == {Cmd("goal", "console", a, TRUE, FALSE, TRUE, TRUE), Bridge}
                     \cup UdpTls

\* A POST to the host bridge, and a command that finds it pending.
BusyPost == {Bridge, Cmd("post", "udp", a, FALSE, FALSE, TRUE, FALSE)}

\* URLs of two hosts, one after the other.
TwoHosts == {Cmd("url", "console", h, FALSE, FALSE, FALSE, FALSE) : h \in {a, b}}

HttpToA == {To(a, FALSE)}
HttpOrHttps == {To(b, FALSE), To(a, TRUE)}
Nowhere == {}
=============================================================================
