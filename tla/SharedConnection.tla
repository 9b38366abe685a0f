-------------------------- MODULE SharedConnection --------------------------
(***************************************************************************)
(* What the manager of HTTP/2 sessions promises the calls of request() and *)
(* connect(): they share one connection, which is opened when one of them  *)
(* needs it and none is there; each gets the connection that it waits for, *)
(* and fails only if that very connection was lost.                        *)
(*                                                                         *)
(* abort() gives up a connection that calls wait for or use.  From then on *)
(* there may be several, and calls may fail for the fate of another.       *)
(***************************************************************************)
CONSTANTS Conns, Calls, NoConn

VARIABLES
    link,       \* how far every connection is
    use,        \* how far every call is
    on,         \* the connection that a call waits for, or uses
    aborted     \* abort() was called

vars == <<link, use, on, aborted>>

Init ==
    /\ link = [c \in Conns |-> "none"]
    /\ use = [r \in Calls |-> "new"]
    /\ on = [r \in Calls |-> NoConn]
    /\ aborted = FALSE

Current == {c \in Conns : link[c] \in {"opening", "open"}}

Becomes(c, l) == link' = [link EXCEPT ![c] = l]

\* A connection is opened only when there is none that calls could share.
Open(c) ==
    /\ link[c] = "none"
    /\ aborted \/ Current = {}
    /\ Becomes(c, "opening")

\* A call joins the connection that there is, or opens one.  It may still join
\* one that was lost, and waits to be moved from it then.
Ask(r, c) ==
    /\ use[r] = "new"
    /\ use' = [use EXCEPT ![r] = "waiting"]
    /\ on' = [on EXCEPT ![r] = c]
    /\ \/ Open(c)
       \/ /\ link[c] # "none"
          /\ aborted \/ link[c] = "gone" \/ Current \subseteq {c}
          /\ link' = link
    /\ aborted' = aborted

\* The connection that calls wait for turned out to be lost.
Replace(c) ==
    /\ aborted \/ \E r \in Calls : use[r] = "waiting" /\ link[on[r]] = "gone"
    /\ Open(c)
    /\ UNCHANGED <<use, on, aborted>>

Establish(c) ==
    /\ link[c] = "opening"
    /\ Becomes(c, "open")
    /\ UNCHANGED <<use, on, aborted>>

Lost(c) ==
    \/ link[c] = "open" /\ Becomes(c, "draining")
    \/ link[c] \in {"opening", "open", "draining"} /\ Becomes(c, "gone")

Lose(c) == Lost(c) /\ UNCHANGED <<use, on, aborted>>

\* Calls that wait are moved from a connection that is lost to another.
Move ==
    /\ \A r \in Calls : on'[r] # on[r] =>
          /\ use[r] = "waiting"
          /\ aborted \/ link[on[r]] = "gone"
          /\ on'[r] \in Conns /\ link[on'[r]] # "none"
    /\ UNCHANGED <<link, use, aborted>>

\* A request gets its stream on a connection that is open, connect() the news
\* that there is, or was, one; a call fails with the connection it waits for.
Answers(r, answer) ==
    /\ use[r] = "waiting"
    /\ \/ answer = "using" /\ link[on[r]] = "open"
       \/ answer = "over" /\ link[on[r]] \in {"open", "draining", "gone"}
       \/ answer = "failed" /\ (aborted \/ link[on[r]] \in {"draining", "gone"})

Answer ==
    /\ \A r \in Calls : use'[r] # use[r] => Answers(r, use'[r])
    /\ UNCHANGED <<link, on, aborted>>

\* The last stream of a connection that drains is the end of it.
Finish(r) ==
    /\ use[r] = "using"
    /\ use' = [use EXCEPT ![r] = "over"]
    /\ link' = link \/ (link[on[r]] = "draining" /\ Becomes(on[r], "gone"))
    /\ UNCHANGED <<on, aborted>>

Abort ==
    /\ aborted' = TRUE
    /\ link' = link \/ \E c \in Conns : Lost(c)
    /\ UNCHANGED <<use, on>>

Next ==
    \/ \E c \in Conns : Replace(c) \/ Establish(c) \/ Lose(c)
    \/ \E r \in Calls : Finish(r) \/ \E c \in Conns : Ask(r, c)
    \/ Move \/ Answer \/ Abort

Spec == Init /\ [][Next]_vars
=============================================================================
