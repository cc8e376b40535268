----------------------------- MODULE DndControl -----------------------------
(***************************************************************************)
(* The control channel to the routing daemon: talktcl() and the commands   *)
(* dnd.py sends through it, as operators on a record s whose fields        *)
(*   routes  the daemon's route table, a set of [dest, link] records       *)
(*   links   the names of the daemon's links                               *)
(*   up      whether a console connection to the daemon succeeds           *)
(* are the daemon's state.  When the connection fails talktcl returns      *)
(* None: a command has no effect, getLinksRoutes() returns two empty       *)
(* lists and getRegistrationList() returns None.  What the daemon does     *)
(* with "route add", "route del" and "link add" is the daemon's code,      *)
(* which is not part of this source tree.                                  *)
(***************************************************************************)
EXTENDS DndEid

CONSTANTS
    Registrations,  \* registration list of the daemon, in listing order
    None            \* Python's None

DefaultLink == "default"

Route(d, l) == [dest |-> d, link |-> l]

\* getLinksRoutes(): what "route dump" lists, or nothing if unreachable.
DumpedRoutes(s) == IF s.up THEN s.routes ELSE {}

\* The link list of getLinksRoutes(), or nothing if unreachable.
DumpedLinks(s) == IF s.up THEN s.links ELSE {}

\* getRegistrationList(): the registrations, or None if unreachable.
RegistrationList(s) == IF s.up THEN Registrations ELSE None

\* "route del eid": the daemon drops every route whose pattern is eid.
TclRouteDel(s, eid) ==
    IF s.up THEN [s EXCEPT !.routes = {r \in @ : r.dest # eid}] ELSE s

\* "route add eid link": fails if the link does not exist.
TclRouteAdd(s, eid, l) ==
    IF s.up /\ l \in s.links
    THEN [s EXCEPT !.routes = @ \cup {Route(eid, l)}]
    ELSE s

\* "link add name host:port ONDEMAND tcp": an existing name is refused.
TclLinkAdd(s, l) ==
    IF s.up THEN [s EXCEPT !.links = @ \cup {l}] ELSE s

=============================================================================
