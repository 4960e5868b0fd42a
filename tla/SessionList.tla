---------------------------- MODULE SessionList ----------------------------
(***************************************************************************)
(* The session list in the side bar (app/sessions.rs and its arms in       *)
(* App::handle_actions): the second writer of the store's session map.     *)
(* The list comes as a whole, over the transport or from a REST thread,    *)
(* and replaces the map; a delete removes its row at once and asks the     *)
(* server afterwards, in a thread of its own.  A click carries the index   *)
(* of a row that was drawn earlier.                                        *)
(*                                                                         *)
(* Actions are posted to one queue, in order; each is handled as a whole.  *)
(* MaxLists bounds the list replies and MaxRowClicks the clicks.           *)
(***************************************************************************)
EXTENDS Store, FiniteSets, FiniteSetsExt

CONSTANTS MaxLists, MaxRowClicks

ASSUME SessionListAssumption == IsFiniteSet(Sessions)

VARIABLES
    drawn,     \* the rows on screen: the sidebar at the last draw
    posted,    \* the SessionListActions on their way to handle_actions
    stored,    \* the sessions the server keeps
    deleting,  \* the delete threads that have not ended
    asked,     \* the list replies so far
    clicks,    \* the clicks so far
    gone,      \* history: the sessions the user deleted
    crossed    \* history: those a later list named, or a click made before

listVars == <<drawn, posted, stored, deleting, asked, clicks, gone, crossed>>

SessionListInit ==
    /\ drawn = <<>> /\ posted = <<>> /\ stored = Sessions /\ deleting = {}
    /\ asked = 0 /\ clicks = 0
    /\ gone = {} /\ crossed = {}

Keep == UNCHANGED <<work, notices, peer, served, missed>>

\* hydrate_from_ws_value, hydrate_sessions: the reply to one request, as the
\* server's list was when it was served (most recent first).
ServeList ==
    /\ asked < MaxLists /\ asked' = asked + 1
    /\ \E list \in SetToSeqs(stored) : posted' = Append(posted, [kind |-> "Hydrated", list |-> list])
    /\ UNCHANGED <<storeVars, drawn, stored, deleting, clicks, gone, crossed>>

Take(kind) == posted # <<>> /\ Head(posted).kind = kind /\ posted' = Tail(posted)

\* The map is replaced: every flag is lost.
Replaced(list) == sidebar' = list /\ streaming' = {} /\ busy' = {}

Hydrated ==
    /\ Take("Hydrated")
    /\ LET list == Head(posted).list IN
       /\ Replaced(list)
       /\ crossed' = crossed \cup (gone \cap ToSet(list))
    /\ Keep /\ UNCHANGED <<place, drawn, stored, deleting, asked, clicks, gone>>

DrawList ==
    /\ drawn' = sidebar
    /\ UNCHANGED <<storeVars, posted, stored, deleting, asked, clicks, gone, crossed>>

\* The widget finds the row in the map of the moment, by its index.
RowAt(i) == sidebar[i]

\* handle_event of the SessionList widget: one of the two buttons of a row.
ClickRow(kind, i) ==
    /\ clicks < MaxRowClicks /\ clicks' = clicks + 1
    /\ IF i \in DOMAIN sidebar
       THEN posted' = Append(posted, [kind |-> kind, id |-> RowAt(i)])
       ELSE UNCHANGED posted
    /\ UNCHANGED <<storeVars, drawn, stored, deleting, asked, gone, crossed>>

\* NavigationEvent::OpenSession; the shell resumes the session (AppShell).
Selected ==
    /\ Take("Selected")
    /\ current' = Head(posted).id /\ screen' = "Chat"
    /\ crossed' = crossed \cup (gone \cap {Head(posted).id})
    /\ Keep /\ UNCHANGED <<flags, drawn, stored, deleting, asked, clicks, gone>>

\* SessionMap::remove: a session has one row at most.
Position(s) == CHOOSE i \in DOMAIN sidebar : sidebar[i] = s
Without(s) ==
    /\ sidebar' = IF s \in Listed THEN RemoveAt(sidebar, Position(s)) ELSE sidebar
    /\ streaming' = streaming \ {s} /\ busy' = busy \ {s}

\* Mutant: the pointer stays.
UnpointedNever(s) == UNCHANGED current

\* The pointer to a deleted session is cleared.
Unpointed(s) == current' = IF current = s THEN NoSession ELSE current

DeleteRequested ==
    /\ Take("DeleteRequested")
    /\ LET s == Head(posted).id IN
       /\ Without(s) /\ Unpointed(s)
       /\ deleting' = deleting \cup {s}
       /\ gone' = gone \cup {s} /\ crossed' = crossed \ {s}
    /\ Keep /\ UNCHANGED <<screen, drawn, stored, asked, clicks>>

\* delete_session_remote: the reply Deleted changes nothing.
DeleteServed(s) ==
    /\ s \in deleting /\ deleting' = deleting \ {s}
    /\ stored' = stored \ {s}
    /\ UNCHANGED <<storeVars, drawn, posted, asked, clicks, gone, crossed>>

\* It fails, and the thread asks for the list again, which a server that has
\* retired `GET /api/sessions` refuses: both are Failed actions that are only
\* logged.
DeleteFails(s) ==
    /\ s \in deleting /\ deleting' = deleting \ {s}
    /\ \/ UNCHANGED <<posted, asked>>
       \/ /\ asked < MaxLists /\ asked' = asked + 1
          /\ \E list \in SetToSeqs(stored) : posted' = Append(posted, [kind |-> "Hydrated", list |-> list])
    /\ UNCHANGED <<storeVars, drawn, stored, clicks, gone, crossed>>

SessionListNext ==
    \/ ServeList \/ Hydrated \/ DrawList \/ Selected \/ DeleteRequested
    \/ \E kind \in {"Selected", "DeleteRequested"}, i \in DOMAIN drawn : ClickRow(kind, i)
    \/ \E s \in Sessions : DeleteServed(s) \/ DeleteFails(s)

-----------------------------------------------------------------------------

\* A session the user deleted is neither listed nor the current one, unless a
\* list served before the server knew, or a click of before, came in between:
\* the only ways an optimistic delete is undone (main.rs, DeleteRequested).
DeletedStaysAway == \A s \in gone \ crossed : s \notin Listed /\ s # current

=============================================================================
