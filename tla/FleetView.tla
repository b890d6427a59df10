----------------------------- MODULE FleetView -----------------------------
(***************************************************************************)
(* What the dashboard lists and what of it is selected: Timings::observe   *)
(* and build (src/src/fleet.rs), and App's view state with the handlers    *)
(* that change it (src/src/app.rs).                                        *)
(*                                                                         *)
(* Agents are listed one under the other: first those that wait on the     *)
(* user, lifted out of their repositories, then repository by repository.  *)
(* The order is that of a sort by keys; it is modelled by the keys.        *)
(*                                                                         *)
(* An agent's status_since is an Instant, of which the order asks only     *)
(* which is the earlier: since[p] counts the earlier stamps still held.    *)
(***************************************************************************)
EXTENDS Integers, FiniteSets, Sequences, Functions

CONSTANTS
    Pane,            \* pane ids
    RepoOf,          \* the repository of each pane's workspace, or None
    NameRank,        \* the order of the repositories' names, None's too
    LabelRank,       \* the order of the agents' labels, herdr's among equals
    ReportedStatus,  \* the statuses herdr reports
    Summarised,      \* the panes whose summaries may arrive
    None             \* Option::None

(* AgentStatus::urgency *)
Urgency == [Blocked |-> 0, Done |-> 1, Working |-> 2, Idle |-> 3, Unknown |-> 4]

ASSUME ViewAssumption ==
    /\ IsFiniteSet(Pane)
    /\ None \notin Pane
    /\ DOMAIN RepoOf = Pane
    /\ NameRank \in [Range(RepoOf) -> 0..Cardinality(Pane)]
    /\ IsInjective(NameRank)
    /\ LabelRank \in [Pane -> 0..Cardinality(Pane)]
    /\ IsInjective(LabelRank)
    /\ ReportedStatus \subseteq DOMAIN Urgency
    /\ Summarised \subseteq Pane

VARIABLES
    snapshot,    \* App.last_snapshot: the status of each agent listed
    since,       \* App.timings
    groups,      \* App.groups: the agents shown, as they were built
    needs,       \* App.slots: does the agent's summary say it needs the user?
    selected,    \* App.selected
    active_only,
    show_help

view == <<snapshot, since, groups, needs, selected, active_only>>
vars == <<view, show_help>>

-----------------------------------------------------------------------------
Stamp == 0..Cardinality(Pane)

Snapshots == UNION {[D -> ReportedStatus] : D \in SUBSET Pane}
Shown     == [status : ReportedStatus, since : Stamp]

TypeOK ==
    /\ snapshot \in Snapshots
    /\ DOMAIN since = DOMAIN snapshot /\ Range(since) \subseteq Stamp
    /\ DOMAIN groups \subseteq Pane /\ Range(groups) \subseteq Shown
    /\ needs \in [Pane -> BOOLEAN \cup {None}]
    /\ selected \in Pane \cup {None}
    /\ active_only \in BOOLEAN
    /\ show_help \in BOOLEAN

-----------------------------------------------------------------------------
(* Timings::observe: agents seen to change state, and agents not seen      *)
(* before, are stamped now; agents no longer listed are forgotten.         *)

(* Mutated form: those that left are kept. *)
ObserveForEver(old, new, moved) ==
    [p \in DOMAIN old \cup DOMAIN new |-> IF p \in DOMAIN old THEN old[p] ELSE 0]

Observe(old, new, moved) ==
    LET held == (DOMAIN old \cap DOMAIN new) \ moved
    IN [p \in DOMAIN new |->
          Cardinality({old[q] : q \in {r \in held : p \in held => old[r] < old[p]}})]

-----------------------------------------------------------------------------
(* build, and the order of rows. g is what is shown, n what the summaries  *)
(* say.                                                                    *)

Build(snap, stamps, active) ==
    LET visible == {p \in DOMAIN snap : ~(active /\ snap[p] \in {"Idle", "Unknown"})}
    IN [p \in visible |-> [status |-> snap[p], since |-> stamps[p]]]

(* The model's reading of the transcript, not herdr's lifecycle state. *)
NeedsAttention(g, n, p) == IF n[p] = None THEN g[p].status = "Blocked" ELSE n[p]

(* A key of several parts is compared part by part: each part is below     *)
(* Base, and the key is the number it writes.                              *)
Base == 5 + Cardinality(Pane)

(* Mutated form: the latest stamp comes first. *)
AgentKeyLatest(g, p) ==
    (Urgency[g[p].status] * Base + Cardinality(Pane) - g[p].since) * Base + LabelRank[p]

AgentKey(g, p) == (Urgency[g[p].status] * Base + g[p].since) * Base + LabelRank[p]

(* The most urgent member, lifted out or not; ungrouped loses ties. *)
GroupKey(g, repo) ==
    LET members == {p \in DOMAIN g : RepoOf[p] = repo}
        urgent  == CHOOSE p \in members : \A q \in members : Urgency[g[p].status] <= Urgency[g[q].status]
    IN (Urgency[g[urgent].status] * 2 + (IF repo = None THEN 1 ELSE 0)) * Base + NameRank[repo]

RowKey(g, n, p) ==
    ((IF NeedsAttention(g, n, p) THEN 0 ELSE 10 * Base) + GroupKey(g, RepoOf[p])) * Base * Base * Base
        + AgentKey(g, p)

(* The place of an agent among the agents shown, 1 for the topmost. *)
Place(g, n, p) ==
    LET key == RowKey(g, n, p)
    IN Cardinality({q \in DOMAIN g : RowKey(g, n, q) <= key})

AgentAt(g, n, place) == CHOOSE p \in DOMAIN g : Place(g, n, p) = place

-----------------------------------------------------------------------------
(* reconcile_selection: outward from the place the lost one had, the next  *)
(* one down before the next one up. old is what was shown, new what is.    *)

ClosestSurvivor(old, new) ==
    LET center    == Place(old, needs, selected)
        survivors == DOMAIN old \cap DOMAIN new
        Far(p)    == LET d == Place(old, needs, p) - center IN IF d > 0 THEN 2 * d ELSE 1 - 2 * d
    IN CHOOSE p \in survivors : \A q \in survivors : Far(p) <= Far(q)

(* Mutated form: whoever is now at the old place, or last. *)
ReconciledByIndex(old, new) ==
    LET place == IF selected = None THEN 1 ELSE Place(old, needs, selected)
        last  == Cardinality(DOMAIN new)
    IN IF last = 0 THEN None ELSE AgentAt(new, needs, IF place > last THEN last ELSE place)

Reconciled(old, new) ==
    CASE DOMAIN new = {} -> None
      [] selected \in DOMAIN new -> selected
      [] selected \in DOMAIN old /\ selected \notin DOMAIN new /\ DOMAIN old \cap DOMAIN new # {} ->
           ClosestSurvivor(old, new)
      [] OTHER -> AgentAt(new, needs, 1)

Rebuild(snap, stamps, active) ==
    /\ groups' = Build(snap, stamps, active)
    /\ selected' = Reconciled(groups, groups')

-----------------------------------------------------------------------------
(* What happens to the view. *)

(* apply_snapshot; moved are the agents whose state_change_seq is not the  *)
(* one last seen, which it never is when the status has changed.           *)
ApplySnapshot(snap, moved) ==
    /\ \A p \in DOMAIN snap \cap DOMAIN snapshot : snap[p] # snapshot[p] => p \in moved
    /\ snapshot' = snap
    /\ since' = Observe(since, snap, moved)
    /\ Rebuild(snap, since', active_only)
    /\ needs' = [p \in Pane |-> IF p \in DOMAIN snap THEN needs[p] ELSE None]
    /\ UNCHANGED <<active_only, show_help>>

(* apply_update on a summary: rows move, and nothing is rebuilt. *)
SummaryArrives(p, need) ==
    /\ p \in DOMAIN snapshot
    /\ needs' = [needs EXCEPT ![p] = need]
    /\ UNCHANGED <<snapshot, since, groups, selected, active_only, show_help>>

(* move_selection *)
MoveSelection(delta) ==
    LET last == Cardinality(DOMAIN groups)
        next == (IF selected \in DOMAIN groups THEN Place(groups, needs, selected) ELSE 1) + delta
    IN /\ DOMAIN groups # {}
       /\ selected' = AgentAt(groups, needs,
                              IF next < 1 THEN 1 ELSE IF next > last THEN last ELSE next)
       /\ UNCHANGED <<snapshot, since, groups, needs, active_only, show_help>>

(* g and G go further than any list is long. *)
KeyMoves ==
    /\ ~show_help
    /\ \E delta \in {-1, 1, -Cardinality(Pane), Cardinality(Pane)} : MoveSelection(delta)

(* Mutated form: the list is rebuilt and the selection left where it is. *)
KeyFiltersUnselected ==
    /\ ~show_help
    /\ active_only' = ~active_only
    /\ groups' = Build(snapshot, since, ~active_only)
    /\ UNCHANGED <<snapshot, since, needs, selected, show_help>>

KeyFilters ==
    /\ ~show_help
    /\ active_only' = ~active_only
    /\ Rebuild(snapshot, since, ~active_only)
    /\ UNCHANGED <<snapshot, since, needs, show_help>>

(* The help overlay takes every key; only its own put it away. *)
KeyHelps == show_help' = ~show_help /\ UNCHANGED view

Key == KeyMoves \/ KeyFilters \/ KeyHelps

(* select *)
Select(p) ==
    /\ p \in DOMAIN groups
    /\ selected' = p
    /\ UNCHANGED <<snapshot, since, groups, needs, active_only, show_help>>

(* The wheel and the pointer, which the overlay does not stop. *)
ScrollSelection == MoveSelection(1) \/ MoveSelection(-1)

-----------------------------------------------------------------------------
(* run applies a first snapshot to App::new(). *)
Init ==
    /\ snapshot \in Snapshots
    /\ since = [p \in DOMAIN snapshot |-> 0]
    /\ groups = Build(snapshot, since, FALSE)
    /\ needs = [p \in Pane |-> None]
    /\ selected = IF DOMAIN groups = {} THEN None ELSE AgentAt(groups, needs, 1)
    /\ active_only = FALSE
    /\ show_help = FALSE

Update ==
    \/ \E snap \in Snapshots : \E moved \in SUBSET (DOMAIN snap \cap DOMAIN snapshot) :
          ApplySnapshot(snap, moved)
    \/ \E p \in Summarised, need \in BOOLEAN : SummaryArrives(p, need)

Next ==
    \/ Update
    \/ Key
    \/ ScrollSelection
    \/ \E p \in DOMAIN groups : Select(p)

Spec == Init /\ [][Next]_vars

-----------------------------------------------------------------------------
(* Properties. *)

(* The selection is an agent on screen as long as there is one, and every  *)
(* agent on screen is one of the last snapshot: what r and Enter name is   *)
(* an agent herdr listed (reconcile_selection).                            *)
SelectionOnScreen ==
    /\ DOMAIN groups \subseteq DOMAIN snapshot
    /\ IF DOMAIN groups = {} THEN selected = None ELSE selected \in DOMAIN groups

(* What is listed is the last snapshot under the filter of the moment:     *)
(* "visible on the very next frame" (on_key), and no status of an earlier  *)
(* one.                                                                    *)
ViewIsCurrent == groups = Build(snapshot, since, active_only)

(* However a snapshot or the filter inserts, drops and reorders agents,    *)
(* the selection stays with its agent, or goes to a survivor to which none *)
(* was closer in the list the user was looking at.                         *)
SelectionStaysNear ==
    [][groups' # groups /\ DOMAIN groups \cap DOMAIN groups' # {} =>
         LET center   == Place(groups, needs, selected)
             Apart(p) == LET d == Place(groups, needs, p) - center IN IF d < 0 THEN -d ELSE d
             moved    == Apart(selected')
         IN \/ selected' = selected
            \/ /\ selected' \in DOMAIN groups
               /\ \A p \in DOMAIN groups \cap DOMAIN groups' : moved <= Apart(p)]_vars

(* Of two agents of a repository that hold their status, from poll to poll *)
(* or through any key, only one that changed state in between gives way to *)
(* the other, however long it was ahead: rows do not swap by themselves    *)
(* (Timings::observe, and the order of build).                             *)
QuietAgentsKeepOrder ==
    [][\A p, q \in DOMAIN groups \cap DOMAIN groups' :
          /\ RepoOf[p] = RepoOf[q]
          /\ \A r \in {p, q} : groups'[r].status = groups[r].status
          /\ AgentKey(groups, p) < AgentKey(groups, q)
          /\ AgentKey(groups', q) < AgentKey(groups', p)
          => \A moved \in SUBSET DOMAIN snapshot :
                since' = Observe(since, snapshot', moved) => p \in moved]_vars
=============================================================================
