------------------------------ MODULE Sidebar ------------------------------
(***************************************************************************)
(* The lines the sidebar draws and the pointer that clicks on them:        *)
(* layout and hit_test (src/src/ui/mod.rs), build, scroll_offset and       *)
(* agent_at (src/src/ui/sidebar.rs), on_mouse (src/src/main.rs).           *)
(*                                                                         *)
(* Drawing keeps no state: lines and scroll offset follow from the view,   *)
(* from the size of the terminal and from the text below each agent (what  *)
(* it waits for, its headline, an error), so size and text are inputs      *)
(* here, and what must hold on screen must hold for all of them.           *)
(***************************************************************************)
EXTENDS FleetView, FiniteSetsExt

CONSTANTS
    TextLines,   \* how many lines of text an agent may have below its own
    ShortRows,   \* theme::SHORT_ROWS
    TerminalRows \* the heights of the terminals it runs in

ASSUME SidebarAssumption ==
    /\ TextLines \subseteq Nat
    /\ ShortRows \in Nat
    /\ TerminalRows \subseteq Nat

-----------------------------------------------------------------------------
(* header::height, and what layout leaves to the sidebar between the       *)
(* header and the line of the footer.                                      *)

HeaderHeight(rows, overview) ==
    LET wanted == IF ~overview THEN 1 ELSE IF rows < ShortRows THEN 2 ELSE 3
    IN IF wanted < rows THEN wanted ELSE rows

SidebarHeight(rows, overview) ==
    LET rest == rows - HeaderHeight(rows, overview) IN IF rest > 0 THEN rest - 1 ELSE 0

-----------------------------------------------------------------------------
(* The line buffer, counted from 0: a header for the waiting, then one for *)
(* each repository with agents left, set off by a blank line.              *)

Waiting == {p \in DOMAIN groups : NeedsAttention(groups, needs, p)}

(* The lines of text below each agent shown. *)
Texts == [DOMAIN groups -> TextLines]

TextOf(text, P) == MapThenSumSet(LAMBDA p : 1 + text[p], P)

(* Header and blank lines above the agents of P, the topmost of all. *)
HeaderLines(P) ==
    LET sections == Cardinality({RepoOf[q] : q \in P \ Waiting})
    IN IF Waiting # {} THEN 1 + 2 * sections
       ELSE IF sections = 0 THEN 0 ELSE 2 * sections - 1

Start(text, p) ==
    LET key   == RowKey(groups, needs, p)
        above == {q \in DOMAIN groups : RowKey(groups, needs, q) < key}
    IN TextOf(text, above) + HeaderLines(above \cup {p})

Total(text) == TextOf(text, DOMAIN groups) + HeaderLines(DOMAIN groups)

(* The first line on screen; start and end are those of the selection.     *)
(* Mutated form: the end of the text in view, at whatever cost.            *)
ScrollNaive(start, end, total, height) ==
    IF height = 0 \/ total <= height \/ end <= height THEN 0 ELSE end - height

ScrollOffset(start, end, total, height) ==
    IF height = 0 \/ total <= height
    THEN 0
    ELSE Min({IF end > height THEN end - height ELSE 0, start, total - height})

Scroll(text, height) ==
    IF selected = None
    THEN 0
    ELSE LET start == Start(text, selected)
         IN ScrollOffset(start, start + 1 + text[selected], Total(text), height)

-----------------------------------------------------------------------------
(* agent_at: the agents with a line in the rows that are the sidebar's. *)
OnScreen(text, height) ==
    LET top == Scroll(text, height)
    IN {p \in DOMAIN groups :
          LET start == Start(text, p) IN start < top + height /\ top < start + 1 + text[p]}

(* on_mouse: a click on the selected agent asks herdr for its focus and    *)
(* changes nothing here. A narrow terminal may show the detail in the      *)
(* place of the sidebar, and then nothing is clicked.                      *)
Click ==
    \E p \in UNION {OnScreen(text, SidebarHeight(rows, overview)) :
                      text \in Texts, rows \in TerminalRows, overview \in BOOLEAN} :
       p # selected /\ Select(p)

Pointer == ScrollSelection \/ Click

SidebarSpec == Init /\ [][Update \/ Key \/ Pointer]_vars

-----------------------------------------------------------------------------
(* Properties. *)

(* The line of the selected agent is on screen in every terminal that has  *)
(* a line for the sidebar at all: "reserving room for the headline rows    *)
(* must never push the identity row above the viewport" (scroll_offset).   *)
SelectedLineInView ==
    selected # None =>
       \A text \in Texts, rows \in TerminalRows, overview \in BOOLEAN :
          LET height == SidebarHeight(rows, overview)
              top    == Scroll(text, height)
          IN height > 0 => Start(text, selected) \in top..(top + height - 1)
=============================================================================
