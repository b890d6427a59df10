------------------------------ MODULE Session ------------------------------
(***************************************************************************)
(* One herdash from its command line to its end: main and run              *)
(* (src/src/main.rs) around the loop, and the task that keeps a token in   *)
(* herdr's sidebar while the process lives.                                *)
(*                                                                         *)
(*   main       reads its settings, reaches herdr, takes the terminal,     *)
(*              claims its space, loops, and undoes all that;              *)
(*   publisher  reports the token at every tick, one call at a time; it is *)
(*              never told to stop and dies with the process;              *)
(*   herdr      takes a request while its caller waits, or after the       *)
(*              caller has given up, or never.                             *)
(*                                                                         *)
(* Time passes in units of the limit of a call. What a claim does to the   *)
(* space is in SpaceClaims, and the loop in Orchestrator and FleetView;    *)
(* here they only take time.                                               *)
(***************************************************************************)
EXTENDS ProviderConfig, Naturals

CONSTANTS
    Refresh,    \* SIDEBAR_TOKEN_REFRESH
    Ttl,        \* SIDEBAR_TOKEN_TTL
    CallLimit,  \* REQUEST_TIMEOUT
    MaxLate     \* bound: requests herdr may still take from callers that are gone

ASSUME SessionAssumption ==
    /\ Refresh \in Nat \ {0}
    /\ Ttl \in Nat \ {0}
    /\ CallLimit \in Nat \ {0}
    /\ CallLimit < Refresh
    /\ MaxLate \in Nat
    /\ None \notin BaseUrl

VARIABLES
    main,       \* where main is
    settings,   \* Settings, or None before there are any
    term,       \* the terminal's modes
    ended,      \* how the process ended, or why it is about to
    publisher,  \* the task, or None
    clear,      \* main's last call, or None
    late,       \* reports of the token that herdr has from callers that gave up
    token,      \* herdr: how long the token stays, 0 when it is not there
    drops,      \* history: calls of the publisher lost in a row; 2 is more, or none got through
    raced       \* history: a report of the token was not out of the way of the clear

process   == <<main, settings, term, ended>>
tokenVars == <<publisher, clear, late, token, drops, raced>>
vars == <<process, tokenVars>>

-----------------------------------------------------------------------------
Summaries ==
    [mode : {"On", "OnLocal"}, detail : {"name"}, provider : Provider]
      \cup [mode : {"OffNoKey"}, detail : {"not set", "not sent"}, provider : {None}]
      \cup [mode : {"OffByFlag"}, detail : {None}, provider : {None}]

Settings == [summaries : Summaries, mouse : BOOLEAN, publishToken : BOOLEAN,
             workspace : BOOLEAN]   \* is there one in $HERDR_WORKSPACE_ID?

(* main, by what it does next. *)
Phase ==
    {"configure", "connect", "init", "mouse",           \* main
     "claim", "loop", "release", "clear",               \* run
     "unmouse", "restore",                              \* main again
     "gone"}

(* A call to herdr: the time its caller still gives it, and whether herdr  *)
(* has taken it.                                                           *)
Call == [left : 0..CallLimit, taken : BOOLEAN]

NewCall == [left |-> CallLimit, taken |-> FALSE]

ASSUME NoneIsNoCall == None \notin Call

TypeOK ==
    /\ main \in Phase
    /\ settings \in Settings \cup {None}
    /\ term \in [raw : BOOLEAN, mouse : BOOLEAN]
    /\ ended \in {None, "refused", "quit", "draw failed", "panicked", "killed"}
    /\ publisher \in [tick : 0..Refresh, call : Call \cup {None}] \cup {None}
    /\ clear \in Call \cup {None}
    /\ late \in 0..MaxLate
    /\ token \in 0..Ttl
    /\ drops \in 0..2
    /\ raced \in BOOLEAN

-----------------------------------------------------------------------------
(* The start. Until the terminal is taken an error just ends the process.  *)

Configure ==
    /\ main = "configure"
    /\ \E flags \in Flags, env \in Environment, workspace \in BOOLEAN :
          \/ /\ Refused(flags)
             /\ main' = "gone" /\ ended' = "refused"
             /\ UNCHANGED settings
          \/ /\ ~Refused(flags)
             /\ settings' =
                  LET status == SummariesStatus(flags, env)
                  IN [summaries    |-> [mode     |-> status.mode,
                                        detail   |-> status.detail,
                                        provider |-> UsableProvider(flags, env)],
                      mouse        |-> ~flags.noMouse,
                      publishToken |-> ~flags.noToken,
                      workspace    |-> workspace]
             /\ main' = "connect"
             /\ UNCHANGED ended
    /\ UNCHANGED <<term, tokenVars>>

Connect ==
    /\ main = "connect"
    /\ \/ main' = "init" /\ UNCHANGED ended
       \/ main' = "gone" /\ ended' = "refused"   \* herdr could not be reached
    /\ UNCHANGED <<settings, term, tokenVars>>

(* ratatui::init and the panic hook. *)
TakeTerminal ==
    /\ main = "init"
    /\ term' = [term EXCEPT !.raw = TRUE]
    /\ main' = "mouse"
    /\ UNCHANGED <<settings, ended, tokenVars>>

(* The publisher's first tick is due at once. *)
StartsPublisher ==
    publisher' = IF settings.publishToken /\ settings.workspace
                 THEN [tick |-> 0, call |-> None] ELSE None

(* Mouse capture may be refused, and nothing comes of it; then run begins. *)
EnterRun ==
    /\ main = "mouse"
    /\ \E on \in {settings.mouse, FALSE} : term' = [term EXCEPT !.mouse = on]
    /\ StartsPublisher
    /\ main' = "claim"
    /\ UNCHANGED <<settings, ended, clear, late, token, drops, raced>>

Claimed ==
    /\ main = "claim"
    /\ main' = "loop"
    /\ UNCHANGED <<settings, term, ended, tokenVars>>

-----------------------------------------------------------------------------
(* The publisher. *)

Calling(caller) == caller # None /\ caller.call # None

(* A report of the token that herdr may still take. *)
ReportPending == late > 0 \/ (Calling(publisher) /\ ~publisher.call.taken)

(* From here on a report may undo what the clear did. *)
Clearing == main \in {"clear", "unmouse", "restore"}

(* interval: the ticks keep their pace, whatever the calls between them.   *)
Publish ==
    /\ publisher # None
    /\ publisher.tick = 0
    /\ publisher.call = None
    /\ publisher' = [tick |-> Refresh, call |-> NewCall]
    /\ raced' = (raced \/ Clearing)
    /\ UNCHANGED <<process, clear, late, token, drops>>

TakeReport ==
    /\ Calling(publisher)
    /\ ~publisher.call.taken
    /\ token' = Ttl
    /\ publisher' = [publisher EXCEPT !.call.taken = TRUE]
    /\ UNCHANGED <<process, clear, late, drops, raced>>

(* Mutated form: a wait between the calls in place of an interval. *)
TickAfterCall(task) == [task EXCEPT !.call = None, !.tick = Refresh]

WithoutCall(task) == [task EXCEPT !.call = None]

(* The call ends: answered, refused, or out of time. *)
PublishEnds ==
    /\ Calling(publisher)
    /\ publisher' = WithoutCall(publisher)
    /\ drops' = IF publisher.call.taken THEN 0 ELSE IF drops < 2 THEN drops + 1 ELSE 2
    /\ \/ UNCHANGED late
       \/ /\ ~publisher.call.taken
          /\ publisher.call.left = 0
          /\ late < MaxLate
          /\ late' = late + 1
    /\ UNCHANGED <<process, clear, token, raced>>

(* What a caller left behind, herdr takes or drops. *)
TakeLate ==
    /\ late > 0
    /\ late' = late - 1
    /\ token' \in {token, Ttl}
    /\ UNCHANGED <<process, publisher, clear, drops, raced>>

-----------------------------------------------------------------------------
(* The end. *)

(* Mutated form: the publisher is not one of the process's tasks. *)
ProcessEndsDetached == main' = "gone" /\ UNCHANGED <<publisher, late>>

(* The runtime goes and takes its tasks along; a call on its way may still *)
(* reach herdr.                                                            *)
ProcessEnds ==
    /\ main' = "gone"
    /\ publisher' = None
    /\ \/ UNCHANGED late
       \/ /\ Calling(publisher)
          /\ ~publisher.call.taken
          /\ late < MaxLate
          /\ late' = late + 1

Quit ==
    /\ main = "loop"
    /\ main' = "release"
    /\ ended' = "quit"
    /\ UNCHANGED <<settings, term, tokenVars>>

(* The ? of terminal.draw leaves run there and then: nothing is released   *)
(* and nothing cleared.                                                    *)
DrawFails ==
    /\ main = "loop"
    /\ main' = "unmouse"
    /\ ended' = "draw failed"
    /\ UNCHANGED <<settings, term, tokenVars>>

(* release_space is done; the token is cleared even if it was never        *)
(* published.                                                              *)
Released ==
    /\ main = "release"
    /\ IF settings.workspace
       THEN main' = "clear" /\ clear' = NewCall /\ raced' = ReportPending
       ELSE main' = "unmouse" /\ UNCHANGED <<clear, raced>>
    /\ UNCHANGED <<settings, term, ended, publisher, late, token, drops>>

(* Mutated form: the token is reported once more, for its last second.     *)
ClearedSoon == 1

(* A token reported with no value is gone. *)
Cleared == 0

TakeClear ==
    /\ clear # None
    /\ ~clear.taken
    /\ token' = Cleared
    /\ clear' = [clear EXCEPT !.taken = TRUE]
    /\ UNCHANGED <<process, publisher, late, drops, raced>>

ClearEnds ==
    /\ main = "clear"
    /\ main' = "unmouse"
    /\ UNCHANGED <<settings, term, ended, tokenVars>>

ReleaseMouse ==
    /\ main = "unmouse"
    /\ term' = [term EXCEPT !.mouse = @ /\ ~settings.mouse]
    /\ main' = "restore"
    /\ UNCHANGED <<settings, ended, tokenVars>>

RestoreTerminal ==
    /\ main = "restore"
    /\ term' = [term EXCEPT !.raw = FALSE]
    /\ ProcessEnds
    /\ UNCHANGED <<settings, ended, clear, token, drops, raced>>

(* Mutated form: a hook that forgets the mouse. *)
HookRawOnly == term' = [term EXCEPT !.raw = FALSE]

(* The panic hook. *)
Hook == term' = [raw |-> FALSE, mouse |-> FALSE]

Panic ==
    /\ main \in Phase \ {"configure", "connect", "init", "gone"}
    /\ Hook
    /\ ended' = "panicked"
    /\ ProcessEnds
    /\ UNCHANGED <<settings, clear, token, drops, raced>>

Kill ==
    /\ main # "gone"
    /\ ended' = "killed"
    /\ ProcessEnds
    /\ UNCHANGED <<settings, term, clear, token, drops, raced>>

-----------------------------------------------------------------------------
(* A unit of time passes, and nothing that is due waits for longer: a tick *)
(* starts its call, and a call out of time ends.                           *)

OneLess(n) == IF n = 0 THEN 0 ELSE n - 1

Older(call) == IF call = None THEN None ELSE [call EXCEPT !.left = @ - 1]

Overdue ==
    \/ publisher # None /\ publisher.tick = 0 /\ publisher.call = None
    \/ Calling(publisher) /\ publisher.call.left = 0
    \/ main = "clear" /\ clear.left = 0

Elapse ==
    /\ ~Overdue
    /\ main \in {"claim", "loop", "release", "clear", "gone"}
    /\ token' = OneLess(token)
    /\ publisher' = IF publisher = None THEN None
                    ELSE [tick |-> OneLess(publisher.tick), call |-> Older(publisher.call)]
    /\ clear' = IF main = "clear" THEN Older(clear) ELSE clear
    /\ UNCHANGED <<process, late, drops, raced>>

-----------------------------------------------------------------------------
Init ==
    /\ main = "configure"
    /\ settings = None
    /\ term = [raw |-> FALSE, mouse |-> FALSE]
    /\ ended = None
    /\ publisher = None
    /\ clear = None
    /\ late = 0
    /\ token = 0
    /\ drops = 2
    /\ raced = FALSE

Main ==
    \/ Configure \/ Connect \/ TakeTerminal \/ EnterRun \/ Claimed
    \/ Quit \/ DrawFails \/ Released \/ ClearEnds \/ ReleaseMouse \/ RestoreTerminal
    \/ Panic \/ Kill

Publisher == Publish \/ PublishEnds

HerdrTakes == TakeReport \/ TakeClear \/ TakeLate

Next == Main \/ Publisher \/ HerdrTakes \/ Elapse

Spec == Init /\ [][Next]_vars

(* Time passes, and herdr takes or drops in the end what it has got.       *)
FairSpec == Spec /\ WF_vars(Elapse) /\ WF_vars(TakeLate)

-----------------------------------------------------------------------------
(* Properties. *)

(* "A crash never leaves a broken tty behind": however the process ends,   *)
(* unless it is killed, the terminal is as it was found, the mouse too.    *)
TerminalGivenBack ==
    main = "gone" /\ ended # "killed" => ~term.raw /\ ~term.mouse

(* "Vendor keys are bound to the preset's own origin": a key that was not  *)
(* named for this run goes to the vendor it belongs to (resolve_api_key).  *)
KeysStayHome ==
    settings # None /\ settings.summaries.provider # None =>
       LET p == settings.summaries.provider
       IN p.key \in KeyPlace \ {"HERDASH_API_KEY"} =>
             \E v \in Vendor : /\ p.key = EnvVar(v) \/ (v = "openrouter" /\ p.key = KeyFile)
                              /\ SameOrigin(DefaultUrl(v), p.url)

(* "Refresh well inside the TTL so one dropped call is not visible": once  *)
(* it is there, and until main sets about clearing it, the token goes only *)
(* if two calls in a row are lost.                                         *)
TokenSurvivesADrop ==
    main \in {"claim", "loop", "release"} /\ publisher # None /\ drops < 2 => token > 0

(* "Drop the sidebar token on a clean exit rather than making the user     *)
(* wait out the TTL": where herdr took the clear, and no report of the     *)
(* token was on its way or set out while main cleared, it is gone at once. *)
ClearedAtExit ==
    main = "gone" /\ ended = "quit" /\ clear # None /\ clear.taken /\ ~raced => token = 0

(* "A herdash that is killed rather than closed leaves nothing behind":    *)
(* whatever the end, the token goes and does not come back.                *)
TokenGoes == main = "gone" ~> [](token = 0)
=============================================================================
