---------------------------- MODULE SpaceClaims ----------------------------
(***************************************************************************)
(* The name herdash gives the space it runs in, and how it gives it back:  *)
(* claim_space and release_space (src/src/main.rs) over the state file of  *)
(* src/src/space.rs.                                                       *)
(*                                                                         *)
(* Any number of herdash run side by side, in the same space or in others, *)
(* and under names of their own (--space-name). They share herdr's labels  *)
(* and one state file, and neither is locked:                              *)
(* every call to herdr, every read of the file and both halves of a write  *)
(* (truncate, then fill) is a step of its own, between which the others,   *)
(* the user and a kill may come.                                           *)
(*                                                                         *)
(* What may go wrong differs from day to day, and the day is picked at the *)
(* start:                                                                  *)
(*   killed      herdash is killed at work, not only while it waits;       *)
(*   refused     herdr does not answer, or refuses;                        *)
(*   lostAnswer  herdr renames, and the answer does not come in time;      *)
(*   unsaved     the state file cannot be written;                         *)
(*   overlap     two herdash are at work on their spaces at the same time; *)
(*   userRace    the user renames a space while a herdash is at work.      *)
(***************************************************************************)
EXTENDS Naturals, FiniteSets, Functions

CONSTANTS
    Instance,     \* runs of herdash, each from its start to its end
    Space,        \* workspace ids
    Home,         \* Home[i]: Settings.workspace_id
    UserLabel,    \* names a user, or herdr itself, gives a space
    HerdashName,  \* names that runs are told to give: Settings.space_name
    Days,         \* the sets of mishaps a day may have
    None

Mishap == {"killed", "refused", "lostAnswer", "unsaved", "overlap", "userRace"}

ASSUME SpaceAssumption ==
    /\ Home \in [Instance -> Space]
    /\ HerdashName \cap UserLabel = {}
    /\ None \notin UserLabel \cup HerdashName
    /\ Days \subseteq SUBSET Mishap

VARIABLES
    label,   \* herdr: the label of each space
    file,    \* the state file: what it parses to, or Torn
    run,     \* where each herdash is, and its local variables
    wanted,  \* history: the label each space was last given by its user
    mishaps  \* what may go wrong today; it does not change

vars == <<label, file, run, wanted, mishaps>>

-----------------------------------------------------------------------------
Label == UserLabel \cup HerdashName

(* Which run made a claim is not recorded, only the name it gave. *)
Claim == [applied : HerdashName, original : Label]

(* Claims.spaces *)
Claims == UNION {[S -> Claim] : S \in SUBSET Space}

NoClaims == [s \in {} |-> None]

(* A file that is missing, empty or half written reads as no claims. *)
Torn == None
Load(f) == IF f = Torn THEN NoClaims ELSE f

ASSUME TornAssumption == Torn \notin Claims

Without(claims, s) == Restrict(claims, DOMAIN claims \ {s})

Added(claims, s, claim) ==
    [t \in DOMAIN claims \cup {s} |-> IF t = s THEN claim ELSE claims[t]]

(* Mutated form: what the user has called the space since is not asked. *)
RestoresAlways(claim, current) == TRUE

(* restore_target *)
Restores(claim, current) == current = claim.applied

(* Where a herdash is:                                                     *)
(*   release_space   load, look, restore, truncate, write                  *)
(*   claim_space     ask, rename, reload, clear, fill    after its release *)
(*   in between      running; off before, gone after                       *)
AtRest  == {"off", "running", "gone"}
Release == {"load", "look", "restore", "truncate", "write"}
ClaimPc == {"ask", "rename", "reload", "clear", "fill"}

(* claim and current hold what the code keeps in those names. name is      *)
(* Settings.space_name, each run's own flag, as long as it is needed.      *)
Run == [at      : AtRest \cup Release \cup ClaimPc,
        on      : {"start", "exit"},   \* whose release it is
        name    : HerdashName \cup {None},
        claims  : Claims,
        claim   : Claim \cup {None},
        current : Label \cup {None}]

Resting(at, on) ==
    [at |-> at, on |-> on, name |-> None,
     claims |-> NoClaims, claim |-> None, current |-> None]

(* At work under name n, with nothing in hand. *)
Named(at, n) == [Resting(at, "start") EXCEPT !.name = n]

TypeOK ==
    /\ label \in [Space -> Label]
    /\ file \in Claims \cup {Torn}
    /\ run \in [Instance -> Run]
    /\ wanted \in [Space -> UserLabel]
    /\ mishaps \in Days

-----------------------------------------------------------------------------
AtWork == {i \in Instance : run[i].at \notin AtRest}

MaySetOut(i) == "overlap" \in mishaps \/ AtWork = {}

Goes(i, r) == run' = [run EXCEPT ![i] = r]

(* A rename sent to herdr: done, refused, or done with no answer. *)
RenameDone(s, l)  == label' = [label EXCEPT ![s] = l]
RenameFails(s, l) ==
    \/ "refused" \in mishaps /\ label' = label
    \/ "lostAnswer" \in mishaps /\ label' = [label EXCEPT ![s] = l]

-----------------------------------------------------------------------------
(* release_space, at the start of claim_space and again at the exit.       *)

Released(i) == IF run[i].on = "exit" THEN Resting("gone", "exit") ELSE Named("ask", run[i].name)

(* Mutated form: a start that does not clean up first. *)
StartUnreleased(i) ==
    /\ run[i].at = "off"
    /\ MaySetOut(i)
    /\ \E n \in HerdashName : Goes(i, Named("ask", n))
    /\ UNCHANGED <<label, file, wanted>>

(* Under --no-rename-space nothing is claimed, and nothing released until  *)
(* the exit.                                                               *)
Start(i) ==
    /\ run[i].at = "off"
    /\ MaySetOut(i)
    /\ \/ \E n \in HerdashName : Goes(i, Named("load", n))
       \/ Goes(i, Resting("running", "start"))
    /\ UNCHANGED <<label, file, wanted>>

Quit(i) ==
    /\ run[i].at = "running"
    /\ MaySetOut(i)
    /\ Goes(i, Resting("load", "exit"))
    /\ UNCHANGED <<label, file, wanted>>

LoadClaims(i) ==
    /\ run[i].at = "load"
    /\ LET claims == Load(file)
       IN Goes(i, IF Home[i] \in DOMAIN claims
                  THEN [run[i] EXCEPT !.at     = "look",
                                      !.claims = Without(claims, Home[i]),
                                      !.claim  = claims[Home[i]]]
                  ELSE Released(i))
    /\ UNCHANGED <<label, file, wanted>>

LookAtLabel(i) ==
    /\ run[i].at = "look"
    /\ \/ Goes(i, [run[i] EXCEPT !.at = IF Restores(run[i].claim, label[Home[i]])
                                        THEN "restore" ELSE "truncate"])
       \/ "refused" \in mishaps /\ Goes(i, [run[i] EXCEPT !.at = "truncate"])
    /\ UNCHANGED <<label, file, wanted>>

(* Whether herdr did it is not asked: the claim goes either way. *)
Restore(i) ==
    /\ run[i].at = "restore"
    /\ RenameDone(Home[i], run[i].claim.original) \/ RenameFails(Home[i], run[i].claim.original)
    /\ Goes(i, [run[i] EXCEPT !.at = "truncate"])
    /\ UNCHANGED <<file, wanted>>

(* Claims::save, in two halves; then what follows it. *)
SaveBegins(i, from, to, after) ==
    /\ run[i].at = from
    /\ \/ file' = Torn /\ Goes(i, [run[i] EXCEPT !.at = to])
       \/ "unsaved" \in mishaps /\ file' = file /\ Goes(i, after)
    /\ UNCHANGED <<label, wanted>>

SaveEnds(i, from, after) ==
    /\ run[i].at = from
    /\ file' = run[i].claims
    /\ Goes(i, after)
    /\ UNCHANGED <<label, wanted>>

SaveReleased(i) ==
    \/ SaveBegins(i, "truncate", "write", Released(i))
    \/ SaveEnds(i, "write", Released(i))

-----------------------------------------------------------------------------
(* claim_space, once its release is done.                                  *)

(* Mutated forms: the old name is not remembered; a space that already has *)
(* our name is claimed again.                                              *)
AskNothing(i) ==
    /\ run[i].at = "ask"
    /\ Goes(i, [run[i] EXCEPT !.at = "rename"])
    /\ UNCHANGED <<label, file, wanted>>
AskAndClaim(i) ==
    /\ run[i].at = "ask"
    /\ Goes(i, [run[i] EXCEPT !.at = "rename", !.current = label[Home[i]]])
    /\ UNCHANGED <<label, file, wanted>>

(* Named already: another herdash owns it. One that goes by another name   *)
(* is not told from a user.                                                *)
Ask(i) ==
    /\ run[i].at = "ask"
    /\ \/ /\ label[Home[i]] # run[i].name
          /\ Goes(i, [run[i] EXCEPT !.at = "rename", !.current = label[Home[i]]])
       \/ /\ label[Home[i]] = run[i].name \/ "refused" \in mishaps
          /\ Goes(i, Resting("running", "start"))
    /\ UNCHANGED <<label, file, wanted>>

Rename(i) ==
    /\ run[i].at = "rename"
    /\ \/ RenameDone(Home[i], run[i].name) /\ Goes(i, [run[i] EXCEPT !.at = "reload"])
       \/ RenameFails(Home[i], run[i].name) /\ Goes(i, Resting("running", "start"))
    /\ UNCHANGED <<file, wanted>>

NewClaim(i) == [applied |-> run[i].name, original |-> run[i].current]

(* Mutated form: the file's other claims are not read first. *)
ReloadForgetful(i) ==
    /\ run[i].at = "reload"
    /\ Goes(i, [run[i] EXCEPT !.at = "clear", !.claims = Added(NoClaims, Home[i], NewClaim(i))])
    /\ UNCHANGED <<label, file, wanted>>

Reload(i) ==
    /\ run[i].at = "reload"
    /\ Goes(i, [run[i] EXCEPT !.at = "clear", !.claims = Added(Load(file), Home[i], NewClaim(i))])
    /\ UNCHANGED <<label, file, wanted>>

SaveClaimed(i) ==
    \/ SaveBegins(i, "clear", "fill", Resting("running", "start"))
    \/ SaveEnds(i, "fill", Resting("running", "start"))

-----------------------------------------------------------------------------
(* Killed, the process or the machine: nothing of the exit runs. *)
Kill(i) ==
    /\ run[i].at = "running" \/ (i \in AtWork /\ "killed" \in mishaps)
    /\ Goes(i, Resting("gone", "start"))
    /\ UNCHANGED <<label, file, wanted>>

UserRenames(s, l) ==
    /\ AtWork = {} \/ "userRace" \in mishaps
    /\ label' = [label EXCEPT ![s] = l]
    /\ wanted' = [wanted EXCEPT ![s] = l]
    /\ UNCHANGED <<file, run>>

-----------------------------------------------------------------------------
Init ==
    /\ label \in [Space -> UserLabel]
    /\ file = Torn   \* no herdash has run yet
    /\ run = [i \in Instance |-> Resting("off", "start")]
    /\ wanted = label
    /\ mishaps \in Days

Step(i) ==
    \/ Start(i) \/ Quit(i) \/ Kill(i)
    \/ LoadClaims(i) \/ LookAtLabel(i) \/ Restore(i) \/ SaveReleased(i)
    \/ Ask(i) \/ Rename(i) \/ Reload(i) \/ SaveClaimed(i)

Next ==
    /\ \/ \E i \in Instance : Step(i)
       \/ \E s \in Space, l \in UserLabel : UserRenames(s, l)
    /\ UNCHANGED mishaps

Spec == Init /\ [][Next]_vars

-----------------------------------------------------------------------------
(* Properties. *)

(* A day on which nothing goes wrong but kills of a herdash that waits, and *)
(* one on which the user may also rename a space a herdash is at work on.   *)
Orderly == mishaps = {}
Calm    == mishaps \subseteq {"userRace"}

(* l is a name that a user gave; on an orderly day, the last that s got. *)
Users(s, l) == l \in UserLabel /\ (Orderly => l = wanted[s])

(* What the claim would put back is not the name it was made for; and on a *)
(* calm day it is a name a user gave.                                      *)
Honest(claim) == claim.original # claim.applied /\ (Calm => claim.original \in UserLabel)

(* Every claim is honest, saved or still in some herdash's hands. Whatever *)
(* goes wrong, none would put its own name back; and on a calm day none    *)
(* would put back another herdash's, which the guard of claim_space does   *)
(* not tell from a user's name: only the release before it, and the claims *)
(* it finds, keep such a name from being asked for (claim_space).          *)
OriginalIsUsers ==
    /\ \A s \in DOMAIN Load(file) : Honest(Load(file)[s])
    /\ \A i \in Instance :
          /\ \A s \in DOMAIN run[i].claims : Honest(run[i].claims[s])
          /\ run[i].claim # None => Honest(run[i].claim)

(* "A crash is covered by a small state file that the next run reads":     *)
(* while no herdash is at work, a space with a herdash's name on it has a  *)
(* claim to that name that records what its user called it.                *)
NameIsCovered ==
    Calm /\ AtWork = {} =>
       \A s \in Space :
          label[s] \in HerdashName =>
             /\ s \in DOMAIN Load(file)
             /\ Load(file)[s].applied = label[s]
             /\ Users(s, Load(file)[s].original)

(* Herdash i ends by itself in this step. *)
Exits(i) == run[i].at # "gone" /\ run'[i].at = "gone" /\ run'[i].on = "exit"

(* "A clean exit restores it directly", and "if the user renamed the space *)
(* themselves in the meantime, their choice wins": an exit leaves the      *)
(* space with the name its user last gave it.                              *)
CleanExitRestores ==
    [][\A i \in Instance : Exits(i) => label'[Home[i]] = wanted[Home[i]]]_vars

(* What is kept of it on calm days: an exit leaves the user's last name, or *)
(* where users rename while a herdash is at work, some name of theirs: the  *)
(* restore may overwrite what they have just chosen, but a herdash's name,  *)
(* its own or another's, it never leaves behind (release_space).            *)
CalmExitRestores ==
    [][Calm => \A i \in Instance : Exits(i) => Users(Home[i], label[Home[i]])']_vars

(* "The next run notices the stale rename and puts the old name back       *)
(* before" it claims (README.md): no start gets past its release with a    *)
(* herdash's name still on the space, its own or another's.                *)
KillIsMended ==
    Calm => \A i \in Instance : run[i].at = "ask" => Users(Home[i], label[Home[i]])
=============================================================================
