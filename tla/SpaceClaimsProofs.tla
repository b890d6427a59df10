------------------------- MODULE SpaceClaimsProofs -------------------------
(***************************************************************************)
(* For every number of herdash, spaces and names: no claim would put back  *)
(* the name it was made for, whatever goes wrong; and on a day with no     *)
(* mishap but kills of a herdash that waits, and users who rename at any   *)
(* time, a claim would put back a user's name, a herdash's name on a space *)
(* is always covered by a claim, and a user's comes back at every exit and *)
(* start.                                                                  *)
(***************************************************************************)
EXTENDS SpaceClaims, TLAPS

LEMMA ClaimsType ==
    \A c : c \in Claims <=> DOMAIN c \subseteq Space /\ c \in [DOMAIN c -> Claim]
BY DEF Claims

LEMMA NoClaimsType == NoClaims \in Claims /\ DOMAIN NoClaims = {}
<1>1. DOMAIN NoClaims = {}
  BY DEF NoClaims
<1>2. NoClaims \in [DOMAIN NoClaims -> Claim]
  BY DEF NoClaims
<1> QED
  BY <1>1, <1>2, ClaimsType

(* None is no set of claims, so Torn is told from every file content. *)
LEMMA LoadType ==
    ASSUME NEW f \in Claims \cup {Torn}
    PROVE  Load(f) \in Claims
BY NoClaimsType DEF Load

LEMMA WithoutType ==
    ASSUME NEW c \in Claims, NEW s \in Space
    PROVE  /\ Without(c, s) \in Claims
           /\ \A t \in DOMAIN Without(c, s) : t \in DOMAIN c /\ Without(c, s)[t] = c[t]
<1>1. Without(c, s) = [t \in DOMAIN c \ {s} |-> c[t]]
  BY DEF Without, Restrict
<1>2. DOMAIN c \subseteq Space /\ c \in [DOMAIN c -> Claim]
  BY ClaimsType
<1> QED
  BY <1>1, <1>2, ClaimsType

LEMMA AddedType ==
    ASSUME NEW c \in Claims, NEW s \in Space, NEW k \in Claim
    PROVE  /\ Added(c, s, k) \in Claims
           /\ \A t \in DOMAIN Added(c, s, k) :
                 \/ Added(c, s, k)[t] = k
                 \/ t \in DOMAIN c /\ Added(c, s, k)[t] = c[t]
<1>1. DOMAIN c \subseteq Space /\ c \in [DOMAIN c -> Claim]
  BY ClaimsType
<1>2. DOMAIN Added(c, s, k) = DOMAIN c \cup {s}
  BY DEF Added
<1>3. \A t \in DOMAIN Added(c, s, k) : Added(c, s, k)[t] = IF t = s THEN k ELSE c[t]
  BY DEF Added
<1>4. Added(c, s, k) \in [DOMAIN c \cup {s} -> Claim]
  BY <1>1 DEF Added
<1> QED
  BY <1>1, <1>2, <1>3, <1>4, ClaimsType

-----------------------------------------------------------------------------
HonestAll(c) == \A s \in DOMAIN c : Honest(c[s])

(* What a herdash holds between the steps in which it reads and uses it.   *)
Holds(r) ==
    /\ HonestAll(r.claims)
    /\ r.claim # None => Honest(r.claim)
    /\ r.at \in {"look", "restore"} => r.claim \in Claim
    /\ r.at \in {"rename", "reload"} =>
          r.current \in Label /\ Honest([applied |-> r.name, original |-> r.current])
    /\ r.at \in Release => r.on = "exit" \/ r.name \in HerdashName
    /\ r.at \in {"ask", "rename", "reload"} => r.name \in HerdashName

IInv ==
    /\ TypeOK
    /\ HonestAll(Load(file))
    /\ \A i \in Instance : Holds(run[i])

(* A calm day. One herdash at a time is at work, and what it knows of its  *)
(* space between two of its steps stays true, or a user has named the      *)
(* space since: nobody else is there to change it. All the others' spaces  *)
(* stay covered by the claims it carries from the file it read to the file *)
(* it writes.                                                              *)
Covers(c, s) ==
    label[s] \in HerdashName =>
        s \in DOMAIN c /\ c[s].applied = label[s] /\ Users(s, c[s].original)

CoversAll(c)    == \A s \in Space : Covers(c, s)
CoversBut(c, h) == \A s \in Space \ {h} : Covers(c, s)

(* What a herdash at work for space h has in hand, step by step; the file  *)
(* is not spoken of while it is torn.                                      *)
OnCourse(r, h) ==
    /\ r.at \in {"load", "ask", "rename"} => CoversAll(Load(file))
    /\ r.at \in {"look", "restore", "truncate", "write"} => CoversBut(r.claims, h)
    /\ r.at = "look" =>
          (label[h] \in HerdashName => r.claim.applied = label[h] /\ Users(h, r.claim.original))
    /\ r.at = "restore" => Users(h, r.claim.original)
    /\ r.at \in {"truncate", "write", "ask", "rename"} => Users(h, label[h])
    /\ r.at \in {"rename", "reload"} => Users(h, r.current)
    /\ r.at = "reload" => CoversBut(Load(file), h) /\ label[h] \in UserLabel \cup {r.name}
    /\ r.at \in {"clear", "fill"} => CoversAll(r.claims)

(* Every label is a herdash's, or one that a user gave. *)
Labelled == \A s \in Space : label[s] \in HerdashName \/ Users(s, label[s])

DayInv ==
    Calm =>
       /\ Labelled
       /\ \A i, j \in AtWork : i = j
       /\ AtWork = {} => CoversAll(Load(file))
       /\ \A i \in AtWork : OnCourse(run[i], Home[i])

-----------------------------------------------------------------------------
LEMMA HonestKept ==
    ASSUME mishaps' = mishaps, NEW k, Honest(k)
    PROVE  Honest(k)'
BY DEF Honest, Calm

LEMMA HoldsKept ==
    ASSUME mishaps' = mishaps, NEW r, Holds(r)
    PROVE  Holds(r)'
BY DEF Holds, HonestAll, Honest, Calm

LEMMA RestingFields ==
    ASSUME NEW at, NEW on
    PROVE  Resting(at, on).at = at /\ Resting(at, on).on = on
BY DEF Resting

LEMMA RestingHolds ==
    ASSUME NEW at \in AtRest, NEW on \in {"start", "exit"}
    PROVE  Resting(at, on) \in Run /\ Holds(Resting(at, on))
BY NoClaimsType DEF Resting, Run, Holds, HonestAll, AtRest, Release

(* The release at the exit needs no name, the others have one. *)
LEMMA ExitHolds == Resting("load", "exit") \in Run /\ Holds(Resting("load", "exit"))
BY NoClaimsType DEF Resting, Run, Holds, HonestAll, AtRest, Release

LEMMA NamedFields ==
    ASSUME NEW at, NEW n
    PROVE  /\ Named(at, n).at = at /\ Named(at, n).name = n
           /\ Named(at, n).claims = NoClaims /\ Named(at, n).claim = None
BY DEF Named, Resting

LEMMA NamedHolds ==
    ASSUME NEW at \in {"load", "ask"}, NEW n \in HerdashName
    PROVE  Named(at, n) \in Run /\ Holds(Named(at, n))
<1>1. Named(at, n) \in Run
  BY NoClaimsType DEF Named, Resting, Run, Release, ClaimPc
<1> QED
  BY <1>1, NamedFields, NoClaimsType DEF Holds, HonestAll

LEMMA ReleasedHolds ==
    ASSUME NEW i \in Instance, run[i].on = "exit" \/ run[i].name \in HerdashName
    PROVE  Released(i) \in Run /\ Holds(Released(i))
BY RestingHolds, NamedHolds DEF Released, AtRest

(* A step moves one herdash, keeps the labels labels and the file honest.  *)
LEMMA StepSuffices ==
    ASSUME IInv, NEW i \in Instance, NEW r, run' = [run EXCEPT ![i] = r],
           r \in Run, Holds(r), label' \in [Space -> Label],
           file' \in Claims \cup {Torn}, HonestAll(Load(file')), wanted' = wanted,
           mishaps' = mishaps
    PROVE  IInv'
<1>1. run' \in [Instance -> Run]
  BY DEF IInv, TypeOK
<1>2. \A j \in Instance : Holds(run'[j])
  BY DEF IInv, TypeOK
<1>4. \A j \in Instance : Holds(run[j])'
  BY <1>2, HoldsKept
<1>5. HonestAll(Load(file))'
  BY HonestKept DEF HonestAll
<1>3. TypeOK'
  BY <1>1 DEF IInv, TypeOK
<1> QED
  BY <1>3, <1>4, <1>5 DEF IInv

(* Where the step changes neither label, file nor history. *)
LEMMA LocalStep ==
    ASSUME IInv, NEW i \in Instance, NEW r, Goes(i, r), r \in Run, Holds(r),
           UNCHANGED <<label, file, wanted, mishaps>>
    PROVE  IInv'
<1>1. label' \in [Space -> Label] /\ file' \in Claims \cup {Torn} /\ HonestAll(Load(file'))
  BY DEF IInv, TypeOK
<1> QED
  BY <1>1, StepSuffices DEF Goes

LEMMA SaveStep ==
    ASSUME IInv, NEW i \in Instance, NEW from \in {"truncate", "clear"},
           NEW to \in {"write", "fill"}, to = "write" => from = "truncate",
           NEW after \in Run, Holds(after),
           SaveBegins(i, from, to, after) \/ SaveEnds(i, to, after),
           mishaps' = mishaps
    PROVE  IInv'
<1>0. /\ run[i] \in Run /\ Holds(run[i])
      /\ label' \in [Space -> Label] /\ wanted' = wanted
  BY DEF IInv, TypeOK, SaveBegins, SaveEnds
<1>1. CASE file' = Torn /\ Goes(i, [run[i] EXCEPT !.at = to])
  <2>1. [run[i] EXCEPT !.at = to] \in Run
    BY <1>0 DEF Run, Release, ClaimPc
  <2>2. Holds([run[i] EXCEPT !.at = to])
    <3>1. to \in Release => run[i].at \in Release
      BY <1>0, <1>1 DEF SaveBegins, SaveEnds, Release
    <3> QED
      BY <1>0, <3>1 DEF Holds, Run, Release
  <2>3. HonestAll(Load(Torn))
    BY NoClaimsType DEF Load, HonestAll
  <2> QED
    BY <1>0, <1>1, <2>1, <2>2, <2>3, StepSuffices DEF Goes
<1>2. CASE file' = file /\ Goes(i, after)
  BY <1>0, <1>2, StepSuffices DEF Goes, IInv, TypeOK
<1>3. CASE file' = run[i].claims /\ Goes(i, after)
  <2>1. file' \in Claims /\ HonestAll(file')
    BY <1>0, <1>3 DEF Holds, Run
  <2>2. HonestAll(Load(file'))
    BY <2>1, NoClaimsType DEF Load, HonestAll
  <2> QED
    BY <1>0, <1>3, <2>1, <2>2, StepSuffices DEF Goes
<1> QED
  BY <1>1, <1>2, <1>3 DEF SaveBegins, SaveEnds

LEMMA InductiveStep ==
    ASSUME IInv, DayInv, [Next]_vars
    PROVE  IInv'
<1>0. /\ label \in [Space -> Label] /\ wanted \in [Space -> UserLabel]
      /\ file \in Claims \cup {Torn} /\ Load(file) \in Claims /\ HonestAll(Load(file))
      /\ \A i \in Instance :
            run[i] \in Run /\ Holds(run[i]) /\ Home[i] \in Space
      /\ mishaps' = mishaps
  BY LoadType, SpaceAssumption DEF IInv, TypeOK, Next, vars
<1>1. ASSUME NEW i \in Instance, Start(i) \/ Quit(i) \/ Kill(i) PROVE IInv'
  <2>1. CASE Start(i)
    BY <1>0, <2>1, RestingHolds, NamedHolds, LocalStep DEF Start, AtRest
  <2>2. CASE Quit(i)
    BY <1>0, <2>2, ExitHolds, LocalStep DEF Quit
  <2>3. CASE Kill(i)
    BY <1>0, <2>3, RestingHolds, LocalStep DEF Kill, AtRest
  <2> QED
    BY <1>1, <2>1, <2>2, <2>3
<1>2. ASSUME NEW i \in Instance, LoadClaims(i) PROVE IInv'
  <2> DEFINE claims == Load(file)
             r == [run[i] EXCEPT !.at = "look", !.claims = Without(claims, Home[i]),
                                 !.claim = claims[Home[i]]]
  <2>1. CASE Home[i] \in DOMAIN claims
    <3>1. claims[Home[i]] \in Claim /\ Honest(claims[Home[i]])
      BY <1>0, <2>1, ClaimsType DEF HonestAll
    <3>2. Without(claims, Home[i]) \in Claims /\ HonestAll(Without(claims, Home[i]))
      BY <1>0, WithoutType DEF HonestAll
    <3>3. r \in Run
      BY <1>0, <3>1, <3>2 DEF Run, Release
    <3>4. Holds(r)
      BY <1>0, <1>2, <3>1, <3>2 DEF Holds, Run, Release, LoadClaims
    <3> QED
      BY <1>0, <1>2, <2>1, <3>3, <3>4, LocalStep DEF LoadClaims
  <2>2. CASE Home[i] \notin DOMAIN claims
    <3>1. Released(i) \in Run /\ Holds(Released(i))
      BY <1>0, <1>2, ReleasedHolds DEF LoadClaims, Holds, Release
    <3> QED
      BY <1>0, <1>2, <2>2, <3>1, LocalStep DEF LoadClaims
  <2> QED
    BY <2>1, <2>2
<1>3. ASSUME NEW i \in Instance, LookAtLabel(i) PROVE IInv'
  <2>1. PICK at \in {"restore", "truncate"} : Goes(i, [run[i] EXCEPT !.at = at])
    BY <1>3 DEF LookAtLabel
  <2>2. [run[i] EXCEPT !.at = at] \in Run
    BY <1>0, <2>1 DEF Run, Release
  <2>3. Holds([run[i] EXCEPT !.at = at])
    BY <1>0, <1>3, <2>1 DEF Holds, Run, Release, LookAtLabel
  <2> QED
    BY <1>0, <1>3, <2>1, <2>2, <2>3, LocalStep DEF LookAtLabel
<1>4. ASSUME NEW i \in Instance, Restore(i) PROVE IInv'
  <2>1. run[i].claim.original \in Label
    BY <1>0, <1>4 DEF Restore, Holds, Claim
  <2>2. label' \in [Space -> Label]
    BY <1>0, <1>4, <2>1 DEF Restore, RenameDone, RenameFails
  <2>3. [run[i] EXCEPT !.at = "truncate"] \in Run
    BY <1>0 DEF Run, Release
  <2>4. Holds([run[i] EXCEPT !.at = "truncate"])
    BY <1>0, <1>4 DEF Holds, Run, Release, Restore
  <2> QED
    BY <1>0, <1>4, <2>2, <2>3, <2>4, StepSuffices DEF Restore, Goes
<1>5. ASSUME NEW i \in Instance, SaveReleased(i) PROVE IInv'
  <2>1. run[i].at \in {"truncate", "write"}
    BY <1>5 DEF SaveReleased, SaveBegins, SaveEnds
  <2>2. Released(i) \in Run /\ Holds(Released(i))
    BY <1>0, <2>1, ReleasedHolds DEF Holds, Release
  <2> QED
    BY <1>0, <1>5, <2>2, SaveStep DEF SaveReleased
<1>6. ASSUME NEW i \in Instance, Ask(i) PROVE IInv'
  <2> DEFINE r == [run[i] EXCEPT !.at = "rename", !.current = label[Home[i]]]
  <2>1. CASE label[Home[i]] # run[i].name /\ Goes(i, r)
    <3>1. Calm => label[Home[i]] \in UserLabel
      BY <1>6 DEF DayInv, OnCourse, Users, Ask, AtWork, AtRest
    <3>2. r \in Run
      BY <1>0 DEF Run, ClaimPc
    <3>3. /\ r.claims = run[i].claims /\ r.claim = run[i].claim /\ r.at = "rename"
          /\ r.name = run[i].name /\ r.current = label[Home[i]]
      BY <1>0 DEF Run
    <3>4. Honest([applied |-> run[i].name, original |-> label[Home[i]]])
      BY <2>1, <3>1 DEF Honest
    <3>5. Holds(r)
      BY <1>0, <1>6, <3>2, <3>3, <3>4 DEF Holds, Ask, Release, Run
    <3> QED
      BY <1>0, <1>6, <2>1, <3>2, <3>5, LocalStep DEF Ask
  <2>2. CASE Goes(i, Resting("running", "start"))
    BY <1>0, <1>6, <2>2, RestingHolds, LocalStep DEF Ask, AtRest
  <2> QED
    BY <1>6, <2>1, <2>2 DEF Ask
<1>7. ASSUME NEW i \in Instance, Rename(i) PROVE IInv'
  <2>1. label' \in [Space -> Label]
    <3>1. run[i].name \in Label
      BY <1>0, <1>7 DEF Rename, Holds, Label
    <3> QED
      BY <1>0, <1>7, <3>1 DEF Rename, RenameDone, RenameFails
  <2>2. CASE Goes(i, [run[i] EXCEPT !.at = "reload"])
    <3>1. [run[i] EXCEPT !.at = "reload"] \in Run
      BY <1>0 DEF Run, ClaimPc
    <3>2. Holds([run[i] EXCEPT !.at = "reload"])
      BY <1>0, <1>7 DEF Holds, Run, Rename
    <3> QED
      BY <1>0, <1>7, <2>1, <2>2, <3>1, <3>2, StepSuffices DEF Rename, Goes
  <2>3. CASE Goes(i, Resting("running", "start"))
    <3>1. Resting("running", "start") \in Run /\ Holds(Resting("running", "start"))
      BY RestingHolds DEF AtRest
    <3> QED
      BY <1>0, <1>7, <2>1, <2>3, <3>1, StepSuffices DEF Rename, Goes
  <2> QED
    BY <1>7, <2>2, <2>3 DEF Rename
<1>8. ASSUME NEW i \in Instance, Reload(i) PROVE IInv'
  <2> DEFINE c == Added(Load(file), Home[i], NewClaim(i))
             r == [run[i] EXCEPT !.at = "clear", !.claims = c]
  <2>1. run[i].current \in Label /\ Honest(NewClaim(i))
    BY <1>0, <1>8 DEF Reload, Holds, NewClaim
  <2>2. NewClaim(i) \in Claim
    BY <1>0, <1>8, <2>1 DEF Reload, Holds, NewClaim, Claim
  <2>3. c \in Claims /\ HonestAll(c)
    BY <1>0, <2>1, <2>2, AddedType DEF HonestAll
  <2>4. r \in Run
    BY <1>0, <2>3 DEF Run, ClaimPc
  <2>5. Holds(r)
    BY <1>0, <2>3 DEF Holds, Run, Release
  <2> QED
    BY <1>0, <1>8, <2>4, <2>5, LocalStep DEF Reload
<1>9. ASSUME NEW i \in Instance, SaveClaimed(i) PROVE IInv'
  <2>1. Resting("running", "start") \in Run /\ Holds(Resting("running", "start"))
    BY RestingHolds DEF AtRest
  <2> QED
    BY <1>0, <1>9, <2>1, SaveStep DEF SaveClaimed
<1>10. ASSUME NEW s \in Space, NEW l \in UserLabel, UserRenames(s, l) PROVE IInv'
  <2>1. TypeOK'
    BY <1>0, <1>10 DEF UserRenames, IInv, TypeOK, Label
  <2>2. (\A i \in Instance : Holds(run[i]))'
    BY <1>0, <1>10, HoldsKept DEF UserRenames
  <2>3. HonestAll(Load(file))'
    BY <1>0, <1>10, HonestKept DEF UserRenames, HonestAll
  <2> QED
    BY <2>1, <2>2, <2>3 DEF IInv
<1>11. CASE UNCHANGED vars
  <2>1. TypeOK'
    BY <1>11 DEF vars, IInv, TypeOK
  <2>2. (\A i \in Instance : Holds(run[i]))'
    BY <1>0, <1>11, HoldsKept DEF vars
  <2>3. HonestAll(Load(file))'
    BY <1>0, <1>11, HonestKept DEF vars, HonestAll
  <2> QED
    BY <2>1, <2>2, <2>3 DEF IInv
<1> QED
  BY <1>1, <1>2, <1>3, <1>4, <1>5, <1>6, <1>7, <1>8, <1>9, <1>10, <1>11 DEF Next, Step

LEMMA InductiveInit ==
    ASSUME Init PROVE IInv
<1>1. \A i \in Instance : run[i] \in Run /\ Holds(run[i])
  BY RestingHolds DEF Init, AtRest
<1>2. run \in [Instance -> Run]
  BY <1>1 DEF Init
<1>3. HonestAll(Load(file))
  BY NoClaimsType DEF Init, Load, HonestAll
<1> QED
  BY <1>1, <1>2, <1>3 DEF Init, IInv, TypeOK, Label

-----------------------------------------------------------------------------
LEMMA WithoutKeeps ==
    ASSUME NEW c, NEW s, NEW t \in DOMAIN c, t # s
    PROVE  t \in DOMAIN Without(c, s) /\ Without(c, s)[t] = c[t]
BY DEF Without, Restrict

LEMMA AddedAt ==
    ASSUME NEW c, NEW s, NEW k
    PROVE  /\ s \in DOMAIN Added(c, s, k) /\ Added(c, s, k)[s] = k
           /\ \A t \in DOMAIN c : t # s => t \in DOMAIN Added(c, s, k) /\ Added(c, s, k)[t] = c[t]
BY DEF Added

(* The others are at rest: nobody is at work, or i is, alone. *)
Alone(i) == \A j \in Instance : j # i => run[j].at \in AtRest

(* It is enough that the one that moves stays on its course, or leaves     *)
(* every space covered where it comes to rest.                             *)
LEMMA StaysOnCourse ==
    ASSUME run \in [Instance -> Run], NEW i \in Instance, Alone(i), NEW r, Goes(i, r),
           Labelled',
           r.at \in AtRest => CoversAll(Load(file))',
           r.at \notin AtRest => OnCourse(r, Home[i])'
    PROVE  DayInv'
<1>1. run'[i] = r /\ \A j \in Instance : j # i => run'[j].at \in AtRest
  BY DEF Goes, Alone
<1>2. \A j \in AtWork' : j = i
  BY <1>1 DEF AtWork
<1>3. AtWork' = {} => r.at \in AtRest
  BY <1>1 DEF AtWork
<1>4. i \in AtWork' => r.at \notin AtRest
  BY <1>1 DEF AtWork
<1>5. i \in AtWork' => OnCourse(run[i], Home[i])'
  BY <1>1, <1>4 DEF OnCourse, CoversAll, CoversBut, Covers, Users, Orderly
<1>6. (\A j \in AtWork : OnCourse(run[j], Home[j]))'
  BY <1>2, <1>5
<1> QED
  BY <1>2, <1>3, <1>6 DEF DayInv

(* Where the step changes neither label, file nor history. *)
LEMMA LocalStepOnCourse ==
    ASSUME run \in [Instance -> Run], NEW i \in Instance, Alone(i), NEW r, Goes(i, r),
           UNCHANGED <<label, file, wanted, mishaps>>, Labelled,
           r.at \in AtRest => CoversAll(Load(file)),
           r.at \notin AtRest => OnCourse(r, Home[i])
    PROVE  DayInv'
<1>1. Labelled'
  BY DEF Labelled, Users, Orderly
<1>2. r.at \in AtRest => CoversAll(Load(file))'
  BY DEF CoversAll, Covers, Users, Orderly
<1>3. r.at \notin AtRest => OnCourse(r, Home[i])'
  BY DEF OnCourse, CoversAll, CoversBut, Covers, Users, Orderly
<1> QED
  BY <1>1, <1>2, <1>3, StaysOnCourse

(* Once a release is done: at the exit all is covered, at a start the name *)
(* is the user's.                                                          *)
LEMMA ReleasedOnCourse ==
    ASSUME NEW i \in Instance, CoversAll(Load(file)), Users(Home[i], label[Home[i]])
    PROVE  Released(i).at \notin AtRest => OnCourse(Released(i), Home[i])
BY NamedFields, RestingFields DEF Released, AtRest, OnCourse

LEMMA SaveOnCourse ==
    ASSUME IInv, Calm, NEW i \in Instance, Alone(i),
           Labelled,
           CoversAll(run[i].claims),
           NEW from, NEW to \in {"write", "fill"},
           to = "write" => Users(Home[i], label[Home[i]]),
           NEW after,
           after.at \notin AtRest => after.at = "ask" /\ Users(Home[i], label[Home[i]]),
           SaveBegins(i, from, to, after) \/ SaveEnds(i, to, after), mishaps' = mishaps
    PROVE  DayInv'
<1>0. run[i] \in Run /\ run \in [Instance -> Run] /\ "unsaved" \notin mishaps
      /\ UNCHANGED <<label, wanted>>
  BY DEF IInv, TypeOK, Calm, SaveBegins, SaveEnds
<1>1. Labelled'
  BY <1>0 DEF Labelled, Users, Orderly
<1>2. CASE Goes(i, [run[i] EXCEPT !.at = to])
  <2>1. PICK r : Goes(i, r) /\ r.at = to /\ r.claims = run[i].claims
    BY <1>0, <1>2 DEF Run
  <2>2. OnCourse(r, Home[i])'
    BY <1>0, <2>1 DEF OnCourse, CoversAll, CoversBut, Covers, Users, Orderly
  <2>3. r.at \notin AtRest
    BY <2>1 DEF AtRest
  <2> QED
    BY <1>0, <1>1, <2>1, <2>2, <2>3, StaysOnCourse
<1>3. CASE file' = run[i].claims /\ Goes(i, after)
  <2>1. Load(file') = run[i].claims
    BY <1>0, <1>3, TornAssumption DEF Run, Load
  <2>2. CoversAll(Load(file))'
    BY <1>0, <2>1 DEF CoversAll, Covers, Users, Orderly
  <2>3. after.at \notin AtRest => OnCourse(after, Home[i])'
    BY <1>0, <2>2 DEF OnCourse, CoversAll, CoversBut, Covers, Users, Orderly
  <2> QED
    BY <1>0, <1>1, <1>3, <2>2, <2>3, StaysOnCourse
<1> QED
  BY <1>0, <1>2, <1>3 DEF SaveBegins, SaveEnds

LEMMA DayStep ==
    ASSUME IInv, DayInv, [Next]_vars
    PROVE  DayInv'
<1> SUFFICES ASSUME Calm PROVE DayInv'
  BY DEF DayInv, Calm, Next, vars
<1>0. /\ label \in [Space -> Label] /\ run \in [Instance -> Run] /\ mishaps \subseteq {"userRace"}
      /\ file \in Claims \cup {Torn} /\ Load(file) \in Claims
      /\ \A i \in Instance : run[i] \in Run /\ Home[i] \in Space
      /\ Labelled /\ mishaps' = mishaps /\ HerdashName \cap UserLabel = {}
  BY LoadType, SpaceAssumption DEF IInv, TypeOK, DayInv, Calm, Next, vars
<1>a. ASSUME NEW i \in Instance, AtWork = {}
      PROVE  Alone(i) /\ CoversAll(Load(file))
  BY <1>a DEF Alone, AtWork, DayInv
<1>b. ASSUME NEW i \in Instance, run[i].at \notin AtRest
      PROVE  Alone(i) /\ OnCourse(run[i], Home[i])
  BY <1>b DEF Alone, AtWork, DayInv
<1>1. ASSUME NEW i \in Instance, Start(i) \/ Quit(i) PROVE DayInv'
  <2>1. AtWork = {} /\ UNCHANGED <<label, file, wanted>>
    BY <1>0, <1>1 DEF Start, Quit, MaySetOut
  <2>2. PICK r : Goes(i, r) /\ r.at \in {"load", "running"}
    BY <1>1, NamedFields, RestingFields DEF Start, Quit
  <2>3. r.at \notin AtRest => OnCourse(r, Home[i])
    BY <1>a, <2>1, <2>2 DEF OnCourse, AtRest
  <2> QED
    BY <1>0, <1>a, <2>1, <2>2, <2>3, LocalStepOnCourse
<1>2. ASSUME NEW i \in Instance, Kill(i) PROVE DayInv'
  <2>1. run[i].at \in AtRest /\ UNCHANGED <<label, file, wanted>>
    BY <1>0, <1>2 DEF Kill, AtRest
  <2>2. run'[i].at \in AtRest /\ \A j \in Instance : j # i => run'[j] = run[j]
    BY <1>0, <1>2 DEF Kill, Goes, Resting, AtRest
  <2>3. AtWork' = AtWork /\ \A j \in AtWork : run'[j] = run[j]
    BY <2>1, <2>2 DEF AtWork
  <2> QED
    <3>1. Labelled' /\ (AtWork' = {} => CoversAll(Load(file))')
      BY <1>0, <2>1, <2>3 DEF DayInv, Labelled, CoversAll, Covers, Users, Orderly
    <3>2. \A j \in AtWork : OnCourse(run[j], Home[j])'
      BY <1>0, <2>1, <2>3 DEF DayInv, OnCourse, CoversAll, CoversBut, Covers, Users, Orderly
    <3> QED
      BY <2>3, <3>1, <3>2 DEF DayInv
<1>3. ASSUME NEW i \in Instance, LoadClaims(i) PROVE DayInv'
  <2> DEFINE claims == Load(file)
             h == Home[i]
             r == [run[i] EXCEPT !.at = "look", !.claims = Without(claims, h), !.claim = claims[h]]
  <2>0. run[i].at \notin AtRest /\ UNCHANGED <<label, file, wanted>>
    BY <1>3 DEF LoadClaims, AtRest
  <2>1. Alone(i) /\ CoversAll(claims) /\ h \in Space
    BY <1>0, <1>3, <1>b, <2>0 DEF LoadClaims, OnCourse
  <2>2. CASE h \in DOMAIN claims
    <3>1. r.at = "look" /\ r.claims = Without(claims, h) /\ r.claim = claims[h]
      BY <1>0 DEF Run
    <3>2. CoversBut(Without(claims, h), h)
      BY <2>1, WithoutKeeps DEF CoversBut, CoversAll, Covers
    <3>3. label[h] \in HerdashName => claims[h].applied = label[h] /\ Users(h, claims[h].original)
      BY <2>1 DEF CoversAll, Covers
    <3>4. OnCourse(r, Home[i]) /\ r.at \notin AtRest
      BY <3>1, <3>2, <3>3 DEF OnCourse, AtRest
    <3>5. Goes(i, r)
      BY <1>3, <2>2 DEF LoadClaims
    <3> HIDE DEF r
    <3> QED
      BY <1>0, <2>0, <2>1, <3>4, <3>5, LocalStepOnCourse
  <2>3. CASE h \notin DOMAIN claims
    <3>1. Users(h, label[h])
      BY <1>0, <2>1, <2>3 DEF CoversAll, Covers, Labelled
    <3>2. Goes(i, Released(i))
      BY <1>3, <2>3 DEF LoadClaims
    <3> QED
      BY <1>0, <2>0, <2>1, <3>1, <3>2, ReleasedOnCourse, LocalStepOnCourse
  <2> QED
    BY <2>2, <2>3
<1>4. ASSUME NEW i \in Instance, LookAtLabel(i) PROVE DayInv'
  <2>0. run[i].at = "look" /\ Alone(i) /\ OnCourse(run[i], Home[i])
        /\ UNCHANGED <<label, file, wanted>>
    BY <1>4, <1>b DEF LookAtLabel, AtRest
  <2>1. PICK r : /\ Goes(i, r) /\ r.claims = run[i].claims /\ r.claim = run[i].claim
                 /\ r.at = IF Restores(run[i].claim, label[Home[i]]) THEN "restore" ELSE "truncate"
    BY <1>0, <1>4 DEF LookAtLabel, Run
  <2>2. run[i].claim \in Claim
    BY <2>0 DEF IInv, Holds
  <2>3. Restores(run[i].claim, label[Home[i]]) <=> label[Home[i]] \in HerdashName
    BY <2>0, <2>2 DEF Restores, Claim, OnCourse
  <2>4. label[Home[i]] \notin HerdashName => Users(Home[i], label[Home[i]])
    BY <1>0 DEF Labelled
  <2>5. OnCourse(r, Home[i]) /\ r.at \notin AtRest
    BY <1>0, <2>0, <2>1, <2>3, <2>4 DEF OnCourse, AtRest
  <2> QED
    BY <1>0, <2>0, <2>1, <2>5, LocalStepOnCourse
<1>5. ASSUME NEW i \in Instance, Restore(i) PROVE DayInv'
  <2>0. run[i].at = "restore" /\ Alone(i) /\ OnCourse(run[i], Home[i])
        /\ UNCHANGED <<file, wanted>>
    BY <1>5, <1>b DEF Restore, AtRest
  <2>1. /\ label' = [label EXCEPT ![Home[i]] = run[i].claim.original]
        /\ Users(Home[i], run[i].claim.original)
    BY <1>0, <1>5, <2>0 DEF Restore, RenameDone, RenameFails, OnCourse
  <2>2. PICK r : Goes(i, r) /\ r.claims = run[i].claims /\ r.at = "truncate"
    BY <1>0, <1>5 DEF Restore, Run
  <2>3. Labelled'
    BY <1>0, <2>0, <2>1 DEF Labelled, Users, Orderly
  <2>4. OnCourse(r, Home[i])' /\ r.at \notin AtRest
    BY <1>0, <2>0, <2>1, <2>2 DEF OnCourse, CoversBut, Covers, Users, Orderly, AtRest
  <2> QED
    BY <1>0, <2>0, <2>2, <2>3, <2>4, StaysOnCourse
<1>6. ASSUME NEW i \in Instance, SaveReleased(i) PROVE DayInv'
  <2>0. run[i].at \in {"truncate", "write"} /\ Alone(i) /\ OnCourse(run[i], Home[i])
    BY <1>6, <1>b DEF SaveReleased, SaveBegins, SaveEnds, AtRest
  <2>1. Users(Home[i], label[Home[i]])
    BY <2>0 DEF OnCourse
  <2>2. CoversAll(run[i].claims)
    BY <1>0, <2>0, <2>1 DEF OnCourse, CoversAll, CoversBut, Covers, Users
  <2>3. Released(i).at \notin AtRest => Released(i).at = "ask" /\ Users(Home[i], label[Home[i]])
    BY <2>1, NamedFields, RestingFields DEF Released, AtRest
  <2>4. \/ SaveBegins(i, "truncate", "write", Released(i))
        \/ SaveEnds(i, "write", Released(i))
    BY <1>6 DEF SaveReleased
  <2> QED
    BY <1>0, <2>0, <2>1, <2>2, <2>3, <2>4, SaveOnCourse
<1>7. ASSUME NEW i \in Instance, Ask(i) PROVE DayInv'
  <2>0. run[i].at = "ask" /\ Alone(i) /\ OnCourse(run[i], Home[i])
        /\ UNCHANGED <<label, file, wanted>>
    BY <1>7, <1>b DEF Ask, AtRest
  <2>1. CASE Goes(i, Resting("running", "start"))
    <3>1. Resting("running", "start").at \in AtRest
      BY DEF Resting, AtRest
    <3>2. CoversAll(Load(file))
      BY <2>0 DEF OnCourse
    <3> QED
      BY <1>0, <2>0, <2>1, <3>1, <3>2, LocalStepOnCourse
  <2>2. CASE Goes(i, [run[i] EXCEPT !.at = "rename", !.current = label[Home[i]]])
    <3> DEFINE r == [run[i] EXCEPT !.at = "rename", !.current = label[Home[i]]]
    <3>1. r.at = "rename" /\ r.current = label[Home[i]]
      BY <1>0 DEF Run
    <3>2. OnCourse(r, Home[i]) /\ r.at \notin AtRest
      BY <2>0, <3>1 DEF OnCourse, AtRest
    <3>3. Goes(i, r)
      BY <2>2
    <3> HIDE DEF r
    <3> QED
      BY <1>0, <2>0, <3>2, <3>3, LocalStepOnCourse
  <2> QED
    BY <1>7, <2>1, <2>2 DEF Ask
<1>8. ASSUME NEW i \in Instance, Rename(i) PROVE DayInv'
  <2>0. run[i].at = "rename" /\ Alone(i) /\ OnCourse(run[i], Home[i])
        /\ UNCHANGED <<file, wanted>>
    BY <1>8, <1>b DEF Rename, AtRest
  <2>1. /\ label' = [label EXCEPT ![Home[i]] = run[i].name]
        /\ Goes(i, [run[i] EXCEPT !.at = "reload"])
    BY <1>0, <1>8 DEF Rename, RenameDone, RenameFails
  <2>2. PICK r : /\ Goes(i, r) /\ r.current = run[i].current /\ r.at = "reload"
                 /\ r.name = run[i].name
    BY <1>0, <2>1 DEF Run
  <2>5. run[i].name \in HerdashName
    BY <2>0 DEF IInv, Holds
  <2>3. Labelled'
    BY <1>0, <2>0, <2>1, <2>5 DEF Labelled, Users, Orderly
  <2>4. OnCourse(r, Home[i])' /\ r.at \notin AtRest
    BY <1>0, <2>0, <2>1, <2>2 DEF OnCourse, CoversAll, CoversBut, Covers, Users, Orderly, AtRest
  <2> QED
    BY <1>0, <2>0, <2>2, <2>3, <2>4, StaysOnCourse
<1>9. ASSUME NEW i \in Instance, Reload(i) PROVE DayInv'
  <2> DEFINE c == Added(Load(file), Home[i], NewClaim(i))
             r == [run[i] EXCEPT !.at = "clear", !.claims = c]
  <2>0. run[i].at = "reload" /\ Alone(i) /\ OnCourse(run[i], Home[i])
        /\ UNCHANGED <<label, file, wanted>>
    BY <1>9, <1>b DEF Reload, AtRest
  <2>1. /\ NewClaim(i).applied = run[i].name /\ Users(Home[i], NewClaim(i).original)
        /\ CoversBut(Load(file), Home[i]) /\ label[Home[i]] \in UserLabel \cup {run[i].name}
    BY <2>0 DEF OnCourse, NewClaim
  <2>2. CoversAll(c)
    BY <1>0, <2>1, AddedAt DEF CoversAll, CoversBut, Covers
  <2>3. r.claims = c /\ r.at = "clear"
    BY <1>0 DEF Run
  <2>4. OnCourse(r, Home[i]) /\ r.at \notin AtRest
    BY <2>2, <2>3 DEF OnCourse, AtRest
  <2>5. Goes(i, r)
    BY <1>9 DEF Reload
  <2> HIDE DEF r
  <2> QED
    BY <1>0, <2>0, <2>4, <2>5, LocalStepOnCourse
<1>10. ASSUME NEW i \in Instance, SaveClaimed(i) PROVE DayInv'
  <2>0. run[i].at \in {"clear", "fill"} /\ Alone(i) /\ OnCourse(run[i], Home[i])
    BY <1>10, <1>b DEF SaveClaimed, SaveBegins, SaveEnds, AtRest
  <2>1. CoversAll(run[i].claims)
    BY <2>0 DEF OnCourse
  <2>2. Resting("running", "start").at \in AtRest
    BY DEF Resting, AtRest
  <2> QED
    BY <1>0, <1>10, <2>0, <2>1, <2>2, SaveOnCourse DEF SaveClaimed
<1>11. ASSUME NEW s \in Space, NEW l \in UserLabel, UserRenames(s, l) PROVE DayInv'
  <2>0. UNCHANGED <<file, run>> /\ l \notin HerdashName /\ AtWork' = AtWork
    BY <1>0, <1>11 DEF UserRenames, AtWork
  <2>1. /\ label'[s] = l /\ wanted'[s] = l
        /\ \A t \in Space \ {s} : label'[t] = label[t] /\ wanted'[t] = wanted[t]
    BY <1>0, <1>11 DEF UserRenames, IInv, TypeOK
  <2>2. Labelled'
    BY <1>0, <2>1 DEF Labelled, Users, Orderly
  <2>3. ASSUME NEW c, NEW t \in Space, Covers(c, t) PROVE Covers(c, t)'
    BY <1>0, <2>0, <2>1, <2>3 DEF Covers, Users, Orderly
  <2>4. ASSUME AtWork = {} PROVE CoversAll(Load(file))'
    BY <2>0, <2>3, <2>4 DEF CoversAll, DayInv
  <2>5. ASSUME NEW i \in AtWork PROVE OnCourse(run[i], Home[i])'
    <3> DEFINE r == run[i]
               h == Home[i]
    <3>1. OnCourse(r, h) /\ h \in Space
      BY <1>0 DEF DayInv, AtWork
    <3>2. ~Orderly /\ ~Orderly'
      BY <1>0, <1>11 DEF UserRenames, Orderly
    <3>3. \A x : Users(h, x)' <=> Users(h, x)
      BY <3>2 DEF Users
    <3>4. label'[h] = label[h] \/ label'[h] \in UserLabel
      BY <2>1, <3>1
    <3>5. Users(h, label[h]) => Users(h, label[h])'
      BY <3>2, <3>4 DEF Users
    <3>6. \A c : CoversAll(c) => CoversAll(c)'
      BY <2>3 DEF CoversAll
    <3>7. \A c : CoversBut(c, h) => CoversBut(c, h)'
      BY <2>3 DEF CoversBut
    <3> QED
      BY <1>0, <2>0, <3>1, <3>3, <3>4, <3>5, <3>6, <3>7 DEF OnCourse
  <2> QED
    BY <2>0, <2>2, <2>4, <2>5 DEF DayInv
<1>12. CASE UNCHANGED vars
  <2>1. UNCHANGED <<label, file, run, wanted, mishaps>> /\ AtWork' = AtWork
    BY <1>12 DEF vars, AtWork
  <2>2. Labelled' /\ (AtWork = {} => CoversAll(Load(file))')
    BY <1>0, <2>1 DEF DayInv, Labelled, CoversAll, Covers, Users, Orderly
  <2>3. \A j \in AtWork : OnCourse(run[j], Home[j])'
    BY <1>0, <2>1 DEF DayInv, OnCourse, CoversAll, CoversBut, Covers, Users, Orderly
  <2> QED
    BY <2>1, <2>2, <2>3 DEF DayInv
<1> QED
  BY <1>1, <1>2, <1>3, <1>4, <1>5, <1>6, <1>7, <1>8, <1>9, <1>10, <1>11, <1>12 DEF Next, Step

LEMMA Inductive == Spec => [](IInv /\ DayInv)
<1>1. Init => DayInv
  <2> SUFFICES ASSUME Init PROVE DayInv
    OBVIOUS
  <2>1. AtWork = {}
    BY DEF Init, AtWork, AtRest, Resting
  <2>2. \A s \in Space : label[s] = wanted[s] /\ label[s] \in UserLabel
    BY DEF Init
  <2>3. CoversAll(Load(file)) /\ Labelled
    BY <2>2, SpaceAssumption DEF CoversAll, Covers, Labelled, Users
  <2> QED
    BY <2>1, <2>3 DEF DayInv
<1>2. Init => IInv
  BY InductiveInit
<1>3. IInv /\ DayInv /\ [Next]_vars => IInv'
  BY InductiveStep
<1>4. IInv /\ DayInv /\ [Next]_vars => DayInv'
  BY DayStep
<1> QED
  BY <1>1, <1>2, <1>3, <1>4, PTL DEF Spec

(* Labels stay labels, the file parses or reads as empty, and every local  *)
(* variable holds what its step may read (claim_space, release_space).     *)
THEOREM TypeCorrect == Spec => []TypeOK
<1>1. IInv => TypeOK
  BY DEF IInv
<1> QED
  BY <1>1, Inductive, PTL

(* Whatever goes wrong, and whichever names the herdash were given, no     *)
(* claim records as the original the name it applied; and on a calm day    *)
(* none records any herdash's: the run that finds another's name on its    *)
(* space also finds the claim to it, and has put the user's name back      *)
(* before it asks (claim_space, release_space).                            *)
THEOREM ClaimsAreHonest == Spec => []OriginalIsUsers
<1>1. IInv => OriginalIsUsers
  BY DEF IInv, OriginalIsUsers, HonestAll, Holds
<1> QED
  BY <1>1, Inductive, PTL

(* While no herdash is at work on a calm day, a space with a herdash's     *)
(* name on it has a claim to that name that records what its user called   *)
(* it, killed though herdashes were while they waited: the file is a cover *)
(* for every one of them (claim_space, release_space).                     *)
THEOREM ClaimsCover == Spec => []NameIsCovered
<1>1. DayInv => NameIsCovered
  BY DEF DayInv, NameIsCovered, CoversAll, Covers
<1> QED
  BY <1>1, Inductive, PTL

(* On a calm day no start gets past its release with a herdash's name on   *)
(* the space, so what it claims next is the user's name (claim_space).     *)
THEOREM StartsMend == Spec => []KillIsMended
<1>1. DayInv => KillIsMended
  BY DEF DayInv, KillIsMended, AtWork, AtRest, OnCourse
<1> QED
  BY <1>1, Inductive, PTL

(* A herdash that ends by itself on a calm day leaves its space with a     *)
(* name of its user's, the last one if nothing came between the two calls  *)
(* of its release (release_space).                                         *)
THEOREM ExitsRestore == Spec => CalmExitRestores
<1> DEFINE Restored == Calm => \A i \in Instance : Exits(i) => Users(Home[i], label[Home[i]])'
<1>1. IInv /\ DayInv /\ [Next]_vars => [Restored]_vars
  <2> SUFFICES ASSUME IInv, DayInv, Next, Calm, NEW i \in Instance, Exits(i)
               PROVE  Users(Home[i], label[Home[i]])'
    BY DEF vars, Exits
  <2>0. run \in [Instance -> Run] /\ run[i] \in Run /\ Home[i] \in Space /\ Labelled
        /\ run[i].at # "gone" /\ run'[i].at = "gone" /\ run'[i].on = "exit"
    BY SpaceAssumption DEF IInv, TypeOK, DayInv, Exits
  <2>1. PICK j \in Instance : Step(j)
    BY <2>0 DEF Next, UserRenames
  <2>2. \E r : Goes(j, r)
    BY <2>1 DEF Step, Start, Quit, Kill, LoadClaims, LookAtLabel, Restore, SaveReleased, Ask,
                Rename, Reload, SaveClaimed, SaveBegins, SaveEnds
  <2>3. Step(i)
    BY <2>0, <2>1, <2>2 DEF Goes
  <2>4. \A r : Goes(i, r) => run'[i] = r
    BY <2>0 DEF Goes
  <2>5. LoadClaims(i) \/ SaveReleased(i)
    <3>1. ASSUME NEW at, NEW on, Goes(i, Resting(at, on))
          PROVE  at = "gone" /\ on = "exit"
      BY <2>0, <2>4, <3>1, RestingFields
    <3>2. ASSUME NEW at, NEW n, Goes(i, Named(at, n))
          PROVE  at = "gone"
      BY <2>0, <2>4, <3>2, NamedFields
    <3>3. ~(Start(i) \/ Quit(i) \/ Kill(i))
      BY <3>1, <3>2 DEF Start, Quit, Kill
    <3>4. ~(LookAtLabel(i) \/ Restore(i) \/ Reload(i))
      BY <2>0, <2>4 DEF LookAtLabel, Restore, Reload, Run
    <3>5. ~Ask(i)
      BY <2>0, <2>4, <3>1 DEF Ask, Run
    <3>6. ~Rename(i)
      BY <2>0, <2>4, <3>1 DEF Rename, Run
    <3>7. Resting("running", "start").at = "running"
      BY RestingFields
    <3>8. ~SaveClaimed(i)
      BY <2>0, <2>4, <3>7 DEF SaveClaimed, SaveBegins, SaveEnds, Run
    <3> QED
      BY <2>3, <3>3, <3>4, <3>5, <3>6, <3>8 DEF Step
  <2>6. /\ OnCourse(run[i], Home[i])
        /\ UNCHANGED <<label, wanted, mishaps>>
    BY <2>5 DEF DayInv, AtWork, AtRest, LoadClaims, SaveReleased, SaveBegins, SaveEnds, Next
  <2>7. CASE LoadClaims(i)
    <3>1. Home[i] \notin DOMAIN Load(file)
      <4> DEFINE r == [run[i] EXCEPT !.at     = "look",
                                     !.claims = Without(Load(file), Home[i]),
                                     !.claim  = Load(file)[Home[i]]]
      <4>1. r.at = "look"
        BY <2>0 DEF Run
      <4>2. ~Goes(i, r)
        BY <2>0, <2>4, <4>1
      <4> QED
        BY <2>7, <4>2 DEF LoadClaims
    <3>2. label[Home[i]] \notin HerdashName
      BY <2>0, <2>6, <2>7, <3>1 DEF LoadClaims, OnCourse, CoversAll, Covers
    <3>3. Users(Home[i], label[Home[i]])
      BY <2>0, <3>2 DEF Labelled
    <3> QED
      BY <2>6, <3>3 DEF Users, Orderly
  <2>8. CASE SaveReleased(i)
    <3>1. Users(Home[i], label[Home[i]])
      BY <2>6, <2>8 DEF SaveReleased, SaveBegins, SaveEnds, OnCourse
    <3> QED
      BY <2>6, <3>1 DEF Users, Orderly
  <2> QED
    BY <2>5, <2>7, <2>8
<1> QED
  BY <1>1, Inductive, PTL DEF Spec, CalmExitRestores
=============================================================================
