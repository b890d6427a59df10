--------------------------- MODULE SessionProofs ---------------------------
(***************************************************************************)
(* For every set of endpoints, every number of late requests and all       *)
(* lengths of time: the settings a session runs with, the terminal it      *)
(* gives back, and the token it leaves.                                    *)
(***************************************************************************)
EXTENDS Session, TLAPS

-----------------------------------------------------------------------------
(* Settings. *)

LEMMA KeyType ==
    ASSUME NEW id \in ProviderId, NEW url, NEW env \in Environment
    PROVE  ResolveApiKey(id, url, env) \in KeyPlace \cup {None}
BY DEF ResolveApiKey, Holding

LEMMA ResolvedType ==
    ASSUME NEW flags \in Flags, NEW env \in Environment,
           ~flags.noSummaries, ~Refused(flags)
    PROVE  Resolved(flags, env) \in Provider
<1>1. IdOf(flags) \in ProviderId
  BY DEF IdOf, Flags, ProviderId
<1>2. UrlOf(flags) # None
  BY DEF Refused
<1>3. UrlOf(flags) \in BaseUrl \cup {DefaultUrl(id) : id \in ProviderId}
  BY <1>1 DEF UrlOf, Flags
<1> QED
  BY <1>1, <1>2, <1>3, KeyType DEF Resolved, Provider

(* What Configure makes of flags and environment. *)
SettingsOf(flags, env, workspace) ==
    [summaries    |-> [mode     |-> SummariesStatus(flags, env).mode,
                       detail   |-> SummariesStatus(flags, env).detail,
                       provider |-> UsableProvider(flags, env)],
     mouse        |-> ~flags.noMouse,
     publishToken |-> ~flags.noToken,
     workspace    |-> workspace]

(* Mode and provider agree: a session that says it summarises has a        *)
(* provider, and one that says it does not has none.                       *)
LEMMA SettingsType ==
    ASSUME NEW flags \in Flags, NEW env \in Environment, NEW workspace \in BOOLEAN,
           ~Refused(flags)
    PROVE  SettingsOf(flags, env, workspace) \in Settings
<1> DEFINE p == Resolved(flags, env)
<1> DEFINE s == SettingsOf(flags, env, workspace).summaries
<1>1. flags.noSummaries \in BOOLEAN /\ flags.noMouse \in BOOLEAN /\ flags.noToken \in BOOLEAN
  BY DEF Flags
<1>2. CASE flags.noSummaries
  <2>1. s = [mode |-> "OffByFlag", detail |-> None, provider |-> None]
    BY <1>2 DEF SettingsOf, SummariesStatus, UsableProvider
  <2>2. s \in Summaries
    BY <2>1 DEF Summaries
  <2> QED
    BY <1>1, <2>2 DEF SettingsOf, Settings
<1>3. CASE ~flags.noSummaries /\ NeedsMissingKey(p)
  <2>1. PICK d \in {"not set", "not sent"} :
           s = [mode |-> "OffNoKey", detail |-> d, provider |-> None]
    BY <1>3 DEF SettingsOf, SummariesStatus, UsableProvider
  <2>2. [mode |-> "OffNoKey", detail |-> d, provider |-> None]
           \in [mode : {"OffNoKey"}, detail : {"not set", "not sent"}, provider : {None}]
    OBVIOUS
  <2>3. s \in Summaries
    BY <2>1, <2>2 DEF Summaries
  <2> QED
    BY <1>1, <2>3 DEF SettingsOf, Settings
<1>4. CASE ~flags.noSummaries /\ ~NeedsMissingKey(p)
  <2>1. \E m \in {"On", "OnLocal"} : s = [mode |-> m, detail |-> "name", provider |-> p]
    BY <1>4 DEF SettingsOf, SummariesStatus, UsableProvider
  <2>2. p \in Provider
    BY <1>4, ResolvedType
  <2>3. s \in Summaries
    BY <2>1, <2>2 DEF Summaries
  <2> QED
    BY <1>1, <2>3 DEF SettingsOf, Settings
<1> QED
  BY <1>1, <1>2, <1>3, <1>4

LEMMA ConfigureSettings ==
    ASSUME Configure
    PROVE  \/ main' = "gone" /\ settings' = settings
           \/ main' = "connect" /\ settings' \in Settings
<1>1. \/ main' = "gone" /\ settings' = settings
      \/ \E flags \in Flags, env \in Environment, workspace \in BOOLEAN :
            /\ ~Refused(flags)
            /\ main' = "connect"
            /\ settings' = SettingsOf(flags, env, workspace)
  BY DEF Configure, SettingsOf
<1> QED
  BY <1>1, SettingsType

-----------------------------------------------------------------------------
(* Types. *)

Publishers == [tick : 0..Refresh, call : Call \cup {None}]

LEMMA CallType ==
    /\ NewCall \in Call
    /\ \A c \in Call : [c EXCEPT !.taken = TRUE] \in Call
    /\ \A c \in Call : c.left # 0 => [c EXCEPT !.left = @ - 1] \in Call
<1>1. NewCall \in Call
  BY SessionAssumption DEF NewCall, Call
<1>2. ASSUME NEW c \in Call
      PROVE  [c EXCEPT !.taken = TRUE] \in Call
  BY DEF Call
<1>3. ASSUME NEW c \in Call, c.left # 0
      PROVE  [c EXCEPT !.left = @ - 1] \in Call
  <2>1. c.left - 1 \in 0..CallLimit
    BY <1>3, SessionAssumption DEF Call
  <2> QED
    BY <2>1 DEF Call
<1> QED
  BY <1>1, <1>2, <1>3

LEMMA PublisherType ==
    ASSUME NEW t \in Publishers
    PROVE  /\ WithoutCall(t) \in Publishers
           /\ \A c \in Call \cup {None}, n \in 0..Refresh : [tick |-> n, call |-> c] \in Publishers
           /\ t.call \in Call => [t EXCEPT !.call.taken = TRUE] \in Publishers
BY CallType DEF Publishers, WithoutCall

LEMMA OneLessType == \A m \in Nat : \A n \in 0..m : OneLess(n) \in 0..m /\ OneLess(n) <= n
BY DEF OneLess

LEMMA ProcessEndsType ==
    ASSUME TypeOK, ProcessEnds
    PROVE  main' \in Phase /\ publisher' = None /\ late' \in 0..MaxLate
<1>1. main' \in Phase /\ publisher' = None
  BY DEF ProcessEnds, Phase
<1>2. late' = late \/ (late < MaxLate /\ late' = late + 1)
  BY DEF ProcessEnds
<1>3. late \in 0..MaxLate
  BY DEF TypeOK
<1>4. late' \in 0..MaxLate
  BY <1>2, <1>3, SessionAssumption
<1> QED
  BY <1>1, <1>4

(* Past configuring there are settings. *)
Configured == main \notin {"configure", "gone"} => settings \in Settings

LEMMA ConfiguredIsInductive == Configured /\ [Next]_vars => Configured'
<1> SUFFICES ASSUME Configured, [Next]_vars
             PROVE  Configured'
  OBVIOUS
<1>1. CASE Configure
  BY <1>1, ConfigureSettings DEF Configured
<1>2. CASE UNCHANGED settings /\ (main \in {"configure", "gone"} => main' \in {"gone", main})
  BY <1>2 DEF Configured
<1>3. CASE Main /\ ~Configure
  BY <1>2, <1>3
     DEF Main, Connect, TakeTerminal, EnterRun, Claimed, Quit, DrawFails, Released, ClearEnds,
         ReleaseMouse, RestoreTerminal, Panic, Kill, ProcessEnds, Phase
<1>4. CASE Publisher \/ HerdrTakes \/ Elapse \/ UNCHANGED vars
  BY <1>2, <1>4
     DEF Publisher, Publish, PublishEnds, HerdrTakes, TakeReport, TakeClear, TakeLate, Elapse,
         process, vars
<1> QED
  BY <1>1, <1>3, <1>4 DEF Next

LEMMA TypeIsInductive == TypeOK /\ Configured /\ [Next]_vars => TypeOK'
<1> SUFFICES ASSUME TypeOK, Configured, [Next]_vars
             PROVE  TypeOK'
  OBVIOUS
<1> USE SessionAssumption
<1>0. late \in 0..MaxLate /\ token \in 0..Ttl /\ drops \in 0..2
  BY DEF TypeOK
<1>1. CASE Configure
  <2>1. settings' \in Settings \cup {None}
    BY <1>1, ConfigureSettings DEF TypeOK
  <2>2. main' \in Phase /\ ended' \in {ended, "refused"}
    BY <1>1 DEF Configure, Phase
  <2> QED
    BY <1>1, <2>1, <2>2 DEF Configure, tokenVars, TypeOK
<1>2. CASE Connect
  BY <1>2 DEF Connect, tokenVars, TypeOK, Phase
<1>3. CASE TakeTerminal
  BY <1>3 DEF TakeTerminal, tokenVars, TypeOK, Phase
<1>4. CASE EnterRun
  <2>1. publisher' \in Publishers \cup {None}
    BY <1>4 DEF EnterRun, StartsPublisher, Publishers
  <2>2. term' \in [raw : BOOLEAN, mouse : BOOLEAN]
    <3>1. settings.mouse \in BOOLEAN
      BY <1>4 DEF EnterRun, Configured, Settings
    <3>2. PICK on \in {settings.mouse, FALSE} : term' = [term EXCEPT !.mouse = on]
      BY <1>4 DEF EnterRun
    <3> QED
      BY <3>1, <3>2 DEF TypeOK
  <2> QED
    BY <1>4, <2>1, <2>2 DEF EnterRun, TypeOK, Phase, Publishers
<1>5. CASE Claimed \/ Quit \/ DrawFails \/ ClearEnds
  BY <1>5 DEF Claimed, Quit, DrawFails, ClearEnds, tokenVars, TypeOK, Phase
<1>6. CASE Released
  <2>1. raced' \in BOOLEAN /\ clear' \in Call \cup {None} /\ main' \in Phase
    BY <1>6, CallType DEF Released, ReportPending, TypeOK, Phase
  <2> QED
    BY <1>6, <2>1 DEF Released, TypeOK
<1>7. CASE ReleaseMouse
  BY <1>7 DEF ReleaseMouse, tokenVars, TypeOK, Phase
<1>8. CASE RestoreTerminal
  BY <1>8, ProcessEndsType DEF RestoreTerminal, TypeOK
<1>9. CASE Panic
  BY <1>9, ProcessEndsType DEF Panic, Hook, TypeOK
<1>10. CASE Kill
  BY <1>10, ProcessEndsType DEF Kill, TypeOK
<1>11. CASE Publish
  <2>1. publisher' \in Publishers
    BY <1>11, CallType DEF Publish, Publishers
  <2>2. raced' \in BOOLEAN
    BY <1>11 DEF Publish, Clearing, TypeOK
  <2> QED
    BY <1>11, <2>1, <2>2 DEF Publish, process, TypeOK, Publishers
<1>12. CASE TakeReport
  <2>1. publisher \in Publishers /\ publisher.call \in Call
    BY <1>12 DEF TakeReport, Calling, TypeOK, Publishers
  <2>2. publisher' \in Publishers
    BY <1>12, <2>1, PublisherType DEF TakeReport
  <2>3. token' = Ttl /\ token' \in 0..Ttl
    BY <1>12 DEF TakeReport
  <2>4. UNCHANGED <<process, clear, late, drops, raced>>
    BY <1>12 DEF TakeReport
  <2> QED
    BY <2>2, <2>3, <2>4 DEF process, TypeOK, Publishers
<1>13. CASE PublishEnds
  <2>1. publisher' \in Publishers
    BY <1>13, PublisherType DEF PublishEnds, Calling, TypeOK, Publishers
  <2>2. drops' \in 0..2
    <3>1. drops' = 0 \/ (drops < 2 /\ drops' = drops + 1) \/ drops' = 2
      BY <1>13, Zenon DEF PublishEnds
    <3> QED
      BY <1>0, <3>1
  <2>3. late' = late \/ (late < MaxLate /\ late' = late + 1)
    BY <1>13 DEF PublishEnds
  <2>4. late' \in 0..MaxLate
    BY <1>0, <2>3
  <2>5. UNCHANGED <<process, clear, token, raced>>
    BY <1>13 DEF PublishEnds
  <2> QED
    BY <2>1, <2>2, <2>4, <2>5 DEF process, TypeOK, Publishers
<1>14. CASE TakeLate
  <2>1. token' \in 0..Ttl /\ late' \in 0..MaxLate
    BY <1>0, <1>14 DEF TakeLate
  <2>2. UNCHANGED <<process, publisher, clear, drops, raced>>
    BY <1>14 DEF TakeLate
  <2> QED
    BY <2>1, <2>2 DEF process, TypeOK
<1>15. CASE TakeClear
  <2>1. clear' \in Call
    BY <1>15, CallType DEF TakeClear, TypeOK
  <2>2. token' \in 0..Ttl
    BY <1>15 DEF TakeClear, Cleared
  <2>3. UNCHANGED <<process, publisher, late, drops, raced>>
    BY <1>15 DEF TakeClear
  <2> QED
    BY <2>1, <2>2, <2>3 DEF process, TypeOK
<1>16. CASE Elapse
  <2>1. token' \in 0..Ttl
    BY <1>16, OneLessType DEF Elapse, TypeOK
  <2>2. clear' \in Call \cup {None}
    BY <1>16, CallType DEF Elapse, Overdue, Older, TypeOK
  <2>3. publisher' \in Publishers \cup {None}
    <3>1. CASE publisher = None
      BY <1>16, <3>1 DEF Elapse
    <3>2. CASE publisher # None
      <4>1. publisher \in Publishers
        BY <3>2 DEF TypeOK, Publishers
      <4>2. OneLess(publisher.tick) \in 0..Refresh
        BY <4>1, OneLessType DEF Publishers
      <4>3. Older(publisher.call) \in Call \cup {None}
        BY <1>16, <3>2, <4>1, CallType DEF Elapse, Overdue, Calling, Older, Publishers
      <4> QED
        BY <1>16, <3>2, <4>1, <4>2, <4>3, PublisherType DEF Elapse
    <3> QED
      BY <3>1, <3>2
  <2> QED
    BY <1>16, <2>1, <2>2, <2>3 DEF Elapse, process, TypeOK, Publishers
<1>17. CASE UNCHANGED vars
  BY <1>17 DEF vars, process, tokenVars, TypeOK
<1> QED
  BY <1>1, <1>2, <1>3, <1>4, <1>5, <1>6, <1>7, <1>8, <1>9, <1>10, <1>11, <1>12, <1>13, <1>14,
     <1>15, <1>16, <1>17
     DEF Next, Main, Publisher, HerdrTakes

LEMMA TypeHoldsFirst == Init => TypeOK /\ Configured
<1> SUFFICES ASSUME Init
             PROVE  TypeOK /\ Configured
  OBVIOUS
<1>1. main \in Phase /\ Configured
  BY DEF Init, Phase, Configured
<1>2. term \in [raw : BOOLEAN, mouse : BOOLEAN]
  BY DEF Init
<1>3. late \in 0..MaxLate /\ token \in 0..Ttl /\ drops \in 0..2
  BY SessionAssumption DEF Init
<1>4. raced \in BOOLEAN
  BY DEF Init
<1>5. settings = None /\ ended = None /\ publisher = None /\ clear = None
  BY DEF Init
<1> QED
  BY <1>1, <1>2, <1>3, <1>4, <1>5 DEF TypeOK

(* Every variable keeps its type, whatever endpoints there are and however *)
(* long calls and tokens last; in particular a session whose mode is On    *)
(* has a provider with the key it needs (from_cli).                        *)
THEOREM TypeCorrect == Spec => [](TypeOK /\ Configured)
BY TypeHoldsFirst, TypeIsInductive, ConfiguredIsInductive, PTL DEF Spec

-----------------------------------------------------------------------------
(* The terminal. *)

(* What main, and where it stands, say of the terminal's modes: nothing is *)
(* taken before "mouse", the mouse only if the settings have it, and it is *)
(* let go before the rest is restored.                                     *)
TermInv ==
    /\ main \in {"configure", "connect", "init"} => ~term.raw
    /\ main \in {"configure", "connect", "init", "mouse", "restore"} => ~term.mouse
    /\ main # "gone" /\ term.mouse => settings.mouse
    /\ TerminalGivenBack

LEMMA TermInvIsInductive == TypeOK /\ Configured /\ TermInv /\ [Next]_vars => TermInv'
<1> SUFFICES ASSUME TypeOK, Configured, TermInv, [Next]_vars
             PROVE  TermInv'
  OBVIOUS
<1> USE DEF TermInv, TerminalGivenBack
<1>0. \E raw, mouse \in BOOLEAN : term = [raw |-> raw, mouse |-> mouse]
  BY DEF TypeOK
<1>1. CASE Configure
  BY <1>1 DEF Configure
<1>2. CASE Connect
  BY <1>2 DEF Connect
<1>3. CASE TakeTerminal
  BY <1>0, <1>3 DEF TakeTerminal
<1>4. CASE EnterRun
  BY <1>0, <1>4 DEF EnterRun
<1>5. CASE Claimed \/ Quit \/ DrawFails \/ Released \/ ClearEnds
  BY <1>5 DEF Claimed, Quit, DrawFails, Released, ClearEnds
<1>6. CASE ReleaseMouse
  BY <1>0, <1>6 DEF ReleaseMouse
<1>7. CASE RestoreTerminal
  BY <1>0, <1>7 DEF RestoreTerminal, ProcessEnds
<1>8. CASE Panic
  BY <1>8 DEF Panic, Hook, ProcessEnds
<1>9. CASE Kill
  BY <1>9 DEF Kill, ProcessEnds
<1>10. CASE Publisher \/ HerdrTakes \/ Elapse \/ UNCHANGED vars
  BY <1>10
     DEF Publisher, Publish, PublishEnds, HerdrTakes, TakeReport, TakeClear, TakeLate, Elapse,
         process, vars
<1> QED
  BY <1>1, <1>2, <1>3, <1>4, <1>5, <1>6, <1>7, <1>8, <1>9, <1>10 DEF Next, Main

(* However the process ends, but by a kill, and at whatever step, the      *)
(* terminal is as it was found (main, install_panic_hook).                 *)
THEOREM TerminalIsGivenBack == Spec => []TerminalGivenBack
<1>1. Init => TermInv
  BY DEF Init, TermInv, TerminalGivenBack
<1>2. TermInv => TerminalGivenBack
  BY DEF TermInv
<1> QED
  BY <1>1, <1>2, TermInvIsInductive, TypeCorrect, PTL DEF Spec

-----------------------------------------------------------------------------
(* The keys. *)

(* A vendor's key is resolved for that vendor's origin alone. *)
LEMMA VendorKeyStays ==
    ASSUME NEW id \in ProviderId, NEW url, NEW env \in Environment,
           ResolveApiKey(id, url, env) \in KeyPlace \ {"HERDASH_API_KEY"}
    PROVE  \E v \in Vendor :
              /\ \/ ResolveApiKey(id, url, env) = EnvVar(v)
                 \/ v = "openrouter" /\ ResolveApiKey(id, url, env) = KeyFile
              /\ SameOrigin(DefaultUrl(v), url)
<1> DEFINE k == ResolveApiKey(id, url, env)
<1>1. /\ SameOrigin(DefaultUrl(id), url)
      /\ k = EnvVar(id) \/ (id = "openrouter" /\ k = KeyFile)
  BY NoneIsNoPlace DEF ResolveApiKey
<1>2. id \in Vendor
  <2>1. CASE id = "openrouter"
    BY <2>1 DEF Vendor
  <2>2. CASE id # "openrouter"
    <3>1. EnvVar(id) # None
      BY <1>1, <2>2, NoneIsNoPlace
    <3> QED
      BY <3>1 DEF EnvVar, Vendor, ProviderId
  <2> QED
    BY <2>1, <2>2
<1> QED
  BY <1>1, <1>2

LEMMA KeysStayInSettings ==
    ASSUME NEW flags \in Flags, NEW env \in Environment, ~Refused(flags),
           UsableProvider(flags, env) # None,
           UsableProvider(flags, env).key \in KeyPlace \ {"HERDASH_API_KEY"}
    PROVE  LET p == UsableProvider(flags, env)
           IN \E v \in Vendor : /\ p.key = EnvVar(v) \/ (v = "openrouter" /\ p.key = KeyFile)
                                /\ SameOrigin(DefaultUrl(v), p.url)
<1>1. UsableProvider(flags, env) = Resolved(flags, env)
  BY DEF UsableProvider
<1>2. IdOf(flags) \in ProviderId
  BY DEF IdOf, Flags, ProviderId
<1>3. /\ Resolved(flags, env).key = ResolveApiKey(IdOf(flags), UrlOf(flags), env)
      /\ Resolved(flags, env).url = UrlOf(flags)
  BY DEF Resolved
<1> QED
  BY <1>1, <1>2, <1>3, VendorKeyStays

(* For every endpoint, flag and content of the environment: a key that was *)
(* not named for this run goes to its own vendor (resolve_api_key).        *)
THEOREM VendorKeysStayHome == Spec => []KeysStayHome
<1>1. Init => KeysStayHome
  BY DEF Init, KeysStayHome
<1>2. KeysStayHome /\ [Next]_vars => KeysStayHome'
  <2> SUFFICES ASSUME KeysStayHome, [Next]_vars
               PROVE  KeysStayHome'
    OBVIOUS
  <2>1. CASE settings' = settings
    BY <2>1 DEF KeysStayHome
  <2>2. CASE Configure /\ settings' # settings
    <3>1. PICK flags \in Flags, env \in Environment :
             /\ ~Refused(flags)
             /\ settings'.summaries.provider = UsableProvider(flags, env)
      BY <2>2 DEF Configure
    <3> QED
      BY <3>1, KeysStayInSettings DEF KeysStayHome
  <2>3. Configure \/ settings' = settings
    BY DEF Next, Main, Connect, TakeTerminal, EnterRun, Claimed, Quit, DrawFails, Released,
           ClearEnds, ReleaseMouse, RestoreTerminal, Panic, Kill, Publisher, Publish, PublishEnds,
           HerdrTakes, TakeReport, TakeClear, TakeLate, Elapse, process, vars
  <2> QED
    BY <2>1, <2>2, <2>3
<1> QED
  BY <1>1, <1>2, PTL DEF Spec

-----------------------------------------------------------------------------
(* The clear at the exit. *)

(* The clear is main's last call; until it is raced no report is about     *)
(* that could undo it, and there is none to come once it is taken.         *)
ClearInv ==
    /\ clear # None => main \in {"clear", "unmouse", "restore", "gone"}
    /\ main \in {"configure", "connect", "init", "mouse", "gone"} => publisher = None
    /\ clear # None /\ ~raced => ~ReportPending
    /\ clear # None /\ ~raced /\ clear.taken => token = 0

(* Only a report that may still be taken can be taken, or left behind.     *)
LEMMA NoNewReports ==
    ASSUME TypeOK, ProcessEnds, ~ReportPending
    PROVE  ~ReportPending'
<1>1. publisher' = None /\ late' = late
  BY DEF ProcessEnds, ReportPending
<1> QED
  BY <1>1 DEF ReportPending, Calling

LEMMA ClearInvIsInductive == TypeOK /\ ClearInv /\ [Next]_vars => ClearInv'
<1> SUFFICES ASSUME TypeOK, ClearInv, [Next]_vars
             PROVE  ClearInv'
  OBVIOUS
<1>1. CASE Configure \/ Connect \/ TakeTerminal
  BY <1>1 DEF Configure, Connect, TakeTerminal, tokenVars, ClearInv, ReportPending, Calling
<1>2. CASE EnterRun
  BY <1>2 DEF EnterRun, ClearInv
<1>3. CASE Claimed \/ Quit \/ DrawFails
  BY <1>3 DEF Claimed, Quit, DrawFails, tokenVars, ClearInv
<1>4. CASE Released
  <2>1. clear = None /\ main' \in {"clear", "unmouse"} /\ UNCHANGED <<publisher, late, token>>
    BY <1>4 DEF Released, ClearInv
  <2>2. clear' # None => ~clear'.taken /\ (~raced' => ~ReportPending)
    <3>1. clear' # None => clear' = NewCall /\ raced' = ReportPending
      BY <1>4, <2>1 DEF Released
    <3>2. ~NewCall.taken
      BY DEF NewCall
    <3> QED
      BY <3>1, <3>2
  <2>3. ReportPending' <=> ReportPending
    BY <2>1 DEF ReportPending
  <2> QED
    BY <2>1, <2>2, <2>3 DEF ClearInv
<1>5. CASE ClearEnds \/ ReleaseMouse
  BY <1>5 DEF ClearEnds, ReleaseMouse, tokenVars, ClearInv, ReportPending, Calling
<1>6. CASE RestoreTerminal \/ Panic \/ Kill
  <2>1. ProcessEnds /\ UNCHANGED <<clear, token, raced>>
    BY <1>6 DEF RestoreTerminal, Panic, Kill
  <2>2. main' = "gone" /\ publisher' = None
    BY <2>1 DEF ProcessEnds
  <2> QED
    BY <2>1, <2>2, NoNewReports DEF ClearInv
<1>7. CASE Publish
  <2>1. main \notin {"configure", "connect", "init", "mouse", "gone"}
    BY <1>7 DEF Publish, ClearInv
  <2>2. clear # None => raced'
    BY <1>7, <2>1 DEF Publish, Clearing, ClearInv
  <2> QED
    BY <1>7, <2>1, <2>2 DEF Publish, process, ClearInv
<1>8. CASE TakeReport
  <2>1. ReportPending /\ main # "gone"
    BY <1>8 DEF TakeReport, ReportPending, Calling, ClearInv
  <2> QED
    BY <1>8, <2>1 DEF TakeReport, Calling, process, ClearInv
<1>9. CASE PublishEnds
  <2>1. UNCHANGED <<process, clear, token, raced>>
    BY <1>9 DEF PublishEnds
  <2>2. main \notin {"configure", "connect", "init", "mouse", "gone"}
    BY <1>9 DEF PublishEnds, Calling, ClearInv
  <2>3. ~ReportPending => ~ReportPending'
    <3>1. ~Calling(publisher)'
      BY <1>9 DEF PublishEnds, Calling, WithoutCall, TypeOK
    <3>2. ~ReportPending => late' = late
      BY <1>9 DEF PublishEnds, ReportPending
    <3> QED
      BY <3>1, <3>2 DEF ReportPending
  <2> QED
    BY <2>1, <2>2, <2>3 DEF process, ClearInv
<1>10. CASE TakeLate
  <2>1. ReportPending
    BY <1>10 DEF TakeLate, ReportPending
  <2> QED
    BY <1>10, <2>1 DEF TakeLate, process, ClearInv
<1>11. CASE TakeClear
  BY <1>11 DEF TakeClear, Cleared, process, ClearInv, ReportPending, Calling
<1>12. CASE Elapse
  <2>1. clear' # None => clear # None /\ (clear'.taken => clear.taken)
    BY <1>12 DEF Elapse, Older, TypeOK, Call
  <2>2. token = 0 => token' = 0
    BY <1>12 DEF Elapse, OneLess
  <2>3. publisher = None => publisher' = None
    BY <1>12 DEF Elapse
  <2>4. ~ReportPending => ~ReportPending'
    BY <1>12 DEF Elapse, ReportPending, Calling, Older, TypeOK, Call
  <2>5. UNCHANGED <<main, raced>>
    BY <1>12 DEF Elapse, process
  <2> QED
    BY <2>1, <2>2, <2>3, <2>4, <2>5 DEF ClearInv
<1>13. CASE UNCHANGED vars
  BY <1>13 DEF vars, process, tokenVars, ClearInv, ReportPending, Calling
<1> QED
  BY <1>1, <1>2, <1>3, <1>4, <1>5, <1>6, <1>7, <1>8, <1>9, <1>10, <1>11, <1>12, <1>13
     DEF Next, Main, Publisher, HerdrTakes

(* Whatever the lengths of time and the interleaving of publisher, main    *)
(* and herdr: a clear that is taken and not raced leaves no token (run's   *)
(* last lines).                                                            *)
THEOREM ClearIsFinal == Spec => []ClearedAtExit
<1>1. Init => ClearInv
  BY DEF Init, ClearInv
<1>2. ClearInv => ClearedAtExit
  BY DEF ClearInv, ClearedAtExit
<1> QED
  BY <1>1, <1>2, ClearInvIsInductive, TypeCorrect, PTL DEF Spec

-----------------------------------------------------------------------------
(* The token while the loop runs. *)

(* What is left of the token at least, by what became of the publisher's   *)
(* last calls. A call is as old as its tick.                               *)
Age(task) == Refresh - task.tick

AtLeast(task, left, n) == left + Age(task) + n >= Ttl

Floor(task, left, lost) ==
    /\ task.call # None => Age(task) = CallLimit - task.call.left
    /\ task.call # None /\ task.call.taken => AtLeast(task, left, 0)
    /\ task.call = None /\ lost = 0 => AtLeast(task, left, 0)
    /\ task.call = None /\ lost = 1 => AtLeast(task, left, Refresh)
    /\ task.call # None /\ ~task.call.taken =>
          /\ lost = 0 => AtLeast(task, left, Refresh)
          /\ lost = 1 => AtLeast(task, left, Refresh + Refresh)

Looping == main \in {"claim", "loop", "release"}

TokenInv ==
    /\ main \in {"configure", "connect", "init", "mouse"} => drops = 2
    /\ Looping /\ publisher # None => Floor(publisher, token, drops)

(* A call that starts. *)
LEMMA FloorPublish ==
    ASSUME NEW t \in Publishers, NEW left \in Nat, NEW lost \in 0..2,
           t.tick = 0, t.call = None, Floor(t, left, lost)
    PROVE  Floor([tick |-> Refresh, call |-> NewCall], left, lost)
<1> DEFINE u == [tick |-> Refresh, call |-> NewCall]
<1>1. u.tick = Refresh /\ u.call = NewCall
  OBVIOUS
<1>2. u.call # None /\ ~u.call.taken /\ u.call.left = CallLimit
  <2>1. NewCall # None
    BY CallType, NoneIsNoCall
  <2> QED
    BY <1>1, <2>1 DEF NewCall
<1> HIDE DEF u
<1>3. Age(u) = CallLimit - u.call.left
  BY <1>1, <1>2, SessionAssumption DEF Age
<1>4. lost = 0 => AtLeast(u, left, Refresh)
  <2>1. lost = 0 => AtLeast(t, left, 0)
    BY DEF Floor
  <2> QED
    BY <1>1, <2>1, SessionAssumption DEF AtLeast, Age
<1>5. lost = 1 => AtLeast(u, left, Refresh + Refresh)
  <2>1. lost = 1 => AtLeast(t, left, Refresh)
    BY DEF Floor
  <2> QED
    BY <1>1, <2>1, SessionAssumption DEF AtLeast, Age
<1>6. Floor(u, left, lost)
  BY <1>2, <1>3, <1>4, <1>5, Zenon DEF Floor
<1> QED
  BY <1>6 DEF u

(* A report that is taken. *)
LEMMA FloorTaken ==
    ASSUME NEW t \in Publishers, NEW left \in Nat, NEW lost \in 0..2,
           t.call # None, Floor(t, left, lost)
    PROVE  Floor([t EXCEPT !.call.taken = TRUE], Ttl, lost)
<1> DEFINE u == [t EXCEPT !.call.taken = TRUE]
<1>1. t.call \in Call
  BY DEF Publishers
<1>2. u.tick = t.tick /\ u.call.left = t.call.left /\ u.call.taken /\ u.call \in Call
  BY <1>1 DEF Publishers, Call
<1> HIDE DEF u
<1>3. u.call # None
  BY <1>2, NoneIsNoCall
<1>4. Age(u) = CallLimit - u.call.left
  BY <1>2 DEF Floor, Age
<1>5. AtLeast(u, Ttl, 0)
  BY <1>2, SessionAssumption DEF AtLeast, Age, Publishers
<1>6. Floor(u, Ttl, lost)
  BY <1>2, <1>3, <1>4, <1>5, Zenon DEF Floor
<1> QED
  BY <1>6 DEF u

(* A call that ends. *)
LEMMA FloorEnds ==
    ASSUME NEW t \in Publishers, NEW left \in Nat, NEW lost \in 0..2, t.call # None,
           Floor(t, left, lost)
    PROVE  Floor(WithoutCall(t), left,
                 IF t.call.taken THEN 0 ELSE IF lost < 2 THEN lost + 1 ELSE 2)
<1> DEFINE u == WithoutCall(t)
           m == IF t.call.taken THEN 0 ELSE IF lost < 2 THEN lost + 1 ELSE 2
<1>1. u.tick = t.tick /\ u.call = None
  BY DEF WithoutCall, Publishers
<1>2. (m = 0 => t.call.taken) /\ (m = 1 => ~t.call.taken /\ lost = 0)
  OBVIOUS
<1> HIDE DEF u, m
<1>3. (m = 0 => AtLeast(t, left, 0)) /\ (m = 1 => AtLeast(t, left, Refresh))
  BY <1>2, Zenon DEF Floor
<1>4. (m = 0 => AtLeast(u, left, 0)) /\ (m = 1 => AtLeast(u, left, Refresh))
  BY <1>1, <1>3 DEF AtLeast, Age
<1>5. Floor(u, left, m)
  BY <1>1, <1>4, Zenon DEF Floor
<1> QED
  BY <1>5 DEF u, m

(* A unit of time. *)
LEMMA FloorElapse ==
    ASSUME NEW t \in Publishers, NEW left \in Nat, NEW lost \in 0..2, Floor(t, left, lost),
           t.call = None => t.tick # 0,
           t.call # None => t.call.left # 0
    PROVE  Floor([tick |-> OneLess(t.tick), call |-> Older(t.call)], OneLess(left), lost)
<1> DEFINE u == [tick |-> OneLess(t.tick), call |-> Older(t.call)]
<1> USE SessionAssumption
<1>1. t.tick \in 0..Refresh /\ t.call \in Call \cup {None}
  BY DEF Publishers
<1>2. t.tick # 0
  <2>1. CASE t.call # None
    <3>1. Age(t) = CallLimit - t.call.left /\ t.call.left \in 0..CallLimit
      BY <1>1, <2>1 DEF Floor, Call
    <3> QED
      BY <1>1, <3>1 DEF Age
  <2> QED
    BY <2>1
<1>3. u.tick = t.tick - 1
  BY <1>1, <1>2 DEF OneLess
<1>4. OneLess(left) \in Nat /\ OneLess(left) + 1 >= left
  BY DEF OneLess
<1>5. ASSUME NEW n \in Nat, AtLeast(t, left, n)
      PROVE  AtLeast(u, OneLess(left), n)
  BY <1>1, <1>3, <1>4, <1>5 DEF AtLeast, Age
<1>6. CASE t.call = None
  <2>1. u.call = None
    BY <1>6 DEF Older
  <2> HIDE DEF u
  <2>2. (lost = 0 => AtLeast(t, left, 0)) /\ (lost = 1 => AtLeast(t, left, Refresh))
    BY <1>6, Zenon DEF Floor
  <2>3. /\ lost = 0 => AtLeast(u, OneLess(left), 0)
        /\ lost = 1 => AtLeast(u, OneLess(left), Refresh)
    BY <1>5, <2>2
  <2>4. Floor(u, OneLess(left), lost)
    BY <2>1, <2>3, Zenon DEF Floor
  <2> QED
    BY <2>4 DEF u
<1>7. CASE t.call # None
  <2>1. t.call \in Call
    BY <1>1, <1>7
  <2>2. /\ u.call # None
        /\ u.call.left = t.call.left - 1
        /\ u.call.taken = t.call.taken
    <3>1. u.call = [t.call EXCEPT !.left = @ - 1]
      BY <1>7 DEF Older
    <3>2. u.call \in Call
      BY <1>7, <2>1, <3>1, CallType
    <3> QED
      BY <2>1, <3>1, <3>2, NoneIsNoCall DEF Call
  <2> HIDE DEF u
  <2>3. Age(u) = CallLimit - u.call.left
    <3>1. Age(t) = CallLimit - t.call.left /\ t.call.left \in 0..CallLimit
      BY <1>7, <2>1 DEF Floor, Call
    <3> QED
      BY <1>1, <1>3, <2>2, <3>1 DEF Age
  <2>4. u.call.taken => AtLeast(u, OneLess(left), 0)
    <3>1. t.call.taken => AtLeast(t, left, 0)
      BY <1>7, Zenon DEF Floor
    <3> QED
      BY <1>5, <2>2, <3>1
  <2>5. ~u.call.taken => /\ lost = 0 => AtLeast(u, OneLess(left), Refresh)
                         /\ lost = 1 => AtLeast(u, OneLess(left), Refresh + Refresh)
    <3>1. ~t.call.taken => /\ lost = 0 => AtLeast(t, left, Refresh)
                           /\ lost = 1 => AtLeast(t, left, Refresh + Refresh)
      BY <1>7, Zenon DEF Floor
    <3>2. Refresh \in Nat /\ Refresh + Refresh \in Nat
      OBVIOUS
    <3> QED
      BY <1>5, <2>2, <3>1, <3>2
  <2>6. Floor(u, OneLess(left), lost)
    BY <2>2, <2>3, <2>4, <2>5, Zenon DEF Floor
  <2> QED
    BY <2>6 DEF u
<1> QED
  BY <1>6, <1>7

(* A late report gives the token its full time. *)
LEMMA FloorRises ==
    ASSUME NEW t \in Publishers, NEW left \in Nat, NEW lost \in 0..2, Floor(t, left, lost),
           left <= Ttl
    PROVE  Floor(t, Ttl, lost)
<1>1. ASSUME NEW n \in Nat, AtLeast(t, left, n)
      PROVE  AtLeast(t, Ttl, n)
  BY <1>1, SessionAssumption DEF AtLeast, Age, Publishers
<1>2. 0 \in Nat /\ Refresh \in Nat /\ Refresh + Refresh \in Nat
  BY SessionAssumption
<1> QED
  BY <1>1, <1>2, Zenon DEF Floor

(* What the floor is worth, if the token outlives two ticks and a call.    *)
LEMMA FloorHolds ==
    ASSUME Ttl > Refresh + Refresh + CallLimit,
           NEW t \in Publishers, NEW left \in Nat, NEW lost \in 0..2, Floor(t, left, lost),
           lost < 2
    PROVE  left > 0
<1> USE SessionAssumption
<1>1. t.tick \in 0..Refresh /\ t.call \in Call \cup {None}
  BY DEF Publishers
<1>2. lost = 0 \/ lost = 1
  OBVIOUS
<1>3. CASE t.call = None
  <2>1. AtLeast(t, left, 0) \/ AtLeast(t, left, Refresh)
    BY <1>2, <1>3, Zenon DEF Floor
  <2> QED
    BY <1>1, <2>1 DEF AtLeast, Age
<1>4. CASE t.call # None
  <2>1. Age(t) = CallLimit - t.call.left /\ t.call.left \in 0..CallLimit
    BY <1>1, <1>4 DEF Floor, Call
  <2>2. \/ AtLeast(t, left, 0)
        \/ AtLeast(t, left, Refresh)
        \/ AtLeast(t, left, Refresh + Refresh)
    BY <1>2, <1>4, Zenon DEF Floor
  <2> QED
    BY <1>1, <2>1, <2>2 DEF AtLeast
<1> QED
  BY <1>3, <1>4

LEMMA Ranges ==
    ASSUME TypeOK
    PROVE  /\ token \in Nat /\ token <= Ttl /\ drops \in 0..2
           /\ publisher \in Publishers \cup {None}
<1>1. token \in 0..Ttl /\ drops \in 0..2
  BY DEF TypeOK
<1>2. token \in Nat /\ token <= Ttl
  BY <1>1, SessionAssumption
<1>3. publisher \in Publishers \cup {None}
  BY Zenon DEF TypeOK, Publishers
<1> QED
  BY <1>1, <1>2, <1>3

LEMMA TokenInvIsInductive == TypeOK /\ ClearInv /\ TokenInv /\ [Next]_vars => TokenInv'
<1> SUFFICES ASSUME TypeOK, ClearInv, TokenInv, [Next]_vars
             PROVE  TokenInv'
  OBVIOUS
<1> DEFINE Early == {"configure", "connect", "init", "mouse"}
<1>0. token \in Nat /\ token <= Ttl /\ drops \in 0..2 /\ publisher \in Publishers \cup {None}
  BY Ranges
<1>1. CASE UNCHANGED <<publisher, token, drops>> /\ (Looping' => Looping)
           /\ (main' \in Early => main \in Early)
  <2>1. (main' \in Early => drops' = 2)
    BY <1>1 DEF TokenInv
  <2>2. Looping' /\ publisher' # None => Floor(publisher', token', drops')
    BY <1>1 DEF TokenInv
  <2> QED
    BY <2>1, <2>2 DEF TokenInv
<1>2. CASE Configure \/ Connect \/ TakeTerminal \/ Claimed \/ Quit \/ DrawFails \/ Released
           \/ ClearEnds \/ ReleaseMouse
  BY <1>1, <1>2
     DEF Configure, Connect, TakeTerminal, Claimed, Quit, DrawFails, Released, ClearEnds,
         ReleaseMouse, tokenVars, Looping
<1>3. CASE EnterRun
  <2>1. drops' = 2 /\ main' = "claim"
    BY <1>3 DEF EnterRun, TokenInv
  <2>2. publisher' # None => publisher' = [tick |-> 0, call |-> None]
    BY <1>3 DEF EnterRun, StartsPublisher
  <2>3. Floor([tick |-> 0, call |-> None], token', 2)
    BY DEF Floor
  <2> QED
    BY <2>1, <2>2, <2>3 DEF TokenInv
<1>4. CASE RestoreTerminal \/ Panic \/ Kill
  BY <1>4 DEF RestoreTerminal, Panic, Kill, ProcessEnds, TokenInv, Looping
<1>5. CASE Publisher \/ HerdrTakes \/ Elapse
  <2>1. main' = main
    BY <1>5 DEF Publisher, Publish, PublishEnds, HerdrTakes, TakeReport, TakeClear, TakeLate,
                Elapse, process
  <2>2. publisher' # None => publisher # None
    BY <1>5 DEF Publisher, Publish, PublishEnds, Calling, HerdrTakes, TakeReport, TakeClear,
                TakeLate, Elapse
  <2>3. drops' # drops => publisher # None
    BY <1>5 DEF Publisher, Publish, PublishEnds, Calling, HerdrTakes, TakeReport, TakeClear,
                TakeLate, Elapse
  <2>4. main \in Early => drops' = 2
    BY <2>3 DEF TokenInv, ClearInv
  <2>5. ASSUME Looping, publisher # None, publisher' # None
        PROVE  Floor(publisher', token', drops')
    <3>1. publisher \in Publishers /\ Floor(publisher, token, drops)
      BY <1>0, <2>5 DEF TokenInv
    <3>2. CASE Publish
      BY <1>0, <3>1, <3>2, FloorPublish DEF Publish
    <3>3. CASE PublishEnds
      BY <1>0, <3>1, <3>3, FloorEnds DEF PublishEnds, Calling
    <3>4. CASE TakeReport
      BY <1>0, <3>1, <3>4, FloorTaken DEF TakeReport, Calling
    <3>5. CASE TakeClear
      BY <2>5, <3>5 DEF TakeClear, ClearInv, Looping
    <3>6. CASE TakeLate
      BY <1>0, <3>1, <3>6, FloorRises DEF TakeLate
    <3>7. CASE Elapse
      <4>1. /\ publisher.call = None => publisher.tick # 0
            /\ publisher.call # None => publisher.call.left # 0
        BY <2>5, <3>7 DEF Elapse, Overdue, Calling
      <4>2. /\ publisher' = [tick |-> OneLess(publisher.tick), call |-> Older(publisher.call)]
            /\ token' = OneLess(token) /\ drops' = drops
        BY <2>5, <3>7 DEF Elapse
      <4> QED
        BY <1>0, <3>1, <4>1, <4>2, FloorElapse
    <3> QED
      BY <1>5, <3>2, <3>3, <3>4, <3>5, <3>6, <3>7 DEF Publisher, HerdrTakes
  <2> QED
    BY <2>1, <2>2, <2>4, <2>5 DEF TokenInv, Looping
<1>6. CASE UNCHANGED vars
  BY <1>1, <1>6 DEF vars, process, tokenVars, Looping
<1> QED
  BY <1>2, <1>3, <1>4, <1>5, <1>6 DEF Next, Main

(* For all lengths of time with a token that outlives two ticks and a call *)
(* (main's constants say 30 s, 10 s and 5 s): one lost refresh never       *)
(* shows, whatever is taken late.                                          *)
THEOREM OneDropIsInvisible ==
    ASSUME Ttl > Refresh + Refresh + CallLimit
    PROVE  Spec => []TokenSurvivesADrop
<1>1. Init => ClearInv /\ TokenInv
  BY DEF Init, ClearInv, TokenInv, Looping
<1>2. TypeOK /\ TokenInv => TokenSurvivesADrop
  <2> SUFFICES ASSUME TypeOK, TokenInv, Looping, publisher # None, drops < 2
               PROVE  token > 0
    BY DEF TokenSurvivesADrop, Looping
  <2>1. token \in Nat /\ drops \in 0..2 /\ publisher \in Publishers
    BY Ranges
  <2> QED
    BY <2>1, FloorHolds DEF TokenInv
<1> QED
  BY <1>1, <1>2, ClearInvIsInductive, TokenInvIsInductive, TypeCorrect, PTL DEF Spec
=============================================================================
