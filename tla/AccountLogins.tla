--------------------------- MODULE AccountLogins ---------------------------
(***************************************************************************)
(* Whose limits a card shows.  A provider is searched for logins when a    *)
(* poll starts (discover); the accounts found are matched with the saved   *)
(* ones (select_accounts), which also remember where each login was; then  *)
(* each selected account is fetched, and the fetch reads the credentials   *)
(* once more.  Meanwhile people sign in and out with the official tools,   *)
(* and settings files change.                                              *)
(*                                                                         *)
(* The providers are searched one after the other and share nothing, so a  *)
(* behaviour is about one of them, chosen in the initial state.  Users are *)
(* what the provider's server takes a token for.                           *)
(***************************************************************************)
EXTENDS Naturals, Sequences

CONSTANTS Users, NoUser, NoLogin,   \* who may sign in; nobody; an empty place
          MaxChanges, MaxPolls      \* bounds: outside changes, polls

VARIABLES provider,  \* the provider this behaviour is about
          envKey,    \* an API key is in the process environment
          history,   \* session logs are retained on this computer
          login,     \* place -> the login stored there, or NoLogin
          settings,  \* what the tool's settings files select besides it
          config,    \* account id -> where it was found, and whether enabled
          todo,      \* the selected accounts that are still to be fetched
          retry,     \* the Codex account whose request failed, if any
          shown,     \* the snapshots of this poll
          found,     \* the accounts discovered at its start
          chosen,    \* the ids selected at its start
          still,     \* nothing has changed outside since
          changes, polls
accountVars == <<provider, envKey, history, login, settings, config, todo,
                 retry, shown, found, chosen, still, changes, polls>>

\* Where each provider is looked for, in order.  The first home of Codex is
\* the one an environment key is attributed to.
PlacesOf == [codex |-> <<"CODEX_HOME", "profile">>, cursor |-> <<"ide", "cli">>,
             claude |-> <<"claude">>, grok |-> <<"grok">>]
Place == {PlacesOf[provider][i] : i \in DOMAIN PlacesOf[provider]}
AllPlaces == UNION {{PlacesOf[p][i] : i \in DOMAIN PlacesOf[p]} : p \in DOMAIN PlacesOf}
Rank(place) == CHOOSE i \in DOMAIN PlacesOf[provider] : PlacesOf[provider][i] = place

\* A stored login: whose it is, whether the file selects an API key, and
\* whether the token has expired.
Logins == [user : Users, api : IF provider = "codex" THEN BOOLEAN ELSE {FALSE},
           stale : IF provider = "cursor" THEN {FALSE} ELSE BOOLEAN]

AccountInit ==
  /\ provider \in DOMAIN PlacesOf
  /\ envKey \in BOOLEAN /\ history \in BOOLEAN
  /\ login = [p \in Place |-> NoLogin]
  /\ settings = "none"
  /\ config = << >> /\ todo = {} /\ retry = {} /\ shown = {}
  /\ found = {} /\ chosen = {} /\ still = TRUE
  /\ changes = 0 /\ polls = 0

(***************************************************************************)
(* Discovery.                                                              *)
(***************************************************************************)
\* A faulty variant: the environment key counts for every home.
KeyEverywhere(home) == envKey

KeyHere(home) == envKey /\ home = PlacesOf.codex[1]

\* read_auth: any sign of an API key hides the OAuth login beside it.
CodexAuth(home) ==
  IF KeyHere(home) \/ (login[home] # NoLogin /\ login[home].api)
  THEN [user |-> NoUser, api |-> TRUE, stale |-> FALSE]
  ELSE login[home]

Card(id, place, mode) == [id |-> id, place |-> place, mode |-> mode]

CodexCards ==
  LET HasCard(home) == /\ CodexAuth(home) # NoLogin
                       /\ login[home] = NoLogin => history
      CardOf(home) == LET auth == CodexAuth(home)
                      IN  Card(IF auth.user = NoUser THEN home ELSE auth.user, home,
                               IF auth.api THEN "api_key" ELSE "oauth")
  IN  {CardOf(home) : home \in {h \in Place : HasCard(h)}}

CursorCards == {Card(login[p].user, p, "oauth") : p \in {q \in Place : login[q] # NoLogin}}

\* Another credential than the stored login may be in use: of Claude an API
\* key beside a login, or a cloud provider or bearer token.
ClaudeAmbiguous ==
  \/ settings = "other"
  \/ (envKey \/ settings = "key") /\ login["claude"] # NoLogin

ClaudeCards ==
  LET here == login["claude"] # NoLogin
      CardOf(mode) == {Card(IF here THEN "claude" ELSE "local", "claude", mode)}
  IN  IF ~here /\ ~history THEN {}
      ELSE IF ClaudeAmbiguous THEN CardOf("ambiguous")
      ELSE IF envKey \/ settings = "key" THEN CardOf("api_key")
      ELSE IF here THEN CardOf("oauth")
      ELSE CardOf("local_history")

GrokCards ==
  LET auth == login["grok"]
  IN  IF settings = "other" THEN {Card("local", "grok", "ambiguous")}
      ELSE IF auth # NoLogin /\ (~auth.stale \/ ~envKey)
           THEN {Card(auth.user, "grok", "session")}
      ELSE IF envKey THEN {Card("local", "grok", "api_key")}
      ELSE IF history THEN {Card("local", "grok", "local_history")}
      ELSE {}

\* The place that is searched first keeps an account that is found twice.
FirstOfEach(cards) ==
  {c \in cards : \A d \in cards : d.id = c.id => Rank(c.place) <= Rank(d.place)}

Discovered ==
  FirstOfEach(CASE provider = "codex" -> CodexCards
                [] provider = "cursor" -> CursorCards
                [] provider = "claude" -> ClaudeCards
                [] provider = "grok" -> GrokCards)

\* select_accounts: without saved accounts all of them, otherwise the enabled
\* ones, each with the place that was saved for it.
Selected(cards) ==
  IF config = << >> THEN cards
  ELSE {[c EXCEPT !.place = config[c.id].place] :
        c \in {d \in cards : d.id \in DOMAIN config /\ config[d.id].enabled}}

(***************************************************************************)
(* What happens outside, and in the settings window.                       *)
(***************************************************************************)
Outside ==
  /\ changes < MaxChanges
  /\ changes' = changes + 1
  /\ still' = FALSE
  /\ \/ \E p \in Place, l \in Logins \cup {NoLogin} :
          login[p] # l /\ login' = [login EXCEPT ![p] = l] /\ UNCHANGED settings
     \/ /\ provider \in {"claude", "grok"}
        /\ \E s \in {"none", "key", "other"} \ {settings} : settings' = s
        /\ UNCHANGED login
  /\ UNCHANGED <<provider, envKey, history, config, todo, retry, shown, found,
                 chosen, polls>>

Saved(place, enabled) == [place |-> place, enabled |-> enabled]
IdsOf(cards) == {c.id : c \in cards}
PlaceIn(cards, id) == (CHOOSE c \in cards : c.id = id).place

\* The button Detect of the window: what is found now replaces the list.
Detect ==
  /\ config' = [id \in IdsOf(Discovered) |->
                  Saved(PlaceIn(Discovered, id),
                        id \in DOMAIN config => config[id].enabled)]
  /\ UNCHANGED <<provider, envKey, history, login, settings, todo, retry, shown,
                 found, chosen, still, changes, polls>>

\* `quotadeck detect --apply` only adds what is new.
CliDetect ==
  /\ config' = [id \in DOMAIN config \cup IdsOf(Discovered) |->
                  IF id \in DOMAIN config THEN config[id]
                  ELSE Saved(PlaceIn(Discovered, id), TRUE)]
  /\ UNCHANGED <<provider, envKey, history, login, settings, todo, retry, shown,
                 found, chosen, still, changes, polls>>

Toggle ==
  /\ \E id \in DOMAIN config : config' = [config EXCEPT ![id].enabled = ~@]
  /\ UNCHANGED <<provider, envKey, history, login, settings, todo, retry, shown,
                 found, chosen, still, changes, polls>>

(***************************************************************************)
(* A poll.                                                                 *)
(***************************************************************************)
StartPoll ==
  /\ todo = {} /\ retry = {} /\ polls < MaxPolls
  /\ polls' = polls + 1
  /\ still' = TRUE
  /\ found' = Discovered
  /\ todo' = Selected(Discovered)
  /\ chosen' = IdsOf(Selected(Discovered))
  /\ shown' = {}
  /\ UNCHANGED <<provider, envKey, history, login, settings, config, retry, changes>>

\* A snapshot: the status, and whose limits it holds.
Shows(c, status, user) ==
  shown' = shown \cup {[id |-> c.id, place |-> c.place, status |-> status, of |-> user]}

\* The answers to a request with this login: its limits, or a failure.
Asks(c, auth, refused) ==
  \/ Shows(c, "ok", auth.user)
  \/ Shows(c, refused, NoUser)
  \/ Shows(c, "error", NoUser)

\* A refused token, or a failure with one that is about to expire, is left to
\* the app server.
CodexFetch(c) ==
  LET auth == CodexAuth(c.place)
  IN  IF auth = NoLogin \/ auth.api
      THEN Shows(c, "offline", NoUser) /\ UNCHANGED retry
      ELSE \/ Shows(c, "ok", auth.user) /\ UNCHANGED retry
           \/ ~auth.stale /\ Shows(c, "error", NoUser) /\ UNCHANGED retry
           \/ retry' = {c} /\ UNCHANGED shown

\* The app server is a child process that reads the home by itself.
AppServer(c) ==
  /\ c \in retry
  /\ retry' = retry \ {c}
  /\ \/ login[c.place] # NoLogin /\ ~login[c.place].api
           /\ Shows(c, "ok", login[c.place].user)
     \/ Shows(c, "stale", NoUser)
  /\ UNCHANGED <<provider, envKey, history, login, settings, config, todo, found,
                 chosen, still, changes, polls>>

\* A faulty variant: the first login there is, as before accounts were told
\* apart.
CursorAuthFirst(c) == IF login["ide"] # NoLogin THEN login["ide"] ELSE login["cli"]

\* load_cursor_auth_for: by the place, then by the user, then any.
CursorAuth(c) ==
  LET ofUser == {p \in Place : login[p] # NoLogin /\ login[p].user = c.id}
  IN  IF login[c.place] # NoLogin THEN login[c.place]
      ELSE IF ofUser # {}
           THEN login[CHOOSE p \in ofUser : \A q \in ofUser : Rank(p) <= Rank(q)]
      ELSE IF login["ide"] # NoLogin THEN login["ide"] ELSE login["cli"]

CursorFetch(c) ==
  LET auth == CursorAuth(c)
  IN  IF auth = NoLogin THEN Shows(c, "offline", NoUser) ELSE Asks(c, auth, "stale")

\* A faulty variant: what discovery found out is not looked at again.
ClaudeRefusesFound(c) == c.mode \in {"ambiguous", "api_key"}

ClaudeRefuses(c) == c.mode \in {"ambiguous", "api_key"} \/ ClaudeAmbiguous

ClaudeFetch(c) ==
  LET auth == login["claude"]
  IN  IF ClaudeRefuses(c) \/ auth = NoLogin THEN Shows(c, "offline", NoUser)
      ELSE IF auth.stale THEN Shows(c, "stale", NoUser)
      ELSE Asks(c, auth, "stale")

GrokFetch(c) ==
  LET auth == login["grok"]
  IN  IF c.mode # "session" \/ auth = NoLogin THEN Shows(c, "offline", NoUser)
      ELSE IF auth.stale THEN Shows(c, "stale", NoUser)
      ELSE Asks(c, auth, "stale")

Fetch(c) ==
  /\ c \in todo /\ retry = {}
  /\ todo' = todo \ {c}
  /\ CASE provider = "codex" -> CodexFetch(c)
       [] provider = "cursor" -> CursorFetch(c) /\ UNCHANGED retry
       [] provider = "claude" -> ClaudeFetch(c) /\ UNCHANGED retry
       [] provider = "grok" -> GrokFetch(c) /\ UNCHANGED retry
  /\ UNCHANGED <<provider, envKey, history, login, settings, config, found, chosen,
                 still, changes, polls>>

AccountNext ==
  \/ Outside \/ Detect \/ CliDetect \/ Toggle \/ StartPoll
  \/ \E c \in todo : Fetch(c)
  \/ \E c \in retry : AppServer(c)

AccountSpec == AccountInit /\ [][AccountNext]_accountVars

(***************************************************************************)
(* Properties.                                                             *)
(***************************************************************************)
\* The card of an account whose login is where the search found it shows that
\* account's limits, as long as nobody signs in or out during the poll:
\* nothing that was read for one account is shown as another's.  (A Claude
\* card stands for whoever is signed in.)
OwnLimits ==
  \A r \in shown :
    (r.of # NoUser /\ still /\ provider # "claude"
       /\ \E c \in found : c.id = r.id /\ c.place = r.place)
      => r.of = r.id

\* A subscription's limits are asked for only while the tool would use that
\* subscription: an API key or another credential that appears after the
\* search, and before the fetch, still stops it.
SubscriptionInUse(place) ==
  CASE provider = "codex" -> ~CodexAuth(place).api \/ (retry # {} /\ ~login[place].api)
    [] provider = "claude" -> ~ClaudeAmbiguous
    [] OTHER -> TRUE

QuotaNeedsSubscription ==
  [][\A r \in shown' \ shown :
       (r.of # NoUser /\ provider = provider') => SubscriptionInUse(r.place)]_accountVars

\* Every account is found once, and the key in the environment, which belongs
\* to one tool configuration, makes at most one account of API use.
KeyOnly(c) == c.mode = "api_key" /\ (login[c.place] = NoLogin \/ ~login[c.place].api)
CardsAreDistinct ==
  /\ \A c, d \in found : c.id = d.id => c = d
  /\ still => \A c, d \in found : KeyOnly(c) /\ KeyOnly(d) => c = d

\* docs/PROVIDERS.md:24-25: the settings app "lets you enable only the accounts
\* that should rotate": the limits on the screen are those of accounts that
\* were selected.
OnlyEnabledLimits ==
  \A r \in shown :
    (r.of # NoUser /\ still /\ provider # "claude") => r.of \in chosen
=============================================================================
