-------------------------- MODULE MCPolling_proofs --------------------------
(***************************************************************************)
(* Proofs about MCPolling, for any users, processes and accounts, any      *)
(* times to live, any calendar, any rates and any sessions: what holds of  *)
(* whose limits a card shows (AccountLogins), of the exchange rate         *)
(* (FxRate), of the cached usage (UsageService), of the Cursor files       *)
(* (CursorSources), of the report of THIS and AVG (PeriodReport), of the   *)
(* prices (UsageLedger), of Grok's sessions (GrokScan) and of Claude's     *)
(* transcripts (ClaudeScan).  What holds of the Codex history is proved in *)
(* CodexHistory_proofs, and cited at the end.                              *)
(***************************************************************************)
EXTENDS MCPolling, CodexHistory_proofs

-----------------------------------------------------------------------------
(* Whose limits a card shows (AccountLogins).                              *)

Known == {"codex", "cursor", "claude", "grok"}

(* While nothing has changed outside, what was found is what is there, what  *)
(* is to be fetched was found, and no key hides the login that the app       *)
(* server will read.                                                        *)
LoginInv ==
    /\ provider \in Known
    /\ \A c, d \in found : c.id = d.id => c = d
    /\ retry # {} => provider = "codex"
    /\ still => /\ found \subseteq Logins!Discovered
                /\ \A c \in due : \E d \in found : d.id = c.id /\ d.mode = c.mode
                /\ \A c \in retry : ~Logins!CodexAuth(c.place).api
    /\ Logins!OwnLimits

(* The places of each provider, and their ranks. *)
LEMMA PlacesAre ==
    ASSUME provider \in Known
    PROVE  /\ provider = "codex" => Logins!Place = {"CODEX_HOME", "profile"}
           /\ provider = "cursor" => Logins!Place = {"ide", "cli"}
           /\ provider = "claude" => Logins!Place = {"claude"}
           /\ provider = "grok" => Logins!Place = {"grok"}
           /\ Logins!PlacesOf.codex[1] = "CODEX_HOME"
           /\ \A p \in Logins!Place : Logins!Rank(p) \in Nat
           /\ \A p, q \in Logins!Place : Logins!Rank(p) = Logins!Rank(q) => p = q
<1> USE DEF Logins!PlacesOf
<1>1. \A i \in DOMAIN Logins!PlacesOf[provider] : i \in Nat
    BY DEF Known
<1>2. ASSUME NEW p \in Logins!Place
      PROVE  /\ Logins!Rank(p) \in DOMAIN Logins!PlacesOf[provider]
             /\ Logins!PlacesOf[provider][Logins!Rank(p)] = p
  <2>1. \E i \in DOMAIN Logins!PlacesOf[provider] : Logins!PlacesOf[provider][i] = p
      BY DEF Logins!Place
  <2> HIDE DEF Logins!PlacesOf
  <2> QED
      BY <2>1 DEF Logins!Rank
<1>3. \A p \in Logins!Place : Logins!Rank(p) \in Nat
    BY <1>1, <1>2
<1>4. \A p, q \in Logins!Place : Logins!Rank(p) = Logins!Rank(q) => p = q
  <2> HIDE DEF Logins!PlacesOf
  <2> QED
      BY <1>2
<1>5. CASE provider = "codex"
    BY <1>3, <1>4, <1>5 DEF Logins!Place
<1>6. CASE provider = "cursor"
    BY <1>3, <1>4, <1>6 DEF Logins!Place
<1>7. CASE provider = "claude"
    BY <1>3, <1>4, <1>7 DEF Logins!Place
<1>8. CASE provider = "grok"
    BY <1>3, <1>4, <1>8 DEF Logins!Place
<1> QED
    BY <1>5, <1>6, <1>7, <1>8 DEF Known

(* What the card of an account says, by provider. *)
LEMMA CardsAre ==
    ASSUME provider \in Known, NEW c \in Logins!Discovered
    PROVE  /\ c.place \in Logins!Place
           /\ provider = "codex" =>
                 /\ c = LET auth == Logins!CodexAuth(c.place)
                        IN  Logins!Card(IF auth.user = NoUser THEN c.place ELSE auth.user, c.place,
                                        IF auth.api THEN "api_key" ELSE "oauth")
                 /\ Logins!CodexAuth(c.place) # NoLogin
           /\ provider = "cursor" =>
                 c = Logins!Card(login[c.place].user, c.place, "oauth") /\ login[c.place] # NoLogin
           /\ provider = "grok" /\ c.mode = "session" => c.id = login["grok"].user
           /\ provider \in {"claude", "grok"} => Logins!Discovered = {c}
<1> USE PlacesAre
<1>1. CASE provider = "codex"
  <2>1. c \in Logins!CodexCards
      BY <1>1 DEF Logins!Discovered, Logins!FirstOfEach
  <2>2. PICK home \in Logins!Place :
          /\ Logins!CodexAuth(home) # NoLogin
          /\ c = LET auth == Logins!CodexAuth(home)
                 IN  Logins!Card(IF auth.user = NoUser THEN home ELSE auth.user, home,
                                 IF auth.api THEN "api_key" ELSE "oauth")
      BY <2>1 DEF Logins!CodexCards
  <2>3. c.place = home
      BY <2>2 DEF Logins!Card
  <2> QED
      BY <1>1, <2>2, <2>3
<1>2. CASE provider = "cursor"
  <2>1. c \in Logins!CursorCards
      BY <1>2 DEF Logins!Discovered, Logins!FirstOfEach
  <2>2. PICK p \in Logins!Place : login[p] # NoLogin /\ c = Logins!Card(login[p].user, p, "oauth")
      BY <2>1 DEF Logins!CursorCards
  <2>3. c.place = p
      BY <2>2 DEF Logins!Card
  <2> QED
      BY <1>2, <2>2, <2>3
<1>3. CASE provider = "claude"
  <2>1. Logins!Discovered \subseteq Logins!ClaudeCards /\ c \in Logins!ClaudeCards
      BY <1>3 DEF Logins!Discovered, Logins!FirstOfEach
  <2>2. PICK id, mode : Logins!ClaudeCards \subseteq {Logins!Card(id, "claude", mode)}
      BY DEF Logins!ClaudeCards
  <2>3. c = Logins!Card(id, "claude", mode)
      BY <2>1, <2>2
  <2>4. c.place \in Logins!Place
      BY <1>3, <2>3 DEF Logins!Card
  <2> QED
      BY <1>3, <2>1, <2>2, <2>3, <2>4
<1>4. CASE provider = "grok"
  <2>1. Logins!Discovered \subseteq Logins!GrokCards /\ c \in Logins!GrokCards
      BY <1>4 DEF Logins!Discovered, Logins!FirstOfEach
  <2>2. PICK id, mode : /\ Logins!GrokCards \subseteq {Logins!Card(id, "grok", mode)}
                        /\ mode = "session" => id = login["grok"].user
      BY DEF Logins!GrokCards
  <2>3. c = Logins!Card(id, "grok", mode)
      BY <2>1, <2>2
  <2>4. c.place \in Logins!Place /\ c.mode = mode /\ c.id = id
      BY <1>4, <2>3 DEF Logins!Card
  <2> QED
      BY <1>4, <2>1, <2>2, <2>3, <2>4
<1> QED
    BY <1>1, <1>2, <1>3, <1>4 DEF Known

(* A card is a record of three. *)
LEMMA CardIs ==
    ASSUME provider \in Known, NEW c \in Logins!Discovered
    PROVE  \E id, place, mode : c = [id |-> id, place |-> place, mode |-> mode]
<1>1. ASSUME provider = "codex"
      PROVE  \E id, place, mode : c = Logins!Card(id, place, mode)
    BY <1>1, CardsAre
<1>2. ASSUME provider = "cursor"
      PROVE  \E id, place, mode : c = Logins!Card(id, place, mode)
    BY <1>2, CardsAre
<1>3. ASSUME provider = "claude"
      PROVE  \E id, place, mode : c = Logins!Card(id, place, mode)
  <2>1. c \in Logins!ClaudeCards
      BY <1>3 DEF Logins!Discovered, Logins!FirstOfEach
  <2> QED
      BY <2>1 DEF Logins!ClaudeCards
<1>4. ASSUME provider = "grok"
      PROVE  \E id, place, mode : c = Logins!Card(id, place, mode)
  <2>1. c \in Logins!GrokCards
      BY <1>4 DEF Logins!Discovered, Logins!FirstOfEach
  <2> QED
      BY <2>1 DEF Logins!GrokCards
<1> QED
    BY <1>1, <1>2, <1>3, <1>4 DEF Known, Logins!Card

(* The search finds every account once. *)
LEMMA FoundOnce ==
    ASSUME provider \in Known, NEW c \in Logins!Discovered, NEW d \in Logins!Discovered
    PROVE  /\ c.place = d.place => c = d
           /\ c.id = d.id => c = d
<1>1. c.place = d.place => c = d
  <2>1. CASE provider \in {"claude", "grok"}
      BY <2>1, CardsAre
  <2>2. CASE provider = "codex"
      BY <2>2, CardsAre
  <2>3. CASE provider = "cursor"
      BY <2>3, CardsAre
  <2> QED
      BY <2>1, <2>2, <2>3 DEF Known
<1>2. ASSUME c.id = d.id
      PROVE  c.place = d.place
  <2>1. PICK all : Logins!Discovered = Logins!FirstOfEach(all)
      BY DEF Logins!Discovered
  <2>2. Logins!Rank(c.place) <= Logins!Rank(d.place) /\ Logins!Rank(d.place) <= Logins!Rank(c.place)
      BY <1>2, <2>1 DEF Logins!FirstOfEach
  <2>3. c.place \in Logins!Place /\ d.place \in Logins!Place
      BY CardsAre
  <2> QED
      BY <2>2, <2>3, PlacesAre
<1> QED
    BY <1>1, <1>2

(* Only the home that a key of the environment is attributed to has a card  *)
(* for that key alone.                                                     *)
LEMMA OneKeyOnly ==
    ASSUME LoginInv, still, NEW c \in found, NEW d \in found,
           Logins!KeyOnly(c), Logins!KeyOnly(d)
    PROVE  c = d
<1>1. provider \in Known /\ c \in Logins!Discovered /\ d \in Logins!Discovered
    BY DEF LoginInv
<1>2. CASE provider \in {"claude", "grok"}
    BY <1>1, <1>2, CardsAre
<1>3. CASE provider = "cursor"
  <2>1. c.mode = "oauth"
      BY <1>1, <1>3, CardsAre DEF Logins!Card
  <2> QED
      BY <2>1 DEF Logins!KeyOnly
<1>4. CASE provider = "codex"
  <2>1. ASSUME NEW e \in {c, d}
        PROVE  e.place = "CODEX_HOME"
    <3>1. e.mode = IF Logins!CodexAuth(e.place).api THEN "api_key" ELSE "oauth"
        BY <1>1, <1>4, <2>1, CardsAre DEF Logins!Card
    <3>2. Logins!CodexAuth(e.place).api /\ Logins!CodexAuth(e.place) # NoLogin
        BY <1>1, <1>4, <2>1, <3>1, CardsAre DEF Logins!KeyOnly
    <3>3. login[e.place] = NoLogin \/ ~login[e.place].api
        BY <2>1 DEF Logins!KeyOnly
    <3>4. Logins!KeyHere(e.place)
        BY <3>2, <3>3 DEF Logins!CodexAuth
    <3> QED
        BY <1>1, <3>4, PlacesAre DEF Logins!KeyHere
  <2> QED
      BY <1>1, <2>1, FoundOnce
<1> QED
    BY <1>1, <1>2, <1>3, <1>4 DEF Known

(* What a fetch adds to the snapshots, and whose limits it may show. *)
LEMMA FetchShows ==
    ASSUME provider \in Known, NEW c \in due, Logins!Fetch(c), NEW r \in cards', r \notin cards
    PROVE  /\ r.id = c.id /\ r.place = c.place
           /\ r.of # NoUser =>
                 /\ provider = "codex" => r.of = Logins!CodexAuth(c.place).user
                                          /\ ~Logins!CodexAuth(c.place).api
                 /\ provider = "cursor" => r.of = Logins!CursorAuth(c).user
                 /\ provider = "claude" => ~Logins!ClaudeAmbiguous
                 /\ provider = "grok" => r.of = login["grok"].user /\ c.mode = "session"
<1>1. ASSUME NEW status, NEW user, Logins!Shows(c, status, user)
      PROVE  r = [id |-> c.id, place |-> c.place, status |-> status, of |-> user]
    BY <1>1 DEF Logins!Shows
<1>2. ASSUME NEW status, NEW user, Logins!Shows(c, status, user)
      PROVE  r.id = c.id /\ r.place = c.place /\ r.of = user
  <2>1. r = [id |-> c.id, place |-> c.place, status |-> status, of |-> user]
      BY <1>1, <1>2
  <2> QED
      BY <2>1
<1>3. ASSUME NEW auth, NEW refused, Logins!Asks(c, auth, refused)
      PROVE  r.id = c.id /\ r.place = c.place /\ r.of \in {auth.user, NoUser}
    BY <1>2, <1>3 DEF Logins!Asks
<1>4. CASE provider = "codex"
  <2>1. Logins!CodexFetch(c)
      BY <1>4 DEF Logins!Fetch
  <2> QED
      BY <1>2, <1>4, <2>1 DEF Logins!CodexFetch
<1>5. CASE provider = "cursor"
  <2>1. Logins!CursorFetch(c)
      BY <1>5 DEF Logins!Fetch
  <2> QED
      BY <1>2, <1>3, <1>5, <2>1 DEF Logins!CursorFetch
<1>6. CASE provider = "claude"
  <2>1. Logins!ClaudeFetch(c)
      BY <1>6 DEF Logins!Fetch
  <2> QED
      BY <1>2, <1>3, <1>6, <2>1 DEF Logins!ClaudeFetch, Logins!ClaudeRefuses
<1>7. CASE provider = "grok"
  <2>1. Logins!GrokFetch(c)
      BY <1>7 DEF Logins!Fetch
  <2> QED
      BY <1>2, <1>3, <1>7, <2>1 DEF Logins!GrokFetch
<1> QED
    BY <1>4, <1>5, <1>6, <1>7 DEF Known

(* A fetch below the place where the card was found shows its own limits. *)
LEMMA FetchOwn ==
    ASSUME LoginInv, still, provider # "claude", NEW c \in due, Logins!Fetch(c),
           NEW r \in cards', r \notin cards, r.of # NoUser,
           NEW e \in found, e.id = r.id, e.place = r.place
    PROVE  r.of = r.id
<1>1. /\ provider \in Known /\ e \in Logins!Discovered /\ found \subseteq Logins!Discovered
      /\ \E d \in found : d.id = c.id /\ d.mode = c.mode
    BY DEF LoginInv
<1>2. e.id = c.id /\ e.place = c.place /\ r.id = c.id
    BY <1>1, FetchShows
<1>3. CASE provider = "codex"
  <2>1. r.of = Logins!CodexAuth(c.place).user
      BY <1>1, <1>3, FetchShows
  <2>2. e.id = IF Logins!CodexAuth(c.place).user = NoUser THEN c.place
               ELSE Logins!CodexAuth(c.place).user
      BY <1>1, <1>2, <1>3, CardsAre DEF Logins!Card
  <2> QED
      BY <1>2, <2>1, <2>2
<1>4. CASE provider = "cursor"
  <2>1. login[c.place] # NoLogin /\ e.id = login[c.place].user
      BY <1>1, <1>2, <1>4, CardsAre DEF Logins!Card
  <2>2. r.of = Logins!CursorAuth(c).user
      BY <1>1, <1>4, FetchShows
  <2> QED
      BY <1>2, <2>1, <2>2 DEF Logins!CursorAuth
<1>5. CASE provider = "grok"
  <2>1. r.of = login["grok"].user /\ c.mode = "session"
      BY <1>1, <1>5, FetchShows
  <2>2. PICK d \in found : d.id = c.id /\ d.mode = c.mode
      BY <1>1
  <2>3. d.id = login["grok"].user
      BY <1>1, <1>5, <2>1, <2>2, CardsAre
  <2> QED
      BY <1>2, <2>1, <2>2, <2>3
<1> QED
    BY <1>1, <1>3, <1>4, <1>5 DEF Known

(* It starts so: nothing is found yet. *)
LEMMA LoginInit == Logins!AccountInit => LoginInv
BY DEF Logins!AccountInit, LoginInv, Logins!OwnLimits, Logins!PlacesOf, Known

(* Every step keeps the invariant. *)
LEMMA LoginNext == LoginInv /\ Logins!AccountNext => LoginInv'
<1> SUFFICES ASSUME LoginInv, Logins!AccountNext
             PROVE  LoginInv'
    OBVIOUS
<1> provider \in Known
    BY DEF LoginInv
<1>1. ASSUME UNCHANGED <<provider, envKey, history_, login, settings>>
      PROVE  /\ Logins!Discovered' = Logins!Discovered
             /\ \A p : Logins!CodexAuth(p)' = Logins!CodexAuth(p)
    BY <1>1 DEF Logins!Discovered, Logins!FirstOfEach, Logins!CodexCards, Logins!CursorCards,
                Logins!ClaudeCards, Logins!GrokCards, Logins!CodexAuth, Logins!KeyHere,
                Logins!ClaudeAmbiguous, Logins!Place, Logins!Rank
(* what is known stays, and whoever shows up is himself *)
<1>2. ASSUME UNCHANGED <<provider, envKey, history_, login, settings, found, still>>,
             due' \subseteq due, retry' # {} => provider = "codex",
             still => \A c \in retry' : ~Logins!CodexAuth(c.place).api,
             \A r \in cards' \ cards :
                 r.of # NoUser /\ still /\ provider # "claude"
                   /\ (\E c \in found : c.id = r.id /\ c.place = r.place)
                 => r.of = r.id
      PROVE  LoginInv'
  <2>1. Logins!OwnLimits'
      BY <1>2 DEF LoginInv, Logins!OwnLimits
  <2>2. still' => /\ found' \subseteq Logins!Discovered'
                  /\ \A c \in due' : \E d \in found' : d.id = c.id /\ d.mode = c.mode
                  /\ \A c \in retry' : ~Logins!CodexAuth(c.place)'.api
      BY <1>1, <1>2 DEF LoginInv
  <2>3. provider' \in Known /\ (\A c, d \in found' : c.id = d.id => c = d) /\ (retry' # {} => provider' = "codex")
      BY <1>2 DEF LoginInv
  <2> QED
      BY <2>1, <2>2, <2>3 DEF LoginInv
<1>3. CASE Logins!Outside
    BY <1>3 DEF Logins!Outside, LoginInv, Logins!OwnLimits
<1>4. CASE Logins!Detect \/ Logins!CliDetect \/ Logins!Toggle
    BY <1>2, <1>4 DEF Logins!Detect, Logins!CliDetect, Logins!Toggle, LoginInv
<1>5. CASE Logins!StartPoll
  <2>1. /\ found' = Logins!Discovered /\ due' = Logins!Selected(Logins!Discovered)
        /\ cards' = {} /\ retry' = {} /\ UNCHANGED <<provider, envKey, history_, login, settings>>
      BY <1>5 DEF Logins!StartPoll
  <2>2. \A c \in due' : \E d \in found' : d.id = c.id /\ d.mode = c.mode
    <3>1. CASE due' = found'
        BY <3>1
    <3>2. CASE due' = {[c EXCEPT !.place = config[c.id].place] :
                          c \in {d \in Logins!Discovered : d.id \in DOMAIN config /\ config[d.id].enabled}}
      <4> TAKE c \in due'
      <4>1. PICK d \in Logins!Discovered : c = [d EXCEPT !.place = config[d.id].place]
          BY <3>2
      <4>2. PICK id, place, mode : d = [id |-> id, place |-> place, mode |-> mode]
          BY CardIs
      <4>3. d.id = c.id /\ d.mode = c.mode
          BY <4>1, <4>2
      <4> QED
          BY <2>1, <4>1, <4>3
    <3> QED
        BY <2>1, <3>1, <3>2 DEF Logins!Selected
  <2>3. \A c, d \in found' : c.id = d.id => c = d
      BY <2>1, FoundOnce
  <2>4. found' \subseteq Logins!Discovered'
      BY <1>1, <2>1
  <2> QED
      BY <2>1, <2>2, <2>3, <2>4 DEF LoginInv, Logins!OwnLimits
<1>6. ASSUME NEW c \in due, Logins!Fetch(c)
      PROVE  LoginInv'
  <2>1. /\ UNCHANGED <<provider, envKey, history_, login, settings, found, still>>
        /\ due' \subseteq due /\ retry = {}
      BY <1>6 DEF Logins!Fetch
  <2>2. retry' # {} => provider = "codex" /\ retry' = {c} /\ ~Logins!CodexAuth(c.place).api
    <3>1. CASE provider = "codex"
      <4>1. Logins!CodexFetch(c)
          BY <1>6, <3>1 DEF Logins!Fetch
      <4> QED
          BY <2>1, <3>1, <4>1 DEF Logins!CodexFetch
    <3>2. CASE provider # "codex"
      <4>1. UNCHANGED retry
          BY <1>6, <3>2 DEF Logins!Fetch, Known
      <4> QED
          BY <2>1, <4>1
    <3> QED
        BY <3>1, <3>2
  <2>3. \A r \in cards' \ cards :
          r.of # NoUser /\ still /\ provider # "claude"
            /\ (\E e \in found : e.id = r.id /\ e.place = r.place)
          => r.of = r.id
      BY <1>6, FetchOwn
  <2> QED
      BY <1>2, <2>1, <2>2, <2>3
<1>7. ASSUME NEW c \in retry, Logins!AppServer(c)
      PROVE  LoginInv'
  <2>1. /\ UNCHANGED <<provider, envKey, history_, login, settings, found, still, due>>
        /\ retry' = retry \ {c}
      BY <1>7 DEF Logins!AppServer
  <2>2. ASSUME NEW r \in cards', r \notin cards, r.of # NoUser, still,
               NEW e \in found, e.id = r.id, e.place = r.place
        PROVE  r.of = r.id
    <3>1. PICK status, user :
            /\ r = [id |-> c.id, place |-> c.place, status |-> status, of |-> user]
            /\ user \in {login[c.place].user, NoUser}
            /\ user # NoUser => login[c.place] # NoLogin
        BY <1>7, <2>2 DEF Logins!AppServer, Logins!Shows
    <3>2. r.id = c.id /\ r.place = c.place /\ r.of = login[c.place].user
        BY <2>2, <3>1
    <3>3. provider = "codex" /\ ~Logins!CodexAuth(c.place).api /\ e \in Logins!Discovered
        BY <2>2 DEF LoginInv
    <3>4. Logins!CodexAuth(c.place) = login[c.place]
        BY <3>3 DEF Logins!CodexAuth
    <3>5. e.id = IF Logins!CodexAuth(c.place).user = NoUser THEN c.place
                 ELSE Logins!CodexAuth(c.place).user
        BY <2>2, <3>2, <3>3, CardsAre DEF Logins!Card
    <3> QED
        BY <2>2, <3>2, <3>4, <3>5
  <2>3. /\ retry' # {} => provider = "codex"
        /\ still => \A d \in retry' : ~Logins!CodexAuth(d.place).api
      BY <2>1 DEF LoginInv
  <2> QED
      BY <1>2, <2>1, <2>2, <2>3
<1> QED
    BY <1>3, <1>4, <1>5, <1>6, <1>7 DEF Logins!AccountNext

(* A step of the poll is one of its search and fetches, or leaves them alone. *)
LEMMA LoginsStep ==
    ASSUME [PollingNext]_pollingVars
    PROVE  Logins!AccountNext \/ UNCHANGED Logins!accountVars
<1>1. CASE part = "logins" /\ Logins!AccountNext
    BY <1>1
<1>2. CASE UNCHANGED loginVars
    BY <1>2 DEF loginVars, Logins!accountVars
<1> QED
    BY <1>1, <1>2 DEF PollingNext, pollingVars

(* Nobody looks at the logins, or one does: what is known of them stays. *)
LEMMA LoginsStay == LoginInv /\ UNCHANGED Logins!accountVars => LoginInv'
<1> SUFFICES ASSUME LoginInv, UNCHANGED Logins!accountVars
             PROVE  LoginInv'
    OBVIOUS
<1>1. UNCHANGED <<provider, envKey, history_, login, settings, due, retry, cards, found, still>>
    BY DEF Logins!accountVars
<1>2. Logins!Discovered' = Logins!Discovered /\ \A p : Logins!CodexAuth(p)' = Logins!CodexAuth(p)
    BY <1>1 DEF Logins!Discovered, Logins!FirstOfEach, Logins!CodexCards, Logins!CursorCards,
                Logins!ClaudeCards, Logins!GrokCards, Logins!CodexAuth, Logins!KeyHere,
                Logins!ClaudeAmbiguous, Logins!Place, Logins!Rank
<1>3. Logins!OwnLimits'
    BY <1>1 DEF LoginInv, Logins!OwnLimits
<1> QED
    BY <1>1, <1>2, <1>3 DEF LoginInv

(* The invariant of the logins holds in every behaviour of the poll.         *)
THEOREM LoginInvariant == PollingSpec => []LoginInv
<1>1. PollingInit => LoginInv
    BY LoginInit DEF PollingInit
<1>2. LoginInv /\ [PollingNext]_pollingVars => LoginInv'
    BY LoginsStep, LoginsStay, LoginNext
<1> QED
    BY <1>1, <1>2, PTL DEF PollingSpec

(* A card shows the limits of the login it is named after, every account has  *)
(* one card, and a key that is in the environment makes one account at most:  *)
(* providers/registry.py, select_accounts and the fetches of the providers.   *)
THEOREM OwnDistinctLimitsCorrect == PollingSpec => []OwnDistinctLimits
<1>1. LoginInv => OwnDistinctLimits
  <2> SUFFICES ASSUME LoginInv
               PROVE  Logins!OwnLimits /\ Logins!CardsAreDistinct
      BY DEF OwnDistinctLimits
  <2>1. Logins!OwnLimits /\ \A c, d \in found : c.id = d.id => c = d
      BY DEF LoginInv
  <2>2. still => \A c, d \in found : Logins!KeyOnly(c) /\ Logins!KeyOnly(d) => c = d
      BY OneKeyOnly
  <2> QED
      BY <2>1, <2>2 DEF Logins!CardsAreDistinct
<1> QED
    BY <1>1, LoginInvariant, PTL

(* A subscription's limits are shown only when the credentials, read once    *)
(* more for the fetch, select that subscription: whatever was found out at   *)
(* the search, a key or another credential that has appeared since stops it. *)
THEOREM QuotaNeedsSubscriptionCorrect == PollingSpec => QuotaNeedsSubscription
<1> DEFINE Covered == \A r \in cards' \ cards :
                        (r.of # NoUser /\ provider = provider') => Logins!SubscriptionInUse(r.place)
<1>1. ASSUME LoginInv, Logins!AccountNext
      PROVE  Covered
  <2> SUFFICES ASSUME NEW r \in cards', r \notin cards, r.of # NoUser
               PROVE  Logins!SubscriptionInUse(r.place)
      OBVIOUS
  <2>1. provider \in Known
      BY <1>1 DEF LoginInv
  <2>2. CASE Logins!Outside \/ Logins!Detect \/ Logins!CliDetect \/ Logins!Toggle
      BY <2>2 DEF Logins!Outside, Logins!Detect, Logins!CliDetect, Logins!Toggle
  <2>3. CASE Logins!StartPoll
      BY <2>3 DEF Logins!StartPoll
  <2>4. ASSUME NEW c \in due, Logins!Fetch(c)
        PROVE  Logins!SubscriptionInUse(r.place)
      BY <2>1, <2>4, FetchShows DEF Logins!SubscriptionInUse, Known
  <2>5. ASSUME NEW c \in retry, Logins!AppServer(c)
        PROVE  Logins!SubscriptionInUse(r.place)
    <3>1. PICK status, user :
            /\ r = [id |-> c.id, place |-> c.place, status |-> status, of |-> user]
            /\ user # NoUser => ~login[c.place].api
        BY <2>5 DEF Logins!AppServer, Logins!Shows
    <3>2. r.place = c.place /\ r.of = user
        BY <3>1
    <3>3. provider = "codex" /\ retry # {}
        BY <1>1, <2>5 DEF LoginInv
    <3> QED
        BY <3>1, <3>2, <3>3 DEF Logins!SubscriptionInUse
  <2> QED
      BY <1>1, <2>2, <2>3, <2>4, <2>5 DEF Logins!AccountNext
<1>2. LoginInv /\ [PollingNext]_pollingVars => [Covered]_(Logins!accountVars)
    BY <1>1, LoginsStep
<1> QED
    BY <1>2, LoginInvariant, PTL DEF PollingSpec, QuotaNeedsSubscription, Logins!QuotaNeedsSubscription

-----------------------------------------------------------------------------
(* The exchange rate (FxRate).                                             *)

(* A rate, with its date if it has one, as the source gave it by that day.   *)
Sound(rate, asOf, day) == rate \in Int /\ asOf \in {0, rate} /\ 1 <= rate /\ rate <= day

(* What a process is about to write it has from the source itself; what the  *)
(* file holds, and what is quoted from either, was published.                *)
FxInv ==
    /\ fxDay \in Int /\ 1 <= fxDay
    /\ Sound(published.rate, published.asOf, fxDay)
    /\ fxFile \notin {Fx!NoFile, Fx!Torn} =>
          /\ Sound(fxFile.rate, fxFile.asOf, fxFile.fetched)
          /\ fxFile.fetched \in Int /\ fxFile.fetched <= fxDay
    /\ DOMAIN fxPc = Processes /\ DOMAIN quote = Processes
    /\ \A p \in Processes :
          /\ fxPc[p] # "idle" => quote[p].from = "live"
          /\ quote[p].from \in {"live", "last_known_good"} =>
                /\ Sound(quote[p].rate, quote[p].asOf, quote[p].fetched)
                /\ quote[p].fetched \in Int /\ quote[p].fetched <= fxDay
          /\ quote[p].from = "manual" => quote[p].rate = 0
          /\ ~quote[p].stale =>
                /\ quote[p].from = "live"
                /\ quote[p].asOf # 0 => quote[p].fetched - quote[p].asOf < RateAge

(* The file is empty, the sources have published the first rate.             *)
LEMMA FxStart == Fx!FxInit => FxInv
BY DEF Fx!FxInit, FxInv, Sound, Fx!NoFile, Fx!NoQuote

(* What the source said by one day it said by a later one.                   *)
LEMMA SoundLater ==
    ASSUME NEW rate, NEW asOf, NEW day \in Int, NEW later \in Int, day <= later,
           Sound(rate, asOf, day)
    PROVE  Sound(rate, asOf, later)
BY DEF Sound

(* Every step keeps the invariant. *)
LEMMA FxStep == FxInv /\ Fx!FxNext => FxInv'
<1> SUFFICES ASSUME FxInv, Fx!FxNext
             PROVE  FxInv'
    OBVIOUS
<1>1. ASSUME NEW dated \in BOOLEAN, Fx!Publish(dated)
      PROVE  FxInv'
  <2>1. published'.rate = fxDay /\ published'.asOf \in {fxDay, 0}
        /\ UNCHANGED <<fxDay, fxFile, fxPc, quote>>
      BY <1>1 DEF Fx!Publish
  <2> QED
      BY <2>1 DEF FxInv, Sound
<1>2. CASE Fx!NextDay
  <2>1. fxDay' = fxDay + 1 /\ UNCHANGED <<published, fxFile, fxPc, quote>>
      BY <1>2 DEF Fx!NextDay
  <2>2. Sound(published'.rate, published'.asOf, fxDay')
      BY <2>1, SoundLater DEF FxInv
  <2> QED
      BY <2>1, <2>2 DEF FxInv
<1>3. ASSUME NEW p \in Processes, Fx!Live(p)
      PROVE  FxInv'
  <2>1. PICK q : /\ q = [rate |-> published.rate, asOf |-> published.asOf, fetched |-> fxDay,
                         stale |-> Fx!Stale(published.asOf, fxDay), from |-> "live"]
                 /\ quote' = [quote EXCEPT ![p] = q] /\ fxPc' = [fxPc EXCEPT ![p] = "open"]
                 /\ UNCHANGED <<fxDay, published, fxFile>>
      BY <1>3 DEF Fx!Live
  <2>2. /\ q.rate = published.rate /\ q.asOf = published.asOf /\ q.fetched = fxDay
        /\ q.from = "live" /\ (~q.stale => ~Fx!Stale(published.asOf, fxDay))
      BY <2>1
  <2>3. ~q.stale /\ q.asOf # 0 => q.fetched - q.asOf < RateAge
    <3>1. published.asOf \in Int /\ fxDay \in Int
        BY DEF FxInv, Sound
    <3> QED
        BY <2>2, <3>1, RateAssumption DEF Fx!Stale, Fx!AgeAssumption
  <2>4. \A r \in Processes : /\ quote'[r] = IF r = p THEN q ELSE quote[r]
                             /\ fxPc'[r] = IF r = p THEN "open" ELSE fxPc[r]
      BY <2>1 DEF FxInv
  <2>5. DOMAIN fxPc' = Processes /\ DOMAIN quote' = Processes
      BY <2>1 DEF FxInv
  <2> QED
      BY <2>1, <2>2, <2>3, <2>4, <2>5 DEF FxInv
<1>4. ASSUME NEW p \in Processes, NEW readable \in BOOLEAN, Fx!LiveFails(p, readable)
      PROVE  FxInv'
  <2>1. PICK q : /\ q = Fx!Fallback(readable)
                 /\ quote' = [quote EXCEPT ![p] = q] /\ fxPc[p] = "idle"
                 /\ UNCHANGED <<fxDay, published, fxFile, fxPc>>
      BY <1>4 DEF Fx!LiveFails
  <2>2. \/ /\ q.from = "manual" /\ q.rate = 0 /\ q.stale = TRUE
        \/ /\ q.from = "last_known_good" /\ q.stale = TRUE
           /\ Sound(q.rate, q.asOf, q.fetched)
           /\ q.fetched \in Int /\ q.fetched <= fxDay
    <3>1. CASE readable /\ fxFile \notin {Fx!NoFile, Fx!Torn}
      <4>1. /\ q.rate = fxFile.rate /\ q.asOf = fxFile.asOf /\ q.fetched = fxFile.fetched
            /\ q.from = "last_known_good" /\ q.stale = TRUE
          BY <2>1, <3>1 DEF Fx!Fallback
      <4> QED
          BY <3>1, <4>1 DEF FxInv
    <3>2. CASE ~(readable /\ fxFile \notin {Fx!NoFile, Fx!Torn})
        BY <2>1, <3>2 DEF Fx!Fallback
    <3> QED
        BY <3>1, <3>2
  <2>3. \A r \in Processes : quote'[r] = IF r = p THEN q ELSE quote[r]
      BY <2>1 DEF FxInv
  <2>4. DOMAIN quote' = Processes
      BY <2>1 DEF FxInv
  <2> QED
      BY <2>1, <2>2, <2>3, <2>4 DEF FxInv
<1>5. ASSUME NEW p \in Processes, Fx!OpenCache(p)
      PROVE  FxInv'
  <2>1. /\ fxPc[p] = "open" /\ fxPc' = [fxPc EXCEPT ![p] = "write"]
        /\ fxFile' = Fx!Torn /\ UNCHANGED <<fxDay, published, quote>>
      BY <1>5 DEF Fx!OpenCache
  <2>2. \A r \in Processes : fxPc'[r] # "idle" => fxPc[r] # "idle"
      BY <2>1 DEF FxInv
  <2>3. DOMAIN fxPc' = Processes
      BY <2>1 DEF FxInv
  <2> QED
      BY <2>1, <2>2, <2>3 DEF FxInv
<1>6. ASSUME NEW p \in Processes, Fx!WriteCache(p)
      PROVE  FxInv'
  <2>1. /\ fxPc[p] = "write" /\ fxPc' = [fxPc EXCEPT ![p] = "idle"]
        /\ UNCHANGED <<fxDay, published, quote>>
      BY <1>6 DEF Fx!WriteCache
  <2>2. \/ fxFile' = Fx!Torn
        \/ /\ fxFile'.rate = quote[p].rate /\ fxFile'.asOf = quote[p].asOf
           /\ fxFile'.fetched = quote[p].fetched
      BY <1>6 DEF Fx!WriteCache
  <2>3. quote[p].from = "live"
      BY <2>1 DEF FxInv
  <2>4. /\ Sound(quote[p].rate, quote[p].asOf, quote[p].fetched)
        /\ quote[p].fetched \in Int /\ quote[p].fetched <= fxDay
      BY <2>3 DEF FxInv
  <2>5. fxFile' # Fx!Torn =>
          /\ Sound(fxFile'.rate, fxFile'.asOf, fxFile'.fetched)
          /\ fxFile'.fetched \in Int /\ fxFile'.fetched <= fxDay'
      BY <2>1, <2>2, <2>4
  <2>6. \A r \in Processes : fxPc'[r] # "idle" => fxPc[r] # "idle"
      BY <2>1 DEF FxInv
  <2>7. DOMAIN fxPc' = Processes
      BY <2>1 DEF FxInv
  <2> QED
      BY <2>1, <2>5, <2>6, <2>7 DEF FxInv
<1>7. ASSUME NEW p \in Processes, Fx!WriteFails(p) \/ Fx!Restart(p)
      PROVE  FxInv'
  <2>1. fxPc' = [fxPc EXCEPT ![p] = "idle"] /\ UNCHANGED <<fxDay, published, fxFile>>
      BY <1>7 DEF Fx!WriteFails, Fx!Restart
  <2>2. PICK q : /\ q \in {quote[p], Fx!NoQuote}
                 /\ \A r \in Processes : quote'[r] = IF r = p THEN q ELSE quote[r]
                 /\ \A r \in Processes : fxPc'[r] = IF r = p THEN "idle" ELSE fxPc[r]
                 /\ DOMAIN fxPc' = Processes /\ DOMAIN quote' = Processes
    <3>1. CASE Fx!WriteFails(p)
      <4>1. quote' = quote
          BY <3>1 DEF Fx!WriteFails
      <4> QED
          BY <2>1, <4>1 DEF FxInv
    <3>2. CASE Fx!Restart(p)
        BY <2>1, <3>2 DEF Fx!Restart, FxInv
    <3> QED
        BY <1>7, <3>1, <3>2
  <2>3. Fx!NoQuote.from = "nothing" /\ Fx!NoQuote.stale = TRUE
      BY DEF Fx!NoQuote
  <2>4. CASE q = quote[p]
      BY <2>1, <2>2, <2>4 DEF FxInv
  <2>5. CASE q = Fx!NoQuote
      BY <2>1, <2>2, <2>3, <2>5 DEF FxInv
  <2> QED
      BY <2>2, <2>4, <2>5
<1> QED
    BY <1>1, <1>2, <1>3, <1>4, <1>5, <1>6, <1>7 DEF Fx!FxNext

(* A step of the poll asks for a rate or leaves all of this alone.           *)
LEMMA FxStays ==
    ASSUME FxInv, [PollingNext]_pollingVars
    PROVE  FxInv'
<1>1. CASE part = "rate" /\ Fx!FxNext
    BY <1>1, FxStep
<1>2. CASE UNCHANGED fxVars
    BY <1>2 DEF fxVars, FxInv, Sound
<1> QED
    BY <1>1, <1>2 DEF PollingNext, pollingVars

(* The invariant of the rates holds in every behaviour of the poll.          *)
THEOREM FxInvariant == PollingSpec => []FxInv
<1>1. PollingInit => FxInv
    BY FxStart DEF PollingInit
<1> QED
    BY <1>1, FxStays, PTL DEF PollingSpec

(* A quoted rate was published, with the date it is quoted with, or is the   *)
(* user's own, and one that is called fresh was no older than the limit when *)
(* it was fetched, whichever process wrote the cache, and wherever another   *)
(* of them or a crash cut the writing off: usage/fx.py.                      *)
THEOREM QuoteHonestCorrect == PollingSpec => [](part = "rate" => Fx!QuoteHonest)
<1>1. FxInv => Fx!QuoteHonest
  <2> SUFFICES ASSUME FxInv, NEW p \in Processes
               PROVE  /\ quote[p].from \in {"live", "last_known_good"} =>
                           /\ quote[p].asOf \in {0, quote[p].rate}
                           /\ quote[p].rate \in 1 .. quote[p].fetched
                           /\ quote[p].fetched <= fxDay
                      /\ quote[p].from = "manual" => quote[p].rate = 0
                      /\ ~quote[p].stale =>
                           /\ quote[p].from = "live"
                           /\ quote[p].asOf # 0 => quote[p].fetched - quote[p].asOf < RateAge
      BY DEF Fx!QuoteHonest
  <2> QED
      BY DEF FxInv, Sound
<1> QED
    BY <1>1, FxInvariant, PTL

-----------------------------------------------------------------------------
(* The cached usage service (UsageService).                                *)

(* A dataset that counts as whole agrees with an honest second reading.      *)
Confirmed(data) ==
    ~data.partial => \A d \in {1, 2} :
        data.totals[d] = Service!Absent \/ data.seen[d] = Service!Absent
            \/ data.totals[d] = data.seen[d]

(* What the cache may hold: a confirmed dataset that no failed attempt fell  *)
(* back on, stored when its collection ended.                                *)
Cacheable(data, stored) ==
    ~data.failed /\ data.done = stored /\ stored \in Int /\ Confirmed(data)

(* What a finished load owes: what is old or not confirmed is marked.        *)
Marked(r) ==
    /\ r.data.failed => r.stale
    /\ r.cached => r.at - r.data.done < CacheTtl
    /\ r.priced => \A d \in {1, 2} :
          r.data.totals[d] = Service!Absent \/ r.data.seen[d] = Service!Absent
              \/ r.data.totals[d] = r.data.seen[d]

(* A load on its way has not been compared with anything.                    *)
ServiceInv ==
    /\ serviceNow \in Int
    /\ \A k \in Service!Keys :
          cache.entry[k] # Service!None => Cacheable(cache.entry[k].data, cache.entry[k].stored)
    /\ load.stage \in {"idle", "cursor", "first", "second", "fallback"}
    /\ load.stage # "idle" =>
          /\ load = [stage |-> load.stage, key |-> load.key, data |-> load.data]
          /\ load.key \in Service!Keys
          /\ ~load.data.failed /\ load.data.seen = Service!Nothing
    /\ result # Service!None => Marked(result)

(* It starts empty. *)
LEMMA ServiceStart == Service!ServiceInit => ServiceInv
BY DEF Service!ServiceInit, ServiceInv, Service!Empty, Service!Idle

(* What is put into the cache for one key leaves the others' entries as they *)
(* were, or none.                                                            *)
LEMMA StoredAre ==
    ASSUME NEW k \in Service!Keys, NEW data, NEW j \in Service!Keys,
           Service!Stored(k, data).entry[j] # Service!None
    PROVE  \/ j = k /\ Service!Stored(k, data).entry[j].data = data
                    /\ Service!Stored(k, data).entry[j].stored = serviceNow
           \/ cache.entry[j] # Service!None /\ Service!Stored(k, data).entry[j] = cache.entry[j]
<1> DEFINE line == Append(Service!Others(k), k)
           e == [data |-> data, stored |-> serviceNow]
           all == [Service!Live EXCEPT ![k] = e]
<1>1. e.data = data /\ e.stored = serviceNow
    OBVIOUS
<1> HIDE DEF e, line
<1>2. Service!Live[j] \in {cache.entry[j], Service!None}
    BY DEF Service!Live
<1>3. all[j] = IF j = k THEN e ELSE Service!Live[j]
    BY DEF Service!Live
<1>4. \E h : [all EXCEPT ![h] = Service!None][j] \in {all[j], Service!None}
    OBVIOUS
<1>5. Service!Stored(k, data).entry[j] \in {all[j], Service!None}
  <2>1. CASE Len(line) > CacheSize
    <3>1. Service!Stored(k, data).entry = [all EXCEPT ![Head(line)] = Service!None]
        BY <2>1 DEF Service!Stored, line, e
    <3>2. j \in DOMAIN all
        BY DEF Service!Live
    <3> QED
        BY <3>1, <3>2
  <2>2. CASE ~(Len(line) > CacheSize)
      BY <2>2 DEF Service!Stored, line, e
  <2> QED
      BY <2>1, <2>2
<1> QED
    BY <1>1, <1>2, <1>3, <1>5

(* A cache that gained a cacheable dataset is as it should be. *)
LEMMA StoredCacheable ==
    ASSUME ServiceInv, NEW k \in Service!Keys, NEW data, Cacheable(data, serviceNow),
           cache' = Service!Stored(k, data)
    PROVE  \A j \in Service!Keys : cache'.entry[j] # Service!None =>
              Cacheable(cache'.entry[j].data, cache'.entry[j].stored)
BY StoredAre DEF ServiceInv

(* A finished load is marked by what it is made of. *)
LEMMA FinishedMarked ==
    ASSUME NEW k, NEW data, NEW stale, NEW cached,
           data.failed => stale,
           cached => serviceNow - data.done < CacheTtl,
           Confirmed(data)
    PROVE  Marked(Service!Finished(k, data, stale, cached))
<1> DEFINE r == Service!Finished(k, data, stale, cached)
<1>1. /\ r.data = data /\ r.stale = stale /\ r.cached = cached /\ r.at = serviceNow
    BY DEF Service!Finished
<1>2. r.priced => ~data.partial
    BY DEF Service!Finished
<1> HIDE DEF r
<1>3. Marked(r)
    BY <1>1, <1>2 DEF Confirmed, Marked
<1> QED
    BY <1>3 DEF r

(* A load that stores its dataset and returns it keeps the invariant. *)
LEMMA EndsWell ==
    ASSUME ServiceInv, NEW k \in Service!Keys, NEW data,
           ~data.failed, data.done = serviceNow, Confirmed(data),
           cache' = Service!Stored(k, data), Service!Return(k, data, FALSE),
           UNCHANGED serviceNow
    PROVE  ServiceInv'
<1>1. Cacheable(data, serviceNow)
    BY DEF Cacheable, ServiceInv
<1>2. \A j \in Service!Keys : cache'.entry[j] # Service!None =>
          Cacheable(cache'.entry[j].data, cache'.entry[j].stored)
    BY <1>1, StoredCacheable
<1>3. result' = Service!Finished(k, data, FALSE, FALSE) /\ load' = Service!Idle
    BY DEF Service!Return
<1>4. Marked(Service!Finished(k, data, FALSE, FALSE))
    BY FinishedMarked
<1>5. load'.stage = "idle"
    BY <1>3 DEF Service!Idle
<1>6. Marked(result')
    BY <1>3, <1>4
<1> QED
    BY <1>2, <1>5, <1>6 DEF ServiceInv

(* A load that has nothing to return keeps it. *)
LEMMA FailsWell ==
    ASSUME NEW k, NEW status, Service!Failed(k, status)
    PROVE  Marked(result') /\ load'.stage = "idle"
<1> DEFINE data == Service!Dataset(Service!Nothing, FALSE, FALSE, Service!Nothing)
<1>1. ~data.failed
    BY DEF Service!Dataset
<1> HIDE DEF data
<1>2. result' = [key |-> k, status |-> status, data |-> data, stale |-> FALSE,
                 cached |-> FALSE, priced |-> FALSE, at |-> serviceNow]
    BY DEF Service!Failed, data
<1>3. result'.data = data /\ ~result'.cached /\ ~result'.priced
    BY <1>2
<1>4. load'.stage = "idle"
    BY DEF Service!Failed, Service!Idle
<1> QED
    BY <1>1, <1>3, <1>4 DEF Marked

(* Every step of a load, of the world or of the window keeps the invariant.  *)
LEMMA ServiceStep == ServiceInv /\ [Service!ServiceNext]_serviceVars => ServiceInv'
<1> SUFFICES ASSUME ServiceInv, [Service!ServiceNext]_serviceVars
             PROVE  ServiceInv'
    OBVIOUS
<1> DEFINE Blank == Service!Dataset(Service!Nothing, FALSE, FALSE, Service!Nothing)
<1>0. /\ ~Blank.failed /\ Blank.seen = Service!Nothing
      /\ \A d \in {1, 2} : Service!Nothing[d] = Service!Absent
    BY DEF Service!Dataset, Service!Nothing
<1>1. ASSUME NEW k \in Service!Keys, Service!Begin(k)
      PROVE  ServiceInv'
  <2>1. UNCHANGED serviceNow
      BY <1>1 DEF Service!Begin
  <2>2. \A j \in Service!Keys : Service!Live[j] # Service!None =>
            /\ Service!Live[j] = cache.entry[j] /\ cache.entry[j] # Service!None
            /\ serviceNow - cache.entry[j].stored < CacheTtl
      BY DEF Service!Live
  <2>3. CASE Service!Hit(k)
    <3> DEFINE e == cache.entry[k]
    <3>1. /\ cache' = Service!Touched(k) /\ UNCHANGED load
          /\ result' = Service!Finished(k, Service!Live[k].data, FALSE, TRUE)
        BY <1>1, <2>3 DEF Service!Begin
    <3>2. Service!Live[k] = e /\ serviceNow - e.stored < CacheTtl /\ e # Service!None
        BY <2>2, <2>3 DEF Service!Hit
    <3>3. Cacheable(e.data, e.stored)
        BY <3>2 DEF ServiceInv
    <3>4. Marked(Service!Finished(k, e.data, FALSE, TRUE))
        BY <3>2, <3>3, FinishedMarked DEF Cacheable
    <3>5. Marked(result')
        BY <3>1, <3>2, <3>4
    <3>6. cache'.entry = Service!Live
        BY <3>1 DEF Service!Touched
    <3> QED
        BY <2>1, <2>2, <3>1, <3>5, <3>6 DEF ServiceInv
  <2>4. CASE ~Service!Hit(k)
    <3>1. PICK stage \in {"cursor", "first"} :
              load' = [stage |-> stage, key |-> k, data |-> Blank]
        BY <1>1, <2>4 DEF Service!Begin
    <3>2. load'.stage = stage /\ load'.key = k /\ load'.data = Blank
        BY <3>1
    <3>3. cache' = Service!Purged /\ UNCHANGED result
        BY <1>1, <2>4 DEF Service!Begin
    <3>4. cache'.entry = Service!Live
        BY <3>3 DEF Service!Purged
    <3> HIDE DEF Blank
    <3> QED
        BY <1>0, <2>1, <2>2, <3>1, <3>2, <3>3, <3>4 DEF ServiceInv
  <2> QED
      BY <2>3, <2>4
<1>2. CASE Service!FirstReading
  <2>1. load.stage = "first" /\ UNCHANGED <<serviceNow, used, answer, cache>>
      BY <1>2 DEF Service!FirstReading
  <2>2. CASE Service!Failed(load.key, "error")
      BY <2>1, <2>2, FailsWell DEF ServiceInv
  <2>3. ASSUME NEW t, NEW partial, NEW stage \in {"second", "fallback"}, UNCHANGED result,
               load' = [load EXCEPT !.stage = stage,
                                    !.data = Service!Dataset(t, partial, FALSE, Service!Nothing)]
        PROVE  ServiceInv'
    <3> DEFINE data == Service!Dataset(t, partial, FALSE, Service!Nothing)
    <3>1. ~data.failed /\ data.seen = Service!Nothing
        BY DEF Service!Dataset
    <3> HIDE DEF data
    <3>2. load = [stage |-> load.stage, key |-> load.key, data |-> load.data]
        BY <2>1 DEF ServiceInv
    <3>3. load' = [stage |-> stage, key |-> load.key, data |-> data]
        BY <2>3, <3>2 DEF data
    <3>4. load'.stage = stage /\ load'.key = load.key /\ load'.data = data
        BY <3>3
    <3> QED
        BY <2>1, <2>3, <3>1, <3>3, <3>4 DEF ServiceInv
  <2> QED
      BY <1>2, <2>2, <2>3 DEF Service!FirstReading
<1>3. CASE Service!SecondReading
  <2> DEFINE k == load.key
             data == load.data
  <2>1. load.stage = "second" /\ UNCHANGED serviceNow
      BY <1>3 DEF Service!SecondReading
  <2>2. k \in Service!Keys /\ ~data.failed /\ data.seen = Service!Nothing
      BY <2>1 DEF ServiceInv
  <2>3. ASSUME NEW d, d = [data EXCEPT !.done = serviceNow],
               cache' = Service!Stored(k, d), Service!Return(k, d, FALSE)
        PROVE  ServiceInv'
    <3>1. d.failed = data.failed /\ d.seen = data.seen /\ d.done = serviceNow
        BY <2>3
    <3>2. Confirmed(d)
        BY <1>0, <2>2, <3>1 DEF Confirmed
    <3> QED
        BY <2>1, <2>2, <2>3, <3>1, <3>2, EndsWell
  <2>4. ASSUME NEW t, NEW others \in {t, Service!Nothing}, NEW d,
               d = Service!Dataset(data.totals,
                                   data.partial \/ Service!Disagrees(data.totals, t),
                                   FALSE, others),
               cache' = Service!Stored(k, d), Service!Return(k, d, FALSE)
        PROVE  ServiceInv'
    <3>1. /\ d.totals = data.totals /\ d.seen = others /\ ~d.failed /\ d.done = serviceNow
          /\ ~d.partial => ~Service!Disagrees(data.totals, t)
        BY <2>4 DEF Service!Dataset
    <3>2. Confirmed(d)
        BY <1>0, <3>1 DEF Confirmed, Service!Disagrees
    <3> QED
        BY <2>1, <2>2, <2>4, <3>1, <3>2, EndsWell
  <2> QED
      BY <1>3, <2>3, <2>4 DEF Service!SecondReading
<1>4. CASE Service!Fallback
  <2> DEFINE k == load.key
             data == load.data
  <2>1. load.stage = "fallback" /\ UNCHANGED serviceNow
      BY <1>4 DEF Service!Fallback
  <2>2. k \in Service!Keys /\ ~data.failed /\ data.seen = Service!Nothing
      BY <2>1 DEF ServiceInv
  <2>3. PICK t : LET d == IF t = Service!Nothing THEN [data EXCEPT !.done = serviceNow]
                          ELSE Service!Dataset(t, FALSE, FALSE, Service!Nothing)
                 IN  cache' = Service!Stored(k, d) /\ Service!Return(k, d, FALSE)
      BY <1>4 DEF Service!Fallback
  <2>4. PICK d : /\ d = IF t = Service!Nothing THEN [data EXCEPT !.done = serviceNow]
                        ELSE Service!Dataset(t, FALSE, FALSE, Service!Nothing)
                 /\ cache' = Service!Stored(k, d) /\ Service!Return(k, d, FALSE)
      BY <2>3
  <2>5. ~d.failed /\ d.seen = Service!Nothing /\ d.done = serviceNow
    <3>1. CASE t = Service!Nothing
        BY <2>2, <2>4, <3>1
    <3>2. CASE t # Service!Nothing
        BY <2>4, <3>2 DEF Service!Dataset
    <3> QED
        BY <3>1, <3>2
  <2>6. Confirmed(d)
      BY <1>0, <2>5 DEF Confirmed
  <2> QED
      BY <2>1, <2>2, <2>4, <2>5, <2>6, EndsWell
<1>5. CASE Service!CursorAnswer
  <2> DEFINE k == load.key
  <2>1. load.stage = "cursor" /\ UNCHANGED serviceNow
      BY <1>5 DEF Service!CursorAnswer
  <2>2. k \in Service!Keys
      BY <2>1 DEF ServiceInv
  <2>3. ASSUME NEW partial, NEW d,
               d = Service!Dataset(Service!Honest(k), partial, FALSE, Service!Nothing),
               cache' = Service!Stored(k, d), Service!Return(k, d, FALSE)
        PROVE  ServiceInv'
    <3>1. ~d.failed /\ d.seen = Service!Nothing /\ d.done = serviceNow
        BY <2>3 DEF Service!Dataset
    <3>2. Confirmed(d)
        BY <1>0, <3>1 DEF Confirmed
    <3> QED
        BY <2>1, <2>2, <2>3, <3>1, <3>2, EndsWell
  <2>4. ASSUME NEW d, d = Service!Dataset(answer[k], FALSE, TRUE, Service!Nothing),
               cache' = Service!StaleCache(k), Service!Return(k, d, TRUE)
        PROVE  ServiceInv'
    <3>1. d.seen = Service!Nothing
        BY <2>4 DEF Service!Dataset
    <3>2. Confirmed(d)
        BY <1>0, <3>1 DEF Confirmed
    <3>3. result' = Service!Finished(k, d, TRUE, FALSE) /\ load' = Service!Idle
        BY <2>4 DEF Service!Return
    <3>4. Marked(Service!Finished(k, d, TRUE, FALSE))
        BY <3>2, FinishedMarked
    <3>5. Marked(result') /\ load'.stage = "idle"
        BY <3>3, <3>4 DEF Service!Idle
    <3>6. cache'.entry = [Service!Live EXCEPT ![k] = Service!None]
        BY <2>4 DEF Service!StaleCache
    <3>7. \A j \in Service!Keys : cache'.entry[j] \in {cache.entry[j], Service!None}
        BY <3>6 DEF Service!Live
    <3> QED
        BY <2>1, <3>5, <3>7 DEF ServiceInv
  <2>5. ASSUME NEW status, Service!Failed(k, status), UNCHANGED cache
        PROVE  ServiceInv'
      BY <2>1, <2>5, FailsWell DEF ServiceInv
  <2> QED
      BY <1>5, <2>3, <2>4, <2>5 DEF Service!CursorAnswer
<1>6. CASE Service!Tick
  <2>1. serviceNow' = serviceNow + 1 /\ UNCHANGED <<cache, load, result>>
      BY <1>6 DEF Service!Tick
  <2> QED
      BY <2>1 DEF ServiceInv, Marked
<1>7. CASE Service!Invalidate
  <2>1. cache' = Service!Empty /\ UNCHANGED <<serviceNow, load, result>>
      BY <1>7 DEF Service!Invalidate
  <2>2. \A j \in Service!Keys : cache'.entry[j] = Service!None
      BY <2>1 DEF Service!Empty
  <2> QED
      BY <2>1, <2>2 DEF ServiceInv
<1>8. CASE (\E k \in Service!Keys : Service!Use(k)) \/ UNCHANGED serviceVars
  <2>1. UNCHANGED <<serviceNow, cache, load, result>>
      BY <1>8 DEF Service!Use, serviceVars
  <2> QED
      BY <2>1 DEF ServiceInv
<1> QED
    BY <1>1, <1>2, <1>3, <1>4, <1>5, <1>6, <1>7, <1>8 DEF Service!ServiceNext

(* Only the steps of this part change any of it.                            *)
LEMMA ServiceRun == [PollingNext]_pollingVars => [Service!ServiceNext]_serviceVars
BY DEF PollingNext, pollingVars

(* The invariant of the service holds in every behaviour of the poll.       *)
THEOREM ServiceInvariant == PollingSpec => []ServiceInv
<1>1. PollingInit => ServiceInv
    BY ServiceStart DEF PollingInit
<1> QED
    BY <1>1, ServiceRun, ServiceStep, PTL DEF PollingSpec

(* What a load returns unmarked is recent, however often the cache was asked *)
(* for it, and no failed attempt fell back on it; what has a price agrees    *)
(* with an honest second reading (usage/service.py, usage/cache.py).         *)
THEOREM UnmarkedIsConfirmedCorrect == PollingSpec => []UnmarkedIsConfirmed
<1>1. ServiceInv => UnmarkedIsConfirmed
    BY DEF ServiceInv, Marked, UnmarkedIsConfirmed, Service!UnmarkedIsRecent,
           Service!PricedIsConfirmed
<1> QED
    BY <1>1, ServiceInvariant, PTL

-----------------------------------------------------------------------------
(* The Cursor files (CursorSources).                                       *)

(* The rows of a file tell the truth about their owner or nothing, and then  *)
(* its name or the account it is bound to does; what syncs wrote is still    *)
(* there, or something newer of theirs.                                      *)
SourcesInv ==
    /\ sourcesNow \in Int /\ lastGood \in Int
    /\ bound \in {NoCursor, tokenLogin}
    /\ DOMAIN files = Sources!Slots /\ DOMAIN gui = Cursors
    /\ \A a \in Cursors :
          /\ gui[a] # Sources!NoFile => gui[a].label \in {NoCursor, gui[a].owner}
                                        /\ (gui[a].label = NoCursor => gui[a].owner = a)
          /\ files[a] # Sources!NoFile => files[a].label \in {NoCursor, files[a].owner}
                                          /\ (files[a].label = NoCursor => files[a].owner = a)
    /\ files["generic"] # Sources!NoFile =>
          files["generic"].label = NoCursor /\ files["generic"].owner = tokenLogin
    /\ lastGood # Sources!Never =>
          /\ files["generic"] # Sources!NoFile
          /\ files["generic"].written \in Int /\ lastGood <= files["generic"].written
    /\ Sources!OwnCsvUsage

(* It starts with no file. *)
LEMMA SourcesStart == Sources!SourcesInit => SourcesInv
<1> SUFFICES ASSUME Sources!SourcesInit
             PROVE  SourcesInv
    OBVIOUS
<1>1. /\ "generic" \in Sources!Slots /\ Cursors \subseteq Sources!Slots
    BY DEF Sources!Slots
<1>2. listed.usage.via = "none"
    BY DEF Sources!SourcesInit, Sources!Unloaded, Sources!Nothing
<1> QED
    BY <1>1, <1>2 DEF Sources!SourcesInit, SourcesInv, Sources!OwnCsvUsage, Sources!Never

(* What the files show of an account by way of a CSV is its own usage. *)
LEMMA FilesShowOwn ==
    ASSUME NEW folder, NEW a \in Cursors, bound \in {NoCursor, tokenLogin},
           folder[a] # Sources!NoFile => folder[a].label \in {NoCursor, folder[a].owner}
                                      /\ (folder[a].label = NoCursor => folder[a].owner = a),
           folder["generic"] # Sources!NoFile =>
               folder["generic"].label = NoCursor /\ folder["generic"].owner = tokenLogin,
           Sources!FromFiles(folder, a).via \in {"csv", "import"}
    PROVE  Sources!FromFiles(folder, a).owner = a
<1> DEFINE Usable(s) == IF s = "json" THEN Sources!JsonUsable(folder[s], a)
                        ELSE Sources!CsvUsable(folder[s], s, a, bound)
           good == {i \in Sources!Discovered(folder, a) : Usable(Sources!Order(a)[i])}
           least == CHOOSE i \in good : \A j \in good : i <= j
           first == Sources!Order(a)[least]
           taken == [owner |-> folder[first].owner,
                     via |-> IF first = "json" THEN "json" ELSE "csv"]
<1>1. Sources!FromFiles(folder, a) = IF good = {} THEN Sources!Nothing ELSE taken
    BY DEF Sources!FromFiles
<1>2. good # {}
    BY <1>1 DEF Sources!Nothing
<1>3. good \subseteq 1 .. 3
    BY DEF Sources!Discovered
<1>4. \E i \in good : \A j \in good : i <= j
  <2> HIDE DEF good
  <2>1. CASE 1 \in good
      BY <1>3, <2>1
  <2>2. CASE 1 \notin good /\ 2 \in good
      BY <1>3, <2>2
  <2>3. CASE 1 \notin good /\ 2 \notin good
    <3>1. \A i \in good : i = 3
        BY <1>3, <2>3
    <3> QED
        BY <1>2, <3>1
  <2> QED
      BY <2>1, <2>2, <2>3
<1>5. least \in good
    BY <1>4
<1>6. least \in 1 .. 3
    BY <1>3, <1>5
<1>7. /\ folder[first] # Sources!NoFile
      /\ (first = "generic" => bound = a) /\ Usable(first)
    BY <1>5 DEF Sources!Discovered
<1>8. first \in {a, "json", "generic"}
  <2> HIDE DEF least
  <2> QED
    BY <1>6 DEF Sources!Order
<1> HIDE DEF first
<1>9. taken.owner = folder[first].owner /\ taken.via = IF first = "json" THEN "json" ELSE "csv"
    OBVIOUS
<1>10. first # "json"
    BY <1>1, <1>2, <1>9
<1>11. Sources!RowAccount(folder[first], first, a, bound) = a
    BY <1>7, <1>10 DEF Sources!CsvUsable
<1>12. a \notin {"json", "generic"} /\ NoCursor # a
    BY CursorsAssumption DEF Sources!SourcesAssumption
<1>13. folder[first].owner = a
  <2>1. CASE first = a
    <3>1. CASE folder[a].label = NoCursor
        BY <1>7, <2>1, <3>1
    <3>2. CASE folder[a].label # NoCursor
        BY <1>7, <1>11, <2>1, <3>2 DEF Sources!RowAccount
    <3> QED
        BY <3>1, <3>2
  <2>2. CASE first = "generic"
      BY <1>7, <1>12, <2>2
  <2> QED
      BY <1>8, <1>10, <2>1, <2>2
<1> QED
    BY <1>1, <1>2, <1>9, <1>13

(* What is left of a load makes no claim.                                   *)
LEMMA SettledClaims ==
    ASSUME Sources!Settled
    PROVE  Sources!OwnCsvUsage'
BY DEF Sources!Settled, Sources!OwnCsvUsage, Sources!Unloaded, Sources!Nothing

(* A step of the clock, of the user or of a load keeps the invariant. *)
LEMMA SourcesStep == SourcesInv /\ [Sources!SourcesNext]_sourcesVars => SourcesInv'
<1> SUFFICES ASSUME SourcesInv, [Sources!SourcesNext]_sourcesVars
             PROVE  SourcesInv'
    OBVIOUS
<1>0. /\ "generic" \in Sources!Slots /\ Cursors \subseteq Sources!Slots
      /\ "generic" \notin Cursors /\ "json" \notin Cursors
    BY CursorsAssumption DEF Sources!Slots, Sources!SourcesAssumption
<1>1. CASE Sources!Tick
  <2>1. /\ sourcesNow' = sourcesNow + 1 /\ Sources!Settled
        /\ UNCHANGED <<tokenLogin, bound, source, gui, files, lastSync, lastGood, drops>>
      BY <1>1 DEF Sources!Tick
  <2> QED
      BY <2>1, SettledClaims DEF SourcesInv
<1>2. CASE Sources!Drop
  <2>1. PICK s \in Sources!Slots \ {"generic"}, f \in Sources!File :
          /\ Sources!Truthful(f)
          /\ s \in Cursors /\ f.label = NoCursor => f.owner = s
          /\ files' = [files EXCEPT ![s] = f]
      BY <1>2 DEF Sources!Drop
  <2>2. /\ Sources!Settled
        /\ UNCHANGED <<sourcesNow, tokenLogin, bound, source, gui, lastSync, lastGood>>
      BY <1>2 DEF Sources!Drop
  <2>3. /\ DOMAIN files' = Sources!Slots
        /\ \A r \in Sources!Slots : files'[r] = IF r = s THEN f ELSE files[r]
      BY <2>1 DEF SourcesInv
  <2> HIDE DEF SourcesInv
  <2>4. \A a \in Cursors :
          files'[a] # Sources!NoFile => files'[a].label \in {NoCursor, files'[a].owner}
                                        /\ (files'[a].label = NoCursor => files'[a].owner = a)
      BY <1>0, <2>1, <2>3 DEF SourcesInv, Sources!Truthful
  <2>5. files'["generic"] = files["generic"]
      BY <1>0, <2>1, <2>3
  <2> QED
      BY <2>2, <2>3, <2>4, <2>5, SettledClaims DEF SourcesInv
<1>3. ASSUME NEW a \in Cursors, Sources!Load(a)
      PROVE  SourcesInv'
  <2>1. UNCHANGED <<sourcesNow, tokenLogin, bound, source, gui, drops>>
      BY <1>3 DEF Sources!Load
  <2>2. CASE Sources!NoSync
    <3>1. UNCHANGED <<files, lastSync, lastGood>>
        BY <2>2 DEF Sources!NoSync
    <3>2. Sources!OwnCsvUsage'
      <4>1. CASE listed' = [for |-> a, usage |-> [owner |-> a, via |-> "admin"]]
          BY <4>1 DEF Sources!OwnCsvUsage
      <4>2. CASE gui[a] # Sources!NoFile /\ listed' = [for |-> a, usage |-> Sources!FromImport(a)]
        <5>1. listed'.for = a /\ listed'.usage = Sources!FromImport(a)
            BY <4>2
        <5>2. Sources!FromImport(a).via \in {"csv", "import"} =>
                 /\ Sources!FromImport(a).owner = gui[a].owner
                 /\ Sources!CsvUsable(gui[a], "import", a, a)
            BY DEF Sources!FromImport, Sources!Nothing
        <5>3. Sources!CsvUsable(gui[a], "import", a, a) => gui[a].owner = a
            BY <4>2 DEF Sources!CsvUsable, Sources!RowAccount, SourcesInv
        <5> QED
            BY <5>1, <5>2, <5>3 DEF Sources!OwnCsvUsage
      <4>3. CASE listed' = [for |-> a, usage |-> Sources!FromFiles(files', a)]
        <5>1. listed'.for = a /\ listed'.usage = Sources!FromFiles(files', a)
            BY <4>3
        <5>2. Sources!FromFiles(files', a).via \in {"csv", "import"} =>
                 Sources!FromFiles(files', a).owner = a
            BY <3>1, FilesShowOwn DEF SourcesInv
        <5> QED
            BY <5>1, <5>2 DEF Sources!OwnCsvUsage
      <4> QED
          BY <1>3, <4>1, <4>2, <4>3 DEF Sources!Load
    <3> QED
        BY <2>1, <3>1, <3>2 DEF SourcesInv
  <2>3. ASSUME NEW wrote \in BOOLEAN, Sources!Sync(wrote),
               listed' = [for |-> a, usage |-> Sources!FromFiles(files', a)]
        PROVE  SourcesInv'
    <3> DEFINE f == [label |-> NoCursor, owner |-> tokenLogin, whole |-> TRUE,
                     written |-> sourcesNow]
    <3>1. /\ files' = IF wrote THEN [files EXCEPT !["generic"] = f] ELSE files
          /\ lastGood' = IF wrote THEN sourcesNow ELSE lastGood
        BY <2>3 DEF Sources!Sync
    <3>2. f.label = NoCursor /\ f.owner = tokenLogin /\ f.written = sourcesNow /\ f.whole = TRUE
        OBVIOUS
    <3>3. f # Sources!NoFile
        BY <3>2, CursorsAssumption DEF Sources!NoFile, SourcesInv
    <3> HIDE DEF f
    <3>4. /\ DOMAIN files' = Sources!Slots
          /\ \A r \in Cursors : files'[r] = files[r]
          /\ files'["generic"] = IF wrote THEN f ELSE files["generic"]
        BY <1>0, <3>1 DEF SourcesInv
    <3>5. files'["generic"] # Sources!NoFile =>
             files'["generic"].label = NoCursor /\ files'["generic"].owner = tokenLogin
        BY <3>2, <3>4 DEF SourcesInv
    <3>6. listed'.for = a /\ listed'.usage = Sources!FromFiles(files', a)
        BY <2>3
    <3>7. Sources!FromFiles(files', a).via \in {"csv", "import"} =>
             Sources!FromFiles(files', a).owner = a
        BY <3>4, <3>5, FilesShowOwn DEF SourcesInv
    <3>8. Sources!OwnCsvUsage'
        BY <3>6, <3>7 DEF Sources!OwnCsvUsage
    <3>9. lastGood' # Sources!Never =>
            /\ files'["generic"] # Sources!NoFile
            /\ files'["generic"].written \in Int /\ lastGood' <= files'["generic"].written
        BY <3>1, <3>2, <3>3, <3>4 DEF SourcesInv
    <3> QED
        BY <2>1, <3>1, <3>4, <3>5, <3>8, <3>9 DEF SourcesInv
  <2> QED
      BY <1>3, <2>2, <2>3 DEF Sources!Load
<1>4. ASSUME NEW a \in Cursors, NEW kind \in {"none", "csv", "admin"}, Sources!Bind(a, kind)
      PROVE  SourcesInv'
  <2>1. /\ Sources!Settled
        /\ UNCHANGED <<sourcesNow, tokenLogin, bound, files, lastSync, lastGood, drops>>
      BY <1>4 DEF Sources!Bind
  <2>2. PICK f : /\ gui' = [gui EXCEPT ![a] = f]
                 /\ f # Sources!NoFile => f.label \in {NoCursor, f.owner}
                                           /\ (f.label = NoCursor => f.owner = a)
      BY <1>4 DEF Sources!Bind, Sources!Truthful
  <2>3. DOMAIN gui' = Cursors /\ \A b \in Cursors : gui'[b] = IF b = a THEN f ELSE gui[b]
      BY <2>2 DEF SourcesInv
  <2> QED
      BY <2>1, <2>2, <2>3, SettledClaims DEF SourcesInv
<1>5. ASSUME NEW a \in Cursors, Sources!LoseImport(a)
      PROVE  SourcesInv'
  <2>1. /\ Sources!Settled /\ gui' = [gui EXCEPT ![a] = Sources!NoFile]
        /\ UNCHANGED <<sourcesNow, tokenLogin, bound, files, lastSync, lastGood, drops>>
      BY <1>5 DEF Sources!LoseImport
  <2>2. /\ DOMAIN gui' = Cursors
        /\ \A b \in Cursors : gui'[b] = IF b = a THEN Sources!NoFile ELSE gui[b]
      BY <2>1 DEF SourcesInv
  <2> QED
      BY <2>1, <2>2, SettledClaims DEF SourcesInv
<1>6. CASE UNCHANGED sourcesVars
    BY <1>6 DEF sourcesVars, SourcesInv, Sources!OwnCsvUsage
<1> QED
    BY <1>1, <1>2, <1>3, <1>4, <1>5, <1>6 DEF Sources!SourcesNext

(* Only the steps of this part change any of it.                            *)
LEMMA SourcesRun == [PollingNext]_pollingVars => [Sources!SourcesNext]_sourcesVars
BY DEF PollingNext, pollingVars

(* The invariant of the Cursor files holds in every behaviour of the poll.  *)
THEOREM SourcesInvariant == PollingSpec => []SourcesInv
<1>1. PollingInit => SourcesInv
    BY SourcesStart DEF PollingInit
<1> QED
    BY <1>1, SourcesRun, SourcesStep, PTL DEF PollingSpec

(* What an account shows out of a CSV is its own usage, with every mix of    *)
(* bindings, nameless files and other accounts' rows (cursor_export.py).     *)
THEOREM OwnCsvUsageCorrect == PollingSpec => []OwnCsvUsage
<1>1. SourcesInv => OwnCsvUsage
    BY DEF SourcesInv, OwnCsvUsage
<1> QED
    BY <1>1, SourcesInvariant, PTL

(* A sync that wrote its file is not repeated before the file is SyncTtl     *)
(* old, whatever the user puts beside it (cursor_cache_is_fresh).            *)
THEOREM GoodSyncHoldsCorrect == PollingSpec => GoodSyncHolds
<1>1. ASSUME SourcesInv, [Sources!SourcesNext]_sourcesVars, sourcesVars' # sourcesVars,
             syncing', lastGood # Sources!Never
      PROVE  sourcesNow - lastGood >= SyncTtl
  <2>1. PICK a \in Cursors : Sources!Load(a)
      BY <1>1 DEF Sources!SourcesNext, Sources!Tick, Sources!Drop, Sources!Settled,
                  Sources!LoseImport, Sources!Bind
  <2>2. ~Sources!Fresh
      BY <1>1, <2>1 DEF Sources!Load, Sources!NoSync
  <2>3. "generic" \in Sources!Slots \ {"json"} /\ files["generic"] # Sources!NoFile
      BY <1>1 DEF SourcesInv, Sources!Slots
  <2>4. ~(sourcesNow - files["generic"].written < SyncTtl)
      BY <2>2, <2>3 DEF Sources!Fresh
  <2> QED
      BY <1>1, <2>4, CursorsAssumption DEF SourcesInv, Sources!SourcesAssumption
<1>2. SourcesInv /\ [PollingNext]_pollingVars =>
         [syncing' /\ lastGood # Sources!Never => sourcesNow - lastGood >= SyncTtl]_(Sources!sourcesVars)
    BY <1>1, SourcesRun DEF Sources!sourcesVars, sourcesVars
<1> QED
    BY <1>2, SourcesInvariant, PTL DEF PollingSpec, GoodSyncHolds, Sources!GoodSyncHolds

-----------------------------------------------------------------------------
(* The report (PeriodReport): THIS and AVG as sums over days, and the days *)
(* of the months as intervals.                                             *)

(* The module's sums are those of FiniteSums. *)
LEMMA ReportSum == \A f, S : Report!SumFunctionOnSet(f, S) = SumFunctionOnSet(f, S)
BY Zenon DEF Report!SumFunctionOnSet, Report!FoldFunctionOnSet, Report!MapThenFoldSet,
             SumFunctionOnSet, FoldFunctionOnSet, MapThenFoldSet

(* Tokens are counted by kind. *)
LEMMA KindsAre == DOMAIN Report!None = {"in", "write", "short", "long"}
BY DEF Report!None

(* __post_init__ raises the aggregate to its detail, and changes nothing else. *)
LEMMA CleanIs ==
    ASSUME NEW t \in [{"in", "write", "short", "long"} -> Nat]
    PROVE  /\ Report!Clean(t) \in Report!Tokens
           /\ t["short"] + t["long"] <= t["write"] => Report!Clean(t) = t
           /\ \A k \in {"in", "short", "long"} : Report!Clean(t)[k] = t[k]
           /\ Report!Clean(t)["write"] = Report!Max({t["write"], t["short"] + t["long"]})
BY DEF Report!Clean, Report!Tokens, Report!Max

(* Tokens are added kind by kind, and remain well-formed. *)
LEMMA PlusIs ==
    ASSUME NEW s \in Report!Tokens, NEW t \in Report!Tokens
    PROVE  /\ Report!Plus(s, t) \in Report!Tokens
           /\ \A k \in {"in", "write", "short", "long"} : Report!Plus(s, t)[k] = s[k] + t[k]
<1> DEFINE r == [k \in DOMAIN s |-> s[k] + t[k]]
<1>1. /\ r \in [{"in", "write", "short", "long"} -> Nat]
      /\ r["short"] + r["long"] <= r["write"]
      /\ \A k \in {"in", "write", "short", "long"} : r[k] = s[k] + t[k]
    BY DEF Report!Tokens
<1>2. Report!Plus(s, t) = Report!Clean(r)
    BY DEF Report!Plus
<1> HIDE DEF r
<1> QED
    BY <1>1, <1>2, CleanIs

(* No tokens. *)
LEMMA NoneIs == Report!None \in Report!Tokens /\ \A k \in {"in", "write", "short", "long"} : Report!None[k] = 0
BY DEF Report!None, Report!Tokens

(* SumTokens, kind by kind. *)
LEMMA SumTokensIs ==
    ASSUME NEW f, NEW S, NEW k \in {"in", "write", "short", "long"}
    PROVE  Report!SumTokens(f, S)[k] = SumFunctionOnSet([x \in S |-> f[x][k]], S)
BY ReportSum, KindsAre DEF Report!SumTokens

(* The sum of well-formed tokens is well-formed. *)
LEMMA SumTokensType ==
    ASSUME NEW f, NEW S, IsFiniteSet(S), \A x \in S : f[x] \in Report!Tokens
    PROVE  Report!SumTokens(f, S) \in Report!Tokens
<1> DEFINE g(k) == [x \in S |-> f[x][k]]
           t == Report!SumTokens(f, S)
           both == [x \in S |-> f[x]["short"] + f[x]["long"]]
           zero == [x \in S |-> 0]
<1>1. \A x \in S : /\ \A k \in {"in", "write", "short", "long"} : f[x][k] \in Nat
                   /\ f[x]["short"] + f[x]["long"] <= f[x]["write"]
    BY DEF Report!Tokens
<1>2. \A k \in {"in", "write", "short", "long"} : t[k] = SumFunctionOnSet(g(k), S)
    BY SumTokensIs
<1>3. t = [k \in {"in", "write", "short", "long"} |-> t[k]]
    BY KindsAre DEF Report!SumTokens
<1> HIDE DEF t
<1>4. \A k \in {"in", "write", "short", "long"} : t[k] \in Nat
  <2> TAKE k \in {"in", "write", "short", "long"}
  <2>1. \A x \in S : g(k)[x] \in Nat
      BY <1>1
  <2> HIDE DEF g
  <2> QED
      BY <1>2, <2>1, SumNat
<1>5. SumFunctionOnSet(both, S) = SumFunctionOnSet(g("short"), S) + SumFunctionOnSet(g("long"), S)
  <2>1. \A x \in S : /\ g("short")[x] \in Int /\ g("long")[x] \in Int
                     /\ both[x] = g("short")[x] + g("long")[x]
      BY <1>1
  <2> HIDE DEF both, g
  <2> QED
      BY <2>1, SumPlus
<1>6. SumFunctionOnSet(both, S) <= SumFunctionOnSet(g("write"), S)
  <2>1. \A x \in S : /\ both[x] \in Int /\ g("write")[x] \in Int
                     /\ both[x] <= g("write")[x]
      BY <1>1
  <2> HIDE DEF both, g
  <2> QED
      BY <2>1, SumMono
<1>7. t["short"] + t["long"] <= t["write"]
  <2> HIDE DEF both, g
  <2> QED
      BY <1>2, <1>4, <1>5, <1>6
<1>8. t \in [in : Nat, write : Nat, short : Nat, long : Nat]
    BY <1>3, <1>4
<1> QED
    BY <1>7, <1>8 DEF Report!Tokens, t

(* What is added kind by kind is added in the sum. *)
LEMMA SumTokensPlus ==
    ASSUME NEW f, NEW g, NEW h, NEW S, IsFiniteSet(S), NEW k \in {"in", "write", "short", "long"},
           \A x \in S : f[x][k] \in Int /\ g[x][k] \in Int /\ h[x][k] = f[x][k] + g[x][k]
    PROVE  Report!SumTokens(h, S)[k] = Report!SumTokens(f, S)[k] + Report!SumTokens(g, S)[k]
<1> DEFINE F(i) == [x \in S |-> i[x][k]]
<1>1. \A x \in S : F(f)[x] \in Int /\ F(g)[x] \in Int /\ F(h)[x] = F(f)[x] + F(g)[x]
    OBVIOUS
<1>2. SumFunctionOnSet(F(h), S) = SumFunctionOnSet(F(f), S) + SumFunctionOnSet(F(g), S)
  <2> HIDE DEF F
  <2> QED
      BY <1>1, SumPlus
<1> QED
    BY <1>2, SumTokensIs

-----------------------------------------------------------------------------
(* What is used is well-formed, and all of it happens on days. *)
ReportTypes ==
  /\ spent \in [Report!Days -> [Models -> Report!Tokens]]
  /\ seen \subseteq Report!Days
  /\ today \in Report!Days

(* What is assumed of the calendar and of the limits. *)
LEMMA DaysAre ==
    /\ LastDay \in Nat /\ LastDay >= 1
    /\ Report!Days \subseteq Nat
    /\ \A d \in Int : d \in Report!Days <=> 1 <= d /\ d <= LastDay
    /\ IsFiniteSet(Report!Days) /\ IsFiniteSet(Models)
    /\ MonthStarts \subseteq Report!Days /\ 1 \in MonthStarts
    /\ Lookback \in Nat /\ Lookback >= 1
    /\ MinDays \in Nat /\ MinDays >= 1
    /\ MinMonths \in Nat /\ MinMonths >= 1
    /\ ComparisonDays \in Nat
<1>1. LastDay \in Nat /\ 1 \in MonthStarts /\ MonthStarts \subseteq Report!Days
    BY ReportAssumption DEF Report!ReportAssumption
<1>2. IsFiniteSet(Report!Days)
    BY <1>1, FS_Interval DEF Report!Days
<1>3. \A d \in Int : d \in Report!Days <=> 1 <= d /\ d <= LastDay
    BY <1>1 DEF Report!Days
<1>4. LastDay >= 1 /\ Report!Days \subseteq Nat
    BY <1>1, <1>3 DEF Report!Days
<1>5. {Lookback, MinDays, MinMonths} \subseteq Nat \ {0} /\ ComparisonDays \in Nat
    BY ReportAssumption DEF Report!ReportAssumption
<1>7. IsFiniteSet(Models)
    BY Zenon, ReportAssumption DEF Report!ReportAssumption, Report!IsFiniteSet, IsFiniteSet
<1>6. /\ Lookback \in Nat /\ Lookback >= 1 /\ MinDays \in Nat /\ MinDays >= 1
      /\ MinMonths \in Nat /\ MinMonths >= 1
    BY <1>5
<1> QED
    BY <1>1, <1>2, <1>3, <1>4, <1>5, <1>6, <1>7

(* The tokens of some days, by model. *)
LEMMA ByModelType ==
    ASSUME ReportTypes, NEW D
    PROVE  /\ Report!ByModel(D) \in [Models -> Report!Tokens]
           /\ \A m \in Models : Report!ByModel(D)[m] = Report!SumTokens([d \in Report!Days |-> spent[d][m]], D \intersect Report!Days)
           /\ \A m \in Models : \A d \in D \intersect Report!Days : [e \in Report!Days |-> spent[e][m]][d] \in Report!Tokens
           /\ IsFiniteSet(D \intersect Report!Days)
<1>1. IsFiniteSet(D \intersect Report!Days)
    BY DaysAre, FS_Intersection
<1>2. ASSUME NEW m \in Models
      PROVE  \A d \in D \intersect Report!Days : [e \in Report!Days |-> spent[e][m]][d] \in Report!Tokens
    BY DEF ReportTypes
<1>3. ASSUME NEW m \in Models
      PROVE  Report!SumTokens([d \in Report!Days |-> spent[d][m]], D \intersect Report!Days) \in Report!Tokens
  <2> DEFINE f == [d \in Report!Days |-> spent[d][m]]
  <2>1. \A d \in D \intersect Report!Days : f[d] \in Report!Tokens
      BY <1>2
  <2> HIDE DEF f
  <2>2. Report!SumTokens(f, D \intersect Report!Days) \in Report!Tokens
      BY <1>1, <2>1, SumTokensType
  <2> QED
      BY <2>2 DEF f
<1> QED
    BY <1>1, <1>2, <1>3 DEF Report!ByModel

(* Counts are natural numbers. *)
LEMMA TokensAre == \A t \in Report!Tokens : \A k \in {"in", "write", "short", "long"} : t[k] \in Nat
BY DEF Report!Tokens

(* Days that are added to others add their tokens, *)
LEMMA ByModelUnion ==
    ASSUME ReportTypes, NEW D, NEW E, D \intersect E = {}, NEW m \in Models,
           NEW k \in {"in", "write", "short", "long"}
    PROVE  Report!ByModel(D \union E)[m][k] = Report!ByModel(D)[m][k] + Report!ByModel(E)[m][k]
<1> DEFINE f == [d \in Report!Days |-> spent[d][m]]
           g(S) == [d \in S |-> f[d][k]]
           A == D \intersect Report!Days
           B == E \intersect Report!Days
<1>1. (D \union E) \intersect Report!Days = A \union B
    OBVIOUS
<1>2. /\ Report!ByModel(D)[m][k] = SumFunctionOnSet(g(A), A)
      /\ Report!ByModel(E)[m][k] = SumFunctionOnSet(g(B), B)
      /\ Report!ByModel(D \union E)[m][k] = SumFunctionOnSet(g(A \union B), A \union B)
  <2> HIDE DEF f
  <2>1. \A S : Report!SumTokens(f, S)[k] = SumFunctionOnSet(g(S), S)
      BY SumTokensIs
  <2> QED
      BY <1>1, <2>1, ByModelType DEF f
<1>3. IsFiniteSet(A) /\ IsFiniteSet(B) /\ A \intersect B = {}
    BY ByModelType
<1>4. \A d \in A \union B : g(A \union B)[d] \in Nat
    BY DEF ReportTypes, Report!Tokens
<1>5. SumFunctionOnSet(g(A \union B), A \union B) = SumFunctionOnSet(g(A \union B), A) + SumFunctionOnSet(g(A \union B), B)
  <2> HIDE DEF g, A, B
  <2> QED
      BY <1>3, <1>4, SumUnion
<1>6. /\ SumFunctionOnSet(g(A \union B), A) = SumFunctionOnSet(g(A), A)
      /\ SumFunctionOnSet(g(A \union B), B) = SumFunctionOnSet(g(B), B)
  <2>1. /\ \A d \in A : g(A \union B)[d] = g(A)[d] /\ g(A)[d] \in Int
        /\ \A d \in B : g(A \union B)[d] = g(B)[d] /\ g(B)[d] \in Int
    <3>1. \A d \in A \union B : g(A \union B)[d] = f[d][k]
        BY DEF g
    <3>2. /\ \A d \in A : g(A)[d] = f[d][k]
          /\ \A d \in B : g(B)[d] = f[d][k]
        BY DEF g
    <3> HIDE DEF g
    <3>3. \A d \in A \union B : f[d][k] \in Int
        BY DEF ReportTypes, Report!Tokens
    <3> HIDE DEF f
    <3> QED
        BY <3>1, <3>2, <3>3
  <2> HIDE DEF g, A, B
  <2> QED
      BY <1>3, <2>1, SumEqual
<1> QED
    BY <1>2, <1>5, <1>6

(* and no day has none. *)
LEMMA ByModelNone ==
    ASSUME ReportTypes, NEW m \in Models, NEW k \in {"in", "write", "short", "long"}
    PROVE  Report!ByModel({})[m][k] = 0
<1>1. {} \union {} = {} /\ {} \intersect {} = {}
    OBVIOUS
<1>2. Report!ByModel({})[m][k] = Report!ByModel({})[m][k] + Report!ByModel({})[m][k]
    BY <1>1, ByModelUnion
<1>3. Report!ByModel({})[m][k] \in Nat
  <2>1. Report!ByModel({}) \in [Models -> Report!Tokens]
      BY ByModelType
  <2>2. Report!ByModel({})[m] \in Report!Tokens
      BY <2>1
  <2> QED
      BY <2>2, TokensAre
<1> QED
    BY SMTT(30), <1>2, <1>3

-----------------------------------------------------------------------------
(* All tokens, of every model and kind; and those of some days. *)
TokensOf(by) == Report!Total(Report!AllModels(by))
OfDays(D) == TokensOf(Report!ByModel(D))

(* Of all models and kinds, a natural number. *)
LEMMA TokensOfType ==
    ASSUME NEW by \in [Models -> Report!Tokens]
    PROVE  /\ TokensOf(by) \in Nat
           /\ TokensOf(by) = Report!SumTokens(by, Models)["in"] + Report!SumTokens(by, Models)["write"]
           /\ Report!SumTokens(by, Models)["in"] \in Nat
           /\ Report!SumTokens(by, Models)["write"] \in Nat
<1>1. Report!SumTokens(by, Models) \in Report!Tokens
    BY DaysAre, SumTokensType
<1>2. TokensOf(by) = Report!SumTokens(by, Models)["in"] + Report!SumTokens(by, Models)["write"]
    BY DEF TokensOf, Report!Total, Report!AllModels
<1> QED
    BY <1>1, <1>2, TokensAre

(* It is additive in the tokens of the models, *)
LEMMA TokensOfPlus ==
    ASSUME NEW b \in [Models -> Report!Tokens], NEW c \in [Models -> Report!Tokens],
           NEW by \in [Models -> Report!Tokens],
           \A m \in Models : \A k \in {"in", "write"} : by[m][k] = b[m][k] + c[m][k]
    PROVE  TokensOf(by) = TokensOf(b) + TokensOf(c)
<1>1. \A m \in Models : \A k \in {"in", "write"} : b[m][k] \in Int /\ c[m][k] \in Int
    BY TokensAre
<1>2. \A k \in {"in", "write"} :
        Report!SumTokens(by, Models)[k] = Report!SumTokens(b, Models)[k] + Report!SumTokens(c, Models)[k]
    BY <1>1, DaysAre, SumTokensPlus
<1> QED
    BY <1>2, TokensOfType

(* and so in the days. *)
LEMMA OfDaysUnion ==
    ASSUME ReportTypes, NEW D, NEW E, D \intersect E = {}
    PROVE  /\ OfDays(D) \in Nat /\ OfDays(E) \in Nat
           /\ OfDays(D \union E) = OfDays(D) + OfDays(E)
<1>1. /\ Report!ByModel(D) \in [Models -> Report!Tokens]
      /\ Report!ByModel(E) \in [Models -> Report!Tokens]
      /\ Report!ByModel(D \union E) \in [Models -> Report!Tokens]
    BY ByModelType
<1>2. OfDays(D \union E) = OfDays(D) + OfDays(E)
  <2>1. \A m \in Models : \A k \in {"in", "write"} :
          Report!ByModel(D \union E)[m][k] = Report!ByModel(D)[m][k] + Report!ByModel(E)[m][k]
      BY ByModelUnion
  <2> QED
      BY <1>1, <2>1, TokensOfPlus DEF OfDays
<1> QED
    BY <1>1, <1>2, TokensOfType DEF OfDays

(* No days hold no tokens. *)
LEMMA OfNoDays == ReportTypes => OfDays({}) = 0
<1> SUFFICES ASSUME ReportTypes PROVE OfDays({}) = 0
    OBVIOUS
<1>1. {} \union {} = {} /\ {} \intersect {} = {}
    OBVIOUS
<1>2. OfDays({}) \in Nat /\ OfDays({}) = OfDays({}) + OfDays({})
    BY <1>1, OfDaysUnion
<1> QED
    BY <1>2

-----------------------------------------------------------------------------
(* The module's maximum and minimum. *)
LEMMA MaxOf ==
    ASSUME NEW S, IsFiniteSet(S), S \subseteq Int, S # {}
    PROVE  /\ Report!Max(S) \in S /\ \A y \in S : y <= Report!Max(S)
           /\ Report!Min(S) \in S /\ \A y \in S : y >= Report!Min(S)
<1>1. /\ \E x \in S : \A y \in S : x >= y
      /\ \E x \in S : \A y \in S : x <= y
    BY MaxExists
<1> QED
    BY <1>1 DEF Report!Max, Report!Min

(* The larger of two numbers. *)
LEMMA MaxOfTwo ==
    ASSUME NEW a \in Int, NEW b \in Int
    PROVE  Report!Max({a, b}) = IF a >= b THEN a ELSE b
BY DEF Report!Max

(* The window begins with the first record or with the lookback. *)
LEMMA StartIs ==
    ASSUME ReportTypes, NEW day \in 1 .. LastDay + 1
    PROVE  LET e == Report!EffectiveStart(day)
               v == Report!Visible(day)
           IN /\ e \in Int /\ 1 <= e /\ e <= day
              /\ v = {} => e = day
              /\ v # {} => Report!Min(v) \in Int /\ e >= Report!Min(v)
<1> DEFINE e == Report!EffectiveStart(day)
           v == Report!Visible(day)
<1>1. day \in Int /\ 1 <= day
    BY DaysAre
<1>2. CASE v = {}
    BY <1>1, <1>2 DEF Report!EffectiveStart
<1>3. CASE v # {}
  <2>1. v \subseteq Int /\ IsFiniteSet(v) /\ \A d \in v : 1 <= d /\ d <= day
    <3>1. v \subseteq Report!Days /\ \A d \in v : d <= day
        BY DEF ReportTypes, Report!Visible
    <3> HIDE DEF v
    <3>2. IsFiniteSet(v)
        BY <3>1, DaysAre, FS_Subset
    <3>3. v \subseteq Int /\ \A d \in v : 1 <= d
        BY <3>1, DaysAre
    <3> QED
        BY <3>1, <3>2, <3>3
  <2> HIDE DEF v
  <2>2. Report!Min(v) \in v
      BY <1>3, <2>1, MaxOf
  <2>3. Report!Min(v) \in Int /\ 1 <= Report!Min(v) /\ Report!Min(v) <= day
      BY <2>1, <2>2
  <2>4. e = Report!Max({day - Lookback + 1, Report!Min(v)})
      BY <1>3 DEF Report!EffectiveStart, v
  <2>5. day - Lookback + 1 \in Int
      BY <1>1, DaysAre
  <2>6. e = IF day - Lookback + 1 >= Report!Min(v) THEN day - Lookback + 1 ELSE Report!Min(v)
      BY <2>3, <2>4, <2>5, MaxOfTwo
  <2>7. e \in Int /\ 1 <= e /\ e <= day /\ e >= Report!Min(v)
    <3> HIDE DEF e
    <3> QED
        BY <1>1, <2>3, <2>6, DaysAre
  <2> HIDE DEF e
  <2>8. /\ e \in Int /\ 1 <= e /\ e <= day
        /\ v = {} => e = day
        /\ v # {} => Report!Min(v) \in Int /\ e >= Report!Min(v)
      BY <1>3, <2>3, <2>7
  <2> QED
      BY <2>8 DEF e, v
<1> QED
    BY <1>2, <1>3

(* The days that THIS is compared with lie in the window. *)
LEMMA DailyStartIs ==
    ASSUME ReportTypes, NEW day \in 1 .. LastDay + 1
    PROVE  LET s == Report!DailyStart(day)
           IN s \in Int /\ Report!EffectiveStart(day) <= s /\ s <= day
<1> DEFINE e == Report!EffectiveStart(day)
           s == Report!DailyStart(day)
<1>1. e \in Int /\ e <= day /\ day \in Int
    BY StartIs, DaysAre
<1> HIDE DEF e
<1>2. CASE ComparisonDays = 0
    BY <1>1, <1>2 DEF Report!DailyStart, e
<1>3. CASE ComparisonDays # 0
  <2>1. s = Report!Max({e, day - ComparisonDays})
      BY <1>3 DEF Report!DailyStart, e
  <2>2. day - ComparisonDays \in Int /\ day - ComparisonDays <= day
      BY <1>1, DaysAre
  <2>3. s = IF e >= day - ComparisonDays THEN e ELSE day - ComparisonDays
      BY <1>1, <2>1, <2>2, MaxOfTwo
  <2> QED
      BY <1>1, <2>2, <2>3 DEF e
<1> QED
    BY <1>2, <1>3 DEF e

-----------------------------------------------------------------------------
(* The month of a day is the last that began before it or on it. *)
LEMMA MonthIs ==
    ASSUME NEW d \in Int, 1 <= d
    PROVE  LET s == Report!MonthOf(d)
           IN /\ s \in MonthStarts /\ s \in Int /\ 1 <= s /\ s <= d /\ s <= LastDay
              /\ \A t \in MonthStarts : t <= d => t <= s
<1> DEFINE S == {s \in MonthStarts : s <= d}
<1>1. S \subseteq Report!Days /\ 1 \in S
    BY DaysAre
<1>2. S \subseteq Int /\ IsFiniteSet(S) /\ \A x \in S : 1 <= x /\ x <= LastDay /\ x <= d /\ x \in MonthStarts
  <2>1. \A x \in S : x <= d /\ x \in MonthStarts
      OBVIOUS
  <2> HIDE DEF S
  <2>2. IsFiniteSet(S)
      BY <1>1, DaysAre, FS_Subset
  <2>3. \A x \in S : x \in Int /\ 1 <= x /\ x <= LastDay
      BY <1>1, DaysAre
  <2> QED
      BY <2>1, <2>2, <2>3
<1>3. Report!MonthOf(d) = Report!Max(S)
    BY DEF Report!MonthOf
<1>4. Report!Max(S) \in S /\ \A y \in S : y <= Report!Max(S)
  <2> HIDE DEF S
  <2> QED
      BY <1>1, <1>2, MaxOf
<1> QED
    BY <1>2, <1>3, <1>4

(* The month after it is the first that begins later. *)
LEMMA NextMonthIs ==
    ASSUME NEW s \in Report!Days
    PROVE  LET n == Report!NextMonth(s)
           IN /\ n \in Int /\ s < n /\ n <= LastDay + 1
              /\ n \in MonthStarts \union {LastDay + 1}
              /\ \A t \in MonthStarts : s < t => n <= t
<1> DEFINE S == {t \in MonthStarts \union {LastDay + 1} : t > s}
<1>1. /\ s \in Int /\ s <= LastDay /\ LastDay \in Int
      /\ MonthStarts \subseteq Int /\ \A t \in MonthStarts : t <= LastDay
    BY DaysAre
<1>2. LastDay + 1 \in S /\ S \subseteq Int /\ \A t \in S : t <= LastDay + 1
  <2>1. LastDay + 1 \in S
      BY <1>1
  <2>2. \A t \in S : t \in Int /\ t <= LastDay + 1
    <3>1. \A t \in MonthStarts \union {LastDay + 1} : t \in Int /\ t <= LastDay + 1
        BY <1>1
    <3> QED
        BY <3>1
  <2> HIDE DEF S
  <2> QED
      BY <2>1, <2>2
<1>3. IsFiniteSet(S)
  <2>1. IsFiniteSet(MonthStarts)
      BY DaysAre, FS_Subset
  <2>2. IsFiniteSet(MonthStarts \union {LastDay + 1})
      BY <2>1, FS_AddElement
  <2> QED
      BY <2>2, FS_Subset
<1>4. Report!NextMonth(s) = Report!Min(S)
    BY DEF Report!NextMonth
<1>5. Report!Min(S) \in S /\ \A y \in S : y >= Report!Min(S)
  <2> HIDE DEF S
  <2> QED
      BY <1>2, <1>3, MaxOf
<1> QED
    BY <1>1, <1>2, <1>4, <1>5

(* A day lies in its month. *)
LEMMA InMonth ==
    ASSUME NEW d \in Report!Days
    PROVE  d < Report!NextMonth(Report!MonthOf(d))
<1>1. d \in Int /\ 1 <= d /\ d <= LastDay /\ LastDay \in Int
    BY DaysAre
<1>2. Report!MonthOf(d) \in Report!Days
    BY <1>1, MonthIs, DaysAre
<1> QED
    BY <1>1, <1>2, MonthIs, NextMonthIs

(* The months between two firsts of a month are all the days between them. *)
LEMMA MonthsAre ==
    ASSUME NEW a \in MonthStarts, NEW c \in MonthStarts
    PROVE  UNION {s .. Report!NextMonth(s) - 1 : s \in {x \in MonthStarts : x < c /\ x >= a}} = a .. c - 1
<1>1. /\ \A s \in MonthStarts : s \in Report!Days /\ s \in Int
      /\ a \in Int /\ c \in Int /\ 1 <= a /\ c <= LastDay /\ LastDay \in Int
    BY DaysAre
<1>2. ASSUME NEW s \in MonthStarts, s < c, s >= a, NEW d \in s .. Report!NextMonth(s) - 1
      PROVE  d \in a .. c - 1
  <2>1. Report!NextMonth(s) \in Int /\ Report!NextMonth(s) <= c
      BY <1>1, <1>2, NextMonthIs
  <2> QED
      BY <1>1, <1>2, <2>1
<1>3. ASSUME NEW d \in a .. c - 1
      PROVE  \E s \in MonthStarts : s < c /\ s >= a /\ d \in s .. Report!NextMonth(s) - 1
  <2>1. d \in Int /\ 1 <= d /\ d <= LastDay /\ a <= d /\ d < c
      BY <1>1
  <2>2. d \in Report!Days
      BY <2>1, DaysAre
  <2> DEFINE s == Report!MonthOf(d)
  <2>3. s \in MonthStarts /\ s \in Int /\ s <= d /\ a <= s
      BY <2>1, MonthIs
  <2>4. d < Report!NextMonth(s) /\ Report!NextMonth(s) \in Int
      BY <1>1, <2>2, <2>3, InMonth, NextMonthIs
  <2> HIDE DEF s
  <2>5. s < c /\ d \in s .. Report!NextMonth(s) - 1
      BY <1>1, <2>1, <2>3, <2>4
  <2> QED
      BY <2>3, <2>5
<1> QED
    BY <1>2, <1>3

-----------------------------------------------------------------------------
(* Where the months of a day's report lie. *)
LEMMA MonthsOfDay ==
    ASSUME ReportTypes, NEW day \in 1 .. LastDay + 1
    PROVE  LET e == Report!EffectiveStart(day)
               f == Report!FirstMonth(day)
               c == Report!CurrentMonth(day)
               n == Report!NextMonth(f)
           IN /\ day \in Int /\ 1 <= day
              /\ e \in Int /\ 1 <= e /\ e <= day
              /\ f \in MonthStarts /\ f \in Int /\ 1 <= f /\ f <= e
              /\ c \in MonthStarts /\ c \in Int /\ c <= day /\ f <= c
              /\ n \in Int /\ f < n
              /\ f < c => e < n /\ n <= c /\ n \in MonthStarts
<1> DEFINE e == Report!EffectiveStart(day)
           f == Report!FirstMonth(day)
           c == Report!CurrentMonth(day)
           n == Report!NextMonth(f)
<1>1. day \in Int /\ 1 <= day /\ day <= LastDay + 1 /\ LastDay \in Int
    BY DaysAre
<1>2. e \in Int /\ 1 <= e /\ e <= day
    BY StartIs
<1> HIDE DEF e
<1>3. f \in MonthStarts /\ f \in Int /\ 1 <= f /\ f <= e /\ f <= LastDay
    BY <1>2, MonthIs DEF Report!FirstMonth, e
<1>4. c \in MonthStarts /\ c \in Int /\ c <= day /\ c <= LastDay /\ \A t \in MonthStarts : t <= day => t <= c
    BY <1>1, MonthIs DEF Report!CurrentMonth
<1>5. f <= c
    BY <1>1, <1>2, <1>3, <1>4
<1>6. f \in Report!Days
    BY <1>3, DaysAre
<1>7. /\ n \in Int /\ f < n /\ n \in MonthStarts \union {LastDay + 1}
      /\ \A t \in MonthStarts : f < t => n <= t
    BY <1>6, NextMonthIs
<1>8. ASSUME f < c
      PROVE  e < n /\ n <= c /\ n \in MonthStarts
  <2>1. n <= c /\ n \in MonthStarts
      BY <1>1, <1>4, <1>7, <1>8
  <2>2. e <= LastDay
    <3>1. CASE e = day
      <4>1. f = c
          BY <3>1 DEF Report!FirstMonth, Report!CurrentMonth, e
      <4> QED
          BY <1>3, <1>8, <4>1
    <3>2. CASE e # day
        BY <1>1, <1>2, <3>2
    <3> QED
        BY <3>1, <3>2
  <2>3. e \in Report!Days
      BY <1>2, <2>2, DaysAre
  <2>4. e < n
      BY <2>3, InMonth DEF Report!FirstMonth, e
  <2> QED
      BY <2>1, <2>4
<1> HIDE DEF f, c, n
<1>9. /\ day \in Int /\ 1 <= day
      /\ e \in Int /\ 1 <= e /\ e <= day
      /\ f \in MonthStarts /\ f \in Int /\ 1 <= f /\ f <= e
      /\ c \in MonthStarts /\ c \in Int /\ c <= day /\ f <= c
      /\ n \in Int /\ f < n
      /\ f < c => e < n /\ n <= c /\ n \in MonthStarts
    BY <1>1, <1>2, <1>3, <1>4, <1>5, <1>7, <1>8
<1> QED
    BY <1>9 DEF e, f, c, n

(* Rounded to the nearest. *)
LEMMA HalfUpIs ==
    ASSUME NEW n \in Nat, NEW d \in Nat, 1 <= d
    PROVE  LET h == Report!HalfUp(n, d)
           IN h \in Nat /\ 2 * (d * h) <= 2 * n + d /\ 2 * n < 2 * (d * h) + d
<1> DEFINE h == Report!HalfUp(n, d)
           a == 2 * n + d
           b == 2 * d
<1>1. a \in Nat /\ b \in Nat /\ b > 0
    OBVIOUS
<1>2. h = a \div b
    BY DEF Report!HalfUp
<1> HIDE DEF a, b
<1>3. (a \div b) \in Nat /\ b * (a \div b) <= a /\ a < b * (a \div b) + b
    BY <1>1
<1> HIDE DEF h
<1>4. b * h <= a /\ a < b * h + b /\ h \in Nat
    BY <1>2, <1>3
<1>5. b * h = 2 * (d * h)
    BY <1>4 DEF b
<1> QED
    BY <1>4, <1>5 DEF a, b, h

(* The prorated tokens, kind by kind. *)
LEMMA ScaleIs ==
    ASSUME NEW t \in Report!Tokens, NEW l \in Nat, NEW o \in Nat, 1 <= o
    PROVE  LET e == Report!Scale(t, l, o)
               h(k) == Report!HalfUp(t[k] * l, o)
           IN /\ e \in Report!Tokens
              /\ \A k \in {"in", "short", "long"} : e[k] = h(k)
              /\ e["write"] = IF h("write") >= h("short") + h("long") THEN h("write") ELSE h("short") + h("long")
              /\ \A k \in {"in", "write", "short", "long"} : h(k) \in Nat
<1> DEFINE r == [k \in DOMAIN t |-> Report!HalfUp(t[k] * l, o)]
<1>1. \A k \in {"in", "write", "short", "long"} : t[k] \in Nat /\ t[k] * l \in Nat
    BY DEF Report!Tokens
<1>2. \A k \in {"in", "write", "short", "long"} : Report!HalfUp(t[k] * l, o) \in Nat
    BY <1>1, HalfUpIs
<1>3. DOMAIN t = {"in", "write", "short", "long"}
    BY DEF Report!Tokens
<1>4. /\ r \in [{"in", "write", "short", "long"} -> Nat]
      /\ \A k \in {"in", "write", "short", "long"} : r[k] = Report!HalfUp(t[k] * l, o)
    BY <1>2, <1>3
<1>5. Report!Scale(t, l, o) = Report!Clean(r)
    BY DEF Report!Scale
<1> HIDE DEF r
<1>6. /\ Report!Clean(r) \in Report!Tokens
      /\ \A k \in {"in", "short", "long"} : Report!Clean(r)[k] = r[k]
      /\ Report!Clean(r)["write"] = Report!Max({r["write"], r["short"] + r["long"]})
    BY <1>4, CleanIs
<1>7. Report!Clean(r)["write"] = IF r["write"] >= r["short"] + r["long"] THEN r["write"] ELSE r["short"] + r["long"]
    BY <1>4, <1>6, MaxOfTwo
<1> QED
    BY <1>2, <1>4, <1>5, <1>6, <1>7

(* The partial first month of a report. *)
LEMMA PartialIs ==
    ASSUME ReportTypes, NEW day \in 1 .. LastDay + 1, Report!HasPartial(day)
    PROVE  LET e == Report!EffectiveStart(day)
               f == Report!FirstMonth(day)
               n == Report!NextMonth(f)
               p == Report!PartialDays(day)
           IN /\ f < e /\ f < Report!CurrentMonth(day)
              /\ p = e .. n - 1
              /\ Cardinality(p) = n - e /\ n - e \in Nat /\ 1 <= n - e /\ n - f \in Nat
              /\ \A m \in Models : Report!Estimate(p)[m] = Report!Scale(Report!ByModel(p)[m], n - f, n - e)
              /\ Report!Estimate(p) \in [Models -> Report!Tokens]
<1> DEFINE e == Report!EffectiveStart(day)
           f == Report!FirstMonth(day)
           n == Report!NextMonth(f)
           p == Report!PartialDays(day)
<1>1. f < e /\ f < Report!CurrentMonth(day)
    BY MonthsOfDay DEF Report!HasPartial
<1>2. e \in Int /\ f \in Int /\ n \in Int /\ e < n
    BY <1>1, MonthsOfDay
<1>3. p = e .. n - 1
    BY DEF Report!PartialDays
<1>4. Cardinality(p) = n - e /\ IsFiniteSet(p)
  <2> HIDE DEF e, f, n, p
  <2>1. n - 1 \in Int /\ ~(e > n - 1)
      BY <1>2
  <2>2. /\ IsFiniteSet(e .. n - 1)
        /\ Cardinality(e .. n - 1) = (n - 1) - e + 1
      BY <1>2, <2>1, FS_Interval
  <2> QED
      BY <1>2, <1>3, <2>2
<1>5. Report!Min(p) = e
  <2> HIDE DEF e, f, n, p
  <2>1. p \subseteq Int /\ e \in p /\ \A x \in p : e <= x
      BY <1>2, <1>3
  <2>2. Report!Min(p) \in p /\ \A y \in p : y >= Report!Min(p)
      BY <1>4, <2>1, MaxOf
  <2>3. Report!Min(p) \in Int /\ e >= Report!Min(p) /\ e <= Report!Min(p)
      BY <2>1, <2>2
  <2> QED
      BY <1>2, <2>3
<1>6. Report!Cardinality(p) = Cardinality(p)
    BY Zenon DEF Report!Cardinality, Cardinality
<1>7. Report!Estimate(p) = [m \in Models |-> Report!Scale(Report!ByModel(p)[m], n - f, n - e)]
    BY <1>4, <1>5, <1>6 DEF Report!Estimate, Report!FirstMonth
<1> HIDE DEF e, f, n, p
<1>8. n - e \in Nat /\ 1 <= n - e /\ n - f \in Nat
    BY <1>1, <1>2 DEF e, f
<1>9. \A m \in Models : Report!Scale(Report!ByModel(p)[m], n - f, n - e) \in Report!Tokens
    BY <1>8, ByModelType, ScaleIs
<1>10. /\ f < e /\ f < Report!CurrentMonth(day)
       /\ p = e .. n - 1
       /\ Cardinality(p) = n - e /\ n - e \in Nat /\ 1 <= n - e /\ n - f \in Nat
       /\ \A m \in Models : Report!Estimate(p)[m] = Report!Scale(Report!ByModel(p)[m], n - f, n - e)
       /\ Report!Estimate(p) \in [Models -> Report!Tokens]
    BY <1>1, <1>3, <1>4, <1>7, <1>8, <1>9 DEF e, f
<1> QED
    BY <1>10 DEF e, f, n, p

(* The tokens of the days from x to y, and the same in two parts. *)
LEMMA OfDaysOf ==
    ASSUME ReportTypes
    PROVE  \A x, y \in Int : /\ OfDays(x .. y) \in Nat
                             /\ x > y => OfDays(x .. y) = 0
                             /\ \A z \in Int : x <= z /\ z <= y + 1 =>
                                   OfDays(x .. y) = OfDays(x .. z - 1) + OfDays(z .. y)
<1> SUFFICES ASSUME NEW x \in Int, NEW y \in Int
             PROVE  /\ OfDays(x .. y) \in Nat
                    /\ x > y => OfDays(x .. y) = 0
                    /\ \A z \in Int : x <= z /\ z <= y + 1 =>
                          OfDays(x .. y) = OfDays(x .. z - 1) + OfDays(z .. y)
    OBVIOUS
<1>1. OfDays(x .. y) \in Nat
  <2>1. (x .. y) \intersect {} = {}
      OBVIOUS
  <2> QED
      BY <2>1, OfDaysUnion
<1>2. x > y => OfDays(x .. y) = 0
  <2>1. x > y => x .. y = {}
      OBVIOUS
  <2> QED
      BY <2>1, OfNoDays
<1>3. ASSUME NEW z \in Int, x <= z, z <= y + 1
      PROVE  OfDays(x .. y) = OfDays(x .. z - 1) + OfDays(z .. y)
  <2>1. (x .. z - 1) \union (z .. y) = x .. y /\ (x .. z - 1) \intersect (z .. y) = {}
      BY <1>3
  <2> QED
      BY <2>1, OfDaysUnion
<1> QED
    BY <1>1, <1>2, <1>3

-----------------------------------------------------------------------------
(* The module's cardinality is the usual one. *)
LEMMA CardinalityIs == \A S : Report!Cardinality(S) = Cardinality(S)
BY Zenon DEF Report!Cardinality, Cardinality

(* The comparison of the days, in tokens of days, *)
LEMMA DailyIs ==
    ASSUME NEW day
    PROVE  LET c == Report!Daily(day)
           IN /\ c.this = OfDays({day})
              /\ c.history = OfDays(Report!DailyStart(day) .. day - 1)
              /\ c.periods = day - Report!DailyStart(day)
BY DEF Report!Daily, Report!Comparison, OfDays, TokensOf, Report!DailyHistory

(* and of the months. *)
LEMMA MonthlyAre ==
    ASSUME NEW day
    PROVE  LET c == Report!Monthly(day)
           IN /\ c.this = OfDays(Report!Max({Report!CurrentMonth(day), Report!EffectiveStart(day)}) .. day)
              /\ c.history = TokensOf(Report!MonthlyHistory(day))
              /\ c.periods = Cardinality(Report!Complete(day)) + (IF Report!HasPartial(day) THEN 1 ELSE 0)
BY CardinalityIs DEF Report!Monthly, Report!Comparison, OfDays, TokensOf

(* The months before this one, with the estimate of the partial one. *)
LEMMA MonthlyWithPartial ==
    ASSUME ReportTypes, NEW day \in 1 .. LastDay + 1, Report!HasPartial(day)
    PROVE  LET e == Report!EffectiveStart(day)
               n == Report!NextMonth(Report!FirstMonth(day))
               c == Report!CurrentMonth(day)
               p == Report!PartialDays(day)
           IN /\ Report!Monthly(day).this = OfDays(c .. day)
              /\ Report!Monthly(day).history = TokensOf(Report!Estimate(p)) + OfDays(n .. c - 1)
              /\ TokensOf(Report!Estimate(p)) \in Nat
              /\ Report!Monthly(day).periods = Cardinality({x \in MonthStarts : x < c /\ x >= n}) + 1
<1> DEFINE e == Report!EffectiveStart(day)
           f == Report!FirstMonth(day)
           n == Report!NextMonth(f)
           c == Report!CurrentMonth(day)
           p == Report!PartialDays(day)
<1>1. f < e /\ f < c /\ Report!Estimate(p) \in [Models -> Report!Tokens]
    BY PartialIs
<1>2. e \in Int /\ c \in Int /\ c \in MonthStarts /\ n \in Int /\ n \in MonthStarts /\ e < n /\ n <= c
    BY <1>1, MonthsOfDay
<1>3. Report!Complete(day) = {x \in MonthStarts : x < c /\ x >= n}
    BY DEF Report!Complete
<1>4. UNION {s .. Report!NextMonth(s) - 1 : s \in Report!Complete(day)} = n .. c - 1
    BY <1>2, <1>3, MonthsAre
<1> DEFINE whole == Report!ByModel(n .. c - 1)
<1>5. Report!MonthlyHistory(day) = [m \in Models |-> Report!Plus(Report!Estimate(p)[m], whole[m])]
    BY <1>4 DEF Report!MonthlyHistory
<1>6. whole \in [Models -> Report!Tokens]
    BY ByModelType
<1>7. Report!Max({c, e}) = c
  <2> HIDE DEF c, e, n
  <2> QED
      BY <1>2, MaxOfTwo
<1>8. TokensOf(Report!MonthlyHistory(day)) = TokensOf(Report!Estimate(p)) + TokensOf(whole)
  <2> DEFINE h == [m \in Models |-> Report!Plus(Report!Estimate(p)[m], whole[m])]
             q == Report!Estimate(p)
  <2> HIDE DEF p, whole, q
  <2>1. \A m \in Models : /\ h[m] \in Report!Tokens
                          /\ \A k \in {"in", "write"} : h[m][k] = q[m][k] + whole[m][k]
      BY <1>1, <1>6, PlusIs DEF q
  <2>2. h \in [Models -> Report!Tokens]
      BY <2>1
  <2> HIDE DEF h
  <2>3. TokensOf(h) = TokensOf(q) + TokensOf(whole)
      BY <1>1, <1>6, <2>1, <2>2, TokensOfPlus DEF q
  <2> QED
      BY <1>5, <2>3 DEF q, h
<1>9. TokensOf(Report!Estimate(p)) \in Nat
    BY <1>1, TokensOfType
<1> QED
    BY <1>3, <1>7, <1>8, <1>9, MonthlyAre DEF OfDays

(* The same where the window begins with a month, or in this one. *)
LEMMA MonthlyWithout ==
    ASSUME ReportTypes, NEW day \in 1 .. LastDay + 1, ~Report!HasPartial(day)
    PROVE  LET e == Report!EffectiveStart(day)
               f == Report!FirstMonth(day)
               c == Report!CurrentMonth(day)
           IN /\ f < c => e = f
              /\ Report!Monthly(day).this = OfDays((IF f < c THEN c ELSE e) .. day)
              /\ Report!Monthly(day).history = OfDays(f .. c - 1)
              /\ Report!Monthly(day).periods = Cardinality({x \in MonthStarts : x < c /\ x >= f})
<1> DEFINE e == Report!EffectiveStart(day)
           f == Report!FirstMonth(day)
           c == Report!CurrentMonth(day)
<1>1. f \in Int /\ e \in Int /\ c \in Int /\ f <= e /\ f <= c /\ f \in MonthStarts /\ c \in MonthStarts
    BY MonthsOfDay
<1>2. f < c => e = f
    BY <1>1 DEF Report!HasPartial
<1>3. Report!Complete(day) = {x \in MonthStarts : x < c /\ x >= f}
    BY DEF Report!Complete
<1>4. UNION {s .. Report!NextMonth(s) - 1 : s \in Report!Complete(day)} = f .. c - 1
    BY <1>1, <1>3, MonthsAre
<1>5. Report!MonthlyHistory(day) = Report!ByModel(f .. c - 1)
    BY <1>4 DEF Report!MonthlyHistory
<1>6. Report!Max({c, e}) = IF f < c THEN c ELSE e
  <2> HIDE DEF c, e, f
  <2> QED
      BY <1>1, <1>2, MaxOfTwo
<1>7. Cardinality(Report!Complete(day)) + 0 = Cardinality(Report!Complete(day))
  <2>1. IsFiniteSet(Report!Complete(day))
      BY DaysAre, FS_Subset DEF Report!Complete
  <2> QED
      BY <2>1, FS_CardinalityType
<1> QED
    BY <1>2, <1>3, <1>5, <1>6, <1>7, MonthlyAre DEF OfDays

-----------------------------------------------------------------------------
(* THIS, AVG and what lies outside of both are the window. *)
LEMMA NothingLost == ReportTypes => Report!NothingLostNothingInvented
<1> SUFFICES ASSUME ReportTypes
             PROVE  Report!NothingLostNothingInvented
    OBVIOUS
<1> DEFINE e == Report!EffectiveStart(today)
           d == Report!DailyStart(today)
           f == Report!FirstMonth(today)
           c == Report!CurrentMonth(today)
           n == Report!NextMonth(f)
           outside == IF d = e THEN 0 ELSE OfDays(e .. d - 1)
           estimated == IF Report!HasPartial(today) THEN TokensOf(Report!Estimate(Report!PartialDays(today))) ELSE 0
           replaced == IF Report!HasPartial(today) THEN OfDays(Report!PartialDays(today)) ELSE 0
<1>1. today \in Int /\ today \in 1 .. LastDay + 1
    BY DaysAre DEF ReportTypes
<1>2. /\ e \in Int /\ d \in Int /\ 1 <= e /\ e <= d /\ d <= today
      /\ f \in Int /\ c \in Int /\ n \in Int /\ f <= e /\ c <= today /\ f <= c /\ f < n
      /\ f < c => e < n /\ n <= c
    BY <1>1, StartIs, DailyStartIs, MonthsOfDay
<1>3. Report!WindowTotal(today) = OfDays(e .. today)
    BY DEF Report!WindowTotal, Report!Window, OfDays, TokensOf
<1>4. /\ \A x, y \in Int : OfDays(x .. y) \in Nat
      /\ \A x, y \in Int : x > y => OfDays(x .. y) = 0
      /\ \A x, y, z \in Int : x <= z /\ z <= y + 1 =>
                  OfDays(x .. y) = OfDays(x .. z - 1) + OfDays(z .. y)
    BY OfDaysOf
<1>10. today - 1 \in Int /\ d - 1 \in Int /\ c - 1 \in Int /\ n - 1 \in Int
  <2> HIDE DEF d, c, n
  <2> QED
      BY <1>1, <1>2
<1>5. OfDays({today}) = OfDays(today .. today)
  <2>1. today .. today = {today}
      BY <1>1
  <2> QED
      BY <2>1
<1>6. Report!Daily(today).this + Report!Daily(today).history + outside = Report!WindowTotal(today)
  <2>1. /\ Report!Daily(today).this = OfDays(today .. today)
        /\ Report!Daily(today).history = OfDays(d .. today - 1)
      BY <1>5, DailyIs
  <2> HIDE DEF e, d
  <2>2. OfDays(e .. today) = OfDays(e .. today - 1) + OfDays(today .. today)
    <3>1. e <= today /\ today <= today + 1
        BY <1>1, <1>2
    <3> QED
        BY <1>1, <1>2, <1>4, <3>1
  <2>3. OfDays(e .. today - 1) = OfDays(e .. d - 1) + OfDays(d .. today - 1)
      BY <1>1, <1>2, <1>4
  <2>4. d = e => OfDays(e .. d - 1) = 0
      BY <1>2, <1>4
  <2>5. /\ OfDays(e .. today - 1) \in Nat /\ OfDays(today .. today) \in Nat
        /\ OfDays(e .. d - 1) \in Nat /\ OfDays(d .. today - 1) \in Nat
      BY <1>1, <1>2, <1>4, <1>10
  <2> QED
      BY <1>3, <2>1, <2>2, <2>3, <2>4, <2>5 DEF e
<1>7. Report!Monthly(today).this + Report!Monthly(today).history - estimated + replaced = Report!WindowTotal(today)
  <2>1. CASE Report!HasPartial(today)
    <3>1. /\ Report!Monthly(today).this = OfDays(c .. today)
          /\ Report!Monthly(today).history = estimated + OfDays(n .. c - 1)
          /\ estimated \in Nat
          /\ replaced = OfDays(e .. n - 1)
          /\ f < c
        BY <1>1, <2>1, MonthlyWithPartial, PartialIs
    <3> HIDE DEF e, d, f, n, c, estimated, replaced
    <3>2. /\ OfDays(e .. today) = OfDays(e .. c - 1) + OfDays(c .. today)
          /\ OfDays(e .. c - 1) = OfDays(e .. n - 1) + OfDays(n .. c - 1)
        BY <1>1, <1>2, <1>4, <3>1
    <3>3. /\ OfDays(e .. c - 1) \in Nat /\ OfDays(c .. today) \in Nat
          /\ OfDays(e .. n - 1) \in Nat /\ OfDays(n .. c - 1) \in Nat
        BY <1>1, <1>2, <1>4, <1>10
    <3> QED
        BY <1>3, <3>1, <3>2, <3>3 DEF e
  <2>2. CASE ~Report!HasPartial(today)
    <3>1. /\ f < c => e = f
          /\ Report!Monthly(today).this = OfDays((IF f < c THEN c ELSE e) .. today)
          /\ Report!Monthly(today).history = OfDays(f .. c - 1)
          /\ estimated = 0 /\ replaced = 0
        BY <1>1, <2>2, MonthlyWithout
    <3> HIDE DEF e, d, f, n, c, estimated, replaced
    <3>2. f < c => OfDays(e .. today) = OfDays(e .. c - 1) + OfDays(c .. today)
        BY <1>1, <1>2, <1>4, <3>1
    <3>3. ~(f < c) => OfDays(f .. c - 1) = 0
        BY <1>2, <1>4
    <3>4. /\ OfDays(e .. c - 1) \in Nat /\ OfDays(c .. today) \in Nat
          /\ OfDays(e .. today) \in Nat /\ OfDays(f .. c - 1) \in Nat
        BY <1>1, <1>2, <1>4, <1>10
    <3> QED
        BY <1>3, <3>1, <3>2, <3>3, <3>4 DEF e
  <2> QED
      BY <2>1, <2>2
<1>8. IF Report!Visible(today) = {} THEN Report!Daily(today).periods = 0 /\ Report!Monthly(today).periods = 0
      ELSE Report!Daily(today).periods <= today - Report!Min(Report!Visible(today))
  <2>1. Report!Daily(today).periods = today - d
      BY DailyIs
  <2>2. CASE Report!Visible(today) = {}
    <3>1. e = today
        BY <1>1, <2>2, StartIs
    <3>2. c = f
        BY <3>1 DEF Report!CurrentMonth, Report!FirstMonth
    <3>3. ~Report!HasPartial(today)
        BY <1>2, <3>2 DEF Report!HasPartial
    <3>4. Report!Monthly(today).periods = Cardinality({x \in MonthStarts : x < c /\ x >= f})
        BY <1>1, <3>3, MonthlyWithout
    <3> HIDE DEF c, f, e
    <3>5. {x \in MonthStarts : x < c /\ x >= f} = {}
      <4>1. \A x \in MonthStarts : x \in Int
          BY DaysAre
      <4> QED
          BY <1>2, <3>2, <4>1
    <3> QED
        BY <1>1, <1>2, <2>1, <2>2, <3>1, <3>4, <3>5, FS_EmptySet
  <2>3. CASE Report!Visible(today) # {}
    <3>1. Report!Min(Report!Visible(today)) \in Int /\ e >= Report!Min(Report!Visible(today))
        BY <1>1, <2>3, StartIs
    <3> HIDE DEF e, d
    <3> QED
        BY <1>1, <1>2, <2>1, <2>3, <3>1
  <2> QED
      BY <2>2, <2>3
<1>9. /\ outside = IF d = e THEN 0 ELSE Report!Total(Report!AllModels(Report!ByModel(e .. d - 1)))
      /\ estimated = IF Report!HasPartial(today) THEN Report!Total(Report!AllModels(Report!Estimate(Report!PartialDays(today)))) ELSE 0
      /\ replaced = IF Report!HasPartial(today) THEN Report!Total(Report!AllModels(Report!ByModel(Report!PartialDays(today)))) ELSE 0
    BY DEF OfDays, TokensOf
<1> QED
    BY <1>6, <1>7, <1>8, <1>9 DEF Report!NothingLostNothingInvented

-----------------------------------------------------------------------------
(* 1, 1.5, 2 and 3 times. *)
Thresholds == {<<1, 1>>, <<3, 2>>, <<2, 1>>, <<3, 1>>}

(* How many of the thresholds n reaches, against h. *)
LEMMA ReachedAre ==
    ASSUME NEW n \in Nat, NEW h \in Nat, NEW R, R \subseteq Thresholds,
           <<1, 1>> \in R <=> n >= h,
           <<3, 2>> \in R <=> 2 * n >= 3 * h,
           <<2, 1>> \in R <=> n >= 2 * h,
           <<3, 1>> \in R <=> n >= 3 * h
    PROVE  /\ h > 0 => Cardinality(R) = Report!Classify(n, h)
           /\ h = 0 => Cardinality(R) = 4
<1>1. /\ IsFiniteSet({}) /\ Cardinality({}) = 0
      /\ IsFiniteSet({<<1, 1>>}) /\ Cardinality({<<1, 1>>}) = 1
    BY FS_EmptySet, FS_Singleton
<1> DEFINE two == {<<1, 1>>} \union {<<3, 2>>}
           three == two \union {<<2, 1>>}
           four == three \union {<<3, 1>>}
<1>2. /\ <<3, 2>> \notin {<<1, 1>>} /\ <<2, 1>> \notin two /\ <<3, 1>> \notin three
    OBVIOUS
<1>3. IsFiniteSet(two) /\ Cardinality(two) = 2
  <2> DEFINE one == {<<1, 1>>}
  <2>1. IsFiniteSet(one) /\ Cardinality(one) = 1 /\ <<3, 2>> \notin one
      BY <1>1, <1>2
  <2> HIDE DEF one
  <2>2. IsFiniteSet(one \union {<<3, 2>>}) /\ Cardinality(one \union {<<3, 2>>}) = 2
      BY <2>1, FS_AddElement
  <2> QED
      BY <2>2 DEF one
<1>4. IsFiniteSet(three) /\ Cardinality(three) = 3
  <2> HIDE DEF two
  <2> QED
      BY <1>2, <1>3, FS_AddElement
<1>5. Cardinality(four) = 4
  <2> HIDE DEF three
  <2> QED
      BY SMTT(30), <1>2, <1>4, FS_AddElement
<1>6. CASE h = 0
  <2>1. R = four
      BY <1>6 DEF Thresholds
  <2> QED
      BY <1>5, <1>6, <2>1
<1>7. CASE h > 0 /\ n < h
  <2>1. R = {}
      BY <1>7 DEF Thresholds
  <2> QED
      BY <1>1, <1>7, <2>1 DEF Report!Classify
<1>8. CASE h > 0 /\ ~(n < h) /\ n * 2 < h * 3
  <2>1. R = {<<1, 1>>}
      BY <1>8 DEF Thresholds
  <2> QED
      BY <1>1, <1>8, <2>1 DEF Report!Classify
<1>9. CASE h > 0 /\ ~(n < h) /\ ~(n * 2 < h * 3) /\ n < h * 2
  <2>1. R = two
      BY <1>9 DEF Thresholds
  <2> QED
      BY <1>3, <1>9, <2>1 DEF Report!Classify
<1>10. CASE h > 0 /\ ~(n < h) /\ ~(n * 2 < h * 3) /\ ~(n < h * 2) /\ n < h * 3
  <2>1. R = three
      BY <1>10 DEF Thresholds
  <2> QED
      BY <1>4, <1>10, <2>1 DEF Report!Classify
<1>11. CASE h > 0 /\ ~(n < h) /\ ~(n * 2 < h * 3) /\ ~(n < h * 2) /\ ~(n < h * 3)
  <2>1. R = four
      BY <1>11 DEF Thresholds
  <2> QED
      BY <1>5, <1>11, <2>1 DEF Report!Classify
<1> QED
    BY <1>6, <1>7, <1>8, <1>9, <1>10, <1>11

(* The reaction of one comparison. *)
LEMMA ReactionOf ==
    ASSUME NEW c, NEW minimum \in Nat, minimum >= 1, NEW complete \in BOOLEAN,
           c.this \in Nat, c.history \in Nat, c.periods \in Nat,
           c.intensity = Report!Intensity(c.this, c.history, c.periods, minimum, complete),
           c.average = IF ~complete \/ c.periods < minimum \/ c.periods = 0 THEN -1
                       ELSE Report!HalfUp(c.history, c.periods)
    PROVE  /\ c.average = -1 <=> c.intensity = Report!NoReaction
           /\ c.intensity # Report!NoReaction /\ c.this + c.history > 0 =>
                c.intensity = Report!Cardinality({q \in {<<1, 1>>, <<3, 2>>, <<2, 1>>, <<3, 1>>} :
                                                    q[2] * c.this * c.periods >= q[1] * c.history})
<1> DEFINE R == {q \in {<<1, 1>>, <<3, 2>>, <<2, 1>>, <<3, 1>>} :
                   q[2] * c.this * c.periods >= q[1] * c.history}
<1>1. CASE ~complete \/ c.periods < minimum
    BY <1>1 DEF Report!Intensity, Report!NoReaction
<1>2. CASE complete /\ ~(c.periods < minimum)
  <2>1. c.periods >= 1
      BY <1>2
  <2>2. c.average \in Nat
    <3>1. c.average = Report!HalfUp(c.history, c.periods)
        BY <1>2, <2>1
    <3>2. Report!HalfUp(c.history, c.periods) \in Nat
        BY <2>1, HalfUpIs
    <3> QED
        BY <3>1, <3>2
  <2> PICK n : n = c.this * c.periods
      OBVIOUS
  <2>3. n \in Nat /\ (c.this > 0 => n > 0) /\ (c.this = 0 => n = 0)
      BY <2>1
  <2>4. c.intensity = IF c.history = 0 THEN IF c.this = 0 THEN 1 ELSE 4
                      ELSE Report!Classify(n, c.history)
      BY <1>2 DEF Report!Intensity
  <2>5. 1 * c.this * c.periods = n /\ 2 * c.this * c.periods = 2 * n
      OBVIOUS
  <2>6. /\ R \subseteq Thresholds
        /\ <<1, 1>> \in R <=> n >= c.history
        /\ <<3, 2>> \in R <=> 2 * n >= 3 * c.history
        /\ <<2, 1>> \in R <=> n >= 2 * c.history
        /\ <<3, 1>> \in R <=> n >= 3 * c.history
      BY <2>3, <2>5 DEF Thresholds
  <2> HIDE DEF R
  <2>7. /\ c.history > 0 => Cardinality(R) = Report!Classify(n, c.history)
        /\ c.history = 0 => Cardinality(R) = 4
      BY <2>3, <2>6, ReachedAre
  <2>8. Report!Cardinality(R) = Cardinality(R)
      BY CardinalityIs
  <2>9. c.intensity # Report!NoReaction
      BY <2>4 DEF Report!NoReaction, Report!Classify
  <2>10. c.this + c.history > 0 => c.intensity = Report!Cardinality(R)
      BY <2>4, <2>7, <2>8
  <2> QED
      BY <2>2, <2>9, <2>10 DEF R, Report!NoReaction
<1> QED
    BY <1>1, <1>2

(* What the months are compared by are natural numbers. *)
LEMMA MonthlyType ==
    ASSUME ReportTypes, NEW day \in 1 .. LastDay + 1
    PROVE  /\ Report!Monthly(day).this \in Nat
           /\ Report!Monthly(day).history \in Nat
           /\ Report!Monthly(day).periods \in Nat
<1> DEFINE e == Report!EffectiveStart(day)
           f == Report!FirstMonth(day)
           c == Report!CurrentMonth(day)
           n == Report!NextMonth(f)
<1>1. e \in Int /\ f \in Int /\ c \in Int /\ n \in Int /\ day \in Int
    BY MonthsOfDay
<1>2. \A x, y \in Int : OfDays(x .. y) \in Nat
    BY OfDaysOf
<1>3. \A x : Cardinality({s \in MonthStarts : s < c /\ s >= x}) \in Nat
  <2>1. \A x : IsFiniteSet({s \in MonthStarts : s < c /\ s >= x})
    <3>1. IsFiniteSet(MonthStarts)
        BY DaysAre, FS_Subset
    <3> QED
        BY <3>1, FS_Subset
  <2> QED
      BY <2>1, FS_CardinalityType
<1>4. CASE Report!HasPartial(day)
  <2>1. /\ Report!Monthly(day).this = OfDays(c .. day)
        /\ Report!Monthly(day).history = TokensOf(Report!Estimate(Report!PartialDays(day))) + OfDays(n .. c - 1)
        /\ TokensOf(Report!Estimate(Report!PartialDays(day))) \in Nat
        /\ Report!Monthly(day).periods = Cardinality({x \in MonthStarts : x < c /\ x >= n}) + 1
      BY <1>4, MonthlyWithPartial
  <2> HIDE DEF e, f, c, n
  <2>2. OfDays(c .. day) \in Nat /\ OfDays(n .. c - 1) \in Nat
    <3>1. c - 1 \in Int
        BY <1>1
    <3> QED
        BY <1>1, <1>2, <3>1
  <2>3. Cardinality({x \in MonthStarts : x < c /\ x >= n}) \in Nat
      BY <1>3
  <2> QED
      BY <2>1, <2>2, <2>3
<1>5. CASE ~Report!HasPartial(day)
  <2>1. /\ Report!Monthly(day).this = OfDays((IF f < c THEN c ELSE e) .. day)
        /\ Report!Monthly(day).history = OfDays(f .. c - 1)
        /\ Report!Monthly(day).periods = Cardinality({x \in MonthStarts : x < c /\ x >= f})
      BY <1>5, MonthlyWithout
  <2> HIDE DEF e, f, c, n
  <2>2. OfDays((IF f < c THEN c ELSE e) .. day) \in Nat /\ OfDays(f .. c - 1) \in Nat
    <3>1. (IF f < c THEN c ELSE e) \in Int /\ c - 1 \in Int
        BY <1>1
    <3> QED
        BY <1>1, <1>2, <3>1
  <2>3. Cardinality({x \in MonthStarts : x < c /\ x >= f}) \in Nat
      BY <1>3
  <2> QED
      BY <2>1, <2>2, <2>3
<1> QED
    BY <1>4, <1>5

(* The reactions of both comparisons. *)
LEMMA Reactions == ReportTypes => Report!ReactionIsExact
<1> SUFFICES ASSUME ReportTypes
             PROVE  Report!ReactionIsExact
    OBVIOUS
<1> DEFINE d == Report!DailyStart(today)
           Exact(c) == /\ c.average = -1 <=> c.intensity = Report!NoReaction
                       /\ c.intensity # Report!NoReaction /\ c.this + c.history > 0 =>
                            c.intensity = Report!Cardinality({q \in {<<1, 1>>, <<3, 2>>, <<2, 1>>, <<3, 1>>} :
                                                    q[2] * c.this * c.periods >= q[1] * c.history})
<1>1. today \in Int /\ today \in 1 .. LastDay + 1
    BY DaysAre DEF ReportTypes
<1>2. d \in Int /\ d <= today
    BY <1>1, DailyStartIs
<1>3. Exact(Report!Daily(today))
  <2> DEFINE c == Report!Daily(today)
  <2>1. c.intensity = Report!Intensity(c.this, c.history, c.periods, MinDays, TRUE)
      BY DEF Report!Daily, Report!Comparison
  <2>2. c.average = IF ~TRUE \/ c.periods < MinDays \/ c.periods = 0 THEN -1
                    ELSE Report!HalfUp(c.history, c.periods)
      BY DEF Report!Daily, Report!Comparison
  <2>3. /\ c.this = OfDays({today})
        /\ c.history = OfDays(d .. today - 1)
        /\ c.periods = today - d
      BY DailyIs
  <2> HIDE DEF c, d
  <2>4. c.this \in Nat
    <3>1. {today} \intersect {} = {}
        OBVIOUS
    <3> QED
        BY <2>3, <3>1, OfDaysUnion
  <2>5. c.history \in Nat
    <3>1. today - 1 \in Int
        BY <1>1
    <3> QED
        BY <1>2, <2>3, <3>1, OfDaysOf
  <2>6. c.periods \in Nat
      BY <1>1, <1>2, <2>3
  <2> HIDE DEF Exact
  <2>7. Exact(c)
      BY <2>1, <2>2, <2>4, <2>5, <2>6, DaysAre, ReactionOf DEF Exact
  <2> QED
      BY <2>7 DEF c
<1>4. Exact(Report!Monthly(today))
  <2> DEFINE c == Report!Monthly(today)
             complete == Report!EffectiveStart(today) <= Report!CurrentMonth(today)
  <2>1. c.intensity = Report!Intensity(c.this, c.history, c.periods, MinMonths, complete)
      BY DEF Report!Monthly, Report!Comparison
  <2>2. c.average = IF ~complete \/ c.periods < MinMonths \/ c.periods = 0 THEN -1
                    ELSE Report!HalfUp(c.history, c.periods)
      BY DEF Report!Monthly, Report!Comparison
  <2>3. c.this \in Nat /\ c.history \in Nat /\ c.periods \in Nat
      BY <1>1, MonthlyType
  <2>4. complete \in BOOLEAN
      BY <1>1, MonthsOfDay
  <2> HIDE DEF c, complete, Exact
  <2>5. Exact(c)
      BY <2>1, <2>2, <2>3, <2>4, DaysAre, ReactionOf DEF Exact
  <2> QED
      BY <2>5 DEF c
<1>5. Report!TodayComparison(today) = Report!Daily(today).intensity
  <2>1. today - 1 - d + 1 \in Int /\ today - 1 - d + 1 >= 0 /\ today - 1 - d + 1 = today - d
    <3> HIDE DEF d
    <3> QED
        BY <1>1, <1>2
  <2>2. Report!Max({0, today - 1 - d + 1}) = today - d
    <3> HIDE DEF d
    <3>1. Report!Max({0, today - 1 - d + 1}) = IF 0 >= today - 1 - d + 1 THEN 0 ELSE today - 1 - d + 1
        BY <2>1, MaxOfTwo
    <3> QED
        BY <1>1, <1>2, <2>1, <3>1
  <2> QED
      BY <2>2 DEF Report!TodayComparison, Report!Daily, Report!Comparison
<1> QED
    BY <1>3, <1>4, <1>5 DEF Report!ReactionIsExact

-----------------------------------------------------------------------------
(* Multiplication is monotonic. *)
LEMMA Times ==
    ASSUME NEW a \in Nat, NEW b \in Nat, NEW c \in Nat, a <= b
    PROVE  c * a <= c * b /\ c * a \in Nat /\ c * b \in Nat
OBVIOUS

(* Prorating to a longer time loses nothing and is off by half a token, *)
LEMMA HalfUpFair ==
    ASSUME NEW u \in Nat, NEW l \in Nat, NEW n \in Nat, 1 <= n, n <= l
    PROVE  LET h == Report!HalfUp(u * l, n)
           IN /\ h \in Nat /\ h >= u
              /\ n * h \in Nat /\ u * l \in Nat
              /\ 2 * (n * h) <= 2 * (u * l) + n
              /\ 2 * (u * l) <= 2 * (n * h) + n
<1> DEFINE h == Report!HalfUp(u * l, n)
<1>1. u * l \in Nat
    BY Times
<1>2. h \in Nat /\ 2 * (n * h) <= 2 * (u * l) + n /\ 2 * (u * l) < 2 * (n * h) + n
    BY <1>1, HalfUpIs
<1> HIDE DEF h
<1>3. n * h \in Nat
    BY <1>2, Times
<1>4. h >= u
  <2>1. ASSUME ~(h >= u)
        PROVE  FALSE
    <3>1. h + 1 <= u /\ h + 1 \in Nat
        BY <1>2, <2>1
    <3>2. n * (h + 1) <= n * u /\ u * n <= u * l
        BY <3>1, Times
    <3>3. n * (h + 1) = n * h + n /\ n * u = u * n /\ u * n \in Nat
        BY <1>2, Times
    <3> QED
        BY <1>1, <1>2, <1>3, <3>2, <3>3
  <2> QED
      BY <2>1
<1> QED
    BY <1>1, <1>2, <1>3, <1>4 DEF h

(* or by one where the aggregate is raised to two rounded details. *)
LEMMA ScaleFair ==
    ASSUME NEW t \in Report!Tokens, NEW l \in Nat, NEW n \in Nat, 1 <= n, n <= l,
           NEW k \in {"in", "write", "short", "long"}
    PROVE  LET e == Report!Scale(t, l, n)[k]
           IN e >= t[k] /\ n * (e - 1) <= t[k] * l /\ t[k] * l <= n * (e + 1)
<1> DEFINE e == Report!Scale(t, l, n)[k]
           h(i) == Report!HalfUp(t[i] * l, n)
<1>1. \A i \in {"in", "write", "short", "long"} : t[i] \in Nat
    BY TokensAre
<1>2. \A i \in {"in", "write", "short", "long"} :
        /\ h(i) \in Nat /\ h(i) >= t[i]
        /\ n * h(i) \in Nat /\ t[i] * l \in Nat
        /\ 2 * (n * h(i)) <= 2 * (t[i] * l) + n
        /\ 2 * (t[i] * l) <= 2 * (n * h(i)) + n
    BY <1>1, HalfUpFair
<1>3. /\ \A i \in {"in", "short", "long"} : Report!Scale(t, l, n)[i] = h(i)
      /\ Report!Scale(t, l, n)["write"] = IF h("write") >= h("short") + h("long") THEN h("write") ELSE h("short") + h("long")
    BY ScaleIs
<1> HIDE DEF h
<1>4. \A i \in {"in", "write", "short", "long"} :
        h(i) >= t[i] /\ n * (h(i) - 1) <= t[i] * l /\ t[i] * l <= n * (h(i) + 1)
  <2> TAKE i \in {"in", "write", "short", "long"}
  <2>1. n * (h(i) - 1) = n * h(i) - n /\ n * (h(i) + 1) = n * h(i) + n
      BY <1>2
  <2> QED
      BY <1>2, <2>1
<1>5. CASE k # "write" \/ h("write") >= h("short") + h("long")
  <2>1. e = h(k)
      BY <1>3, <1>5
  <2> HIDE DEF e
  <2> QED
      BY <1>4, <2>1 DEF e
<1>6. CASE k = "write" /\ ~(h("write") >= h("short") + h("long"))
  <2>1. e = h("short") + h("long")
      BY <1>3, <1>6
  <2> HIDE DEF e
  <2>2. e \in Nat /\ e >= h("write") /\ n * e = n * h("short") + n * h("long")
      BY <1>2, <1>6, <2>1
  <2>3. t["short"] + t["long"] <= t["write"]
      BY DEF Report!Tokens
  <2>4. t["short"] * l + t["long"] * l <= t["write"] * l
    <3>1. t["short"] + t["long"] \in Nat
        BY <1>1
    <3>2. l * (t["short"] + t["long"]) <= l * t["write"]
        BY <1>1, <2>3, <3>1, Times
    <3>3. l * (t["short"] + t["long"]) = t["short"] * l + t["long"] * l /\ l * t["write"] = t["write"] * l
        BY <1>1
    <3> QED
        BY <3>2, <3>3
  <2>5. n * (e - 1) = n * e - n /\ n * (e + 1) = n * e + n
      BY <2>2
  <2>6. n * (e - 1) <= t["write"] * l
      BY <1>2, <2>2, <2>4, <2>5
  <2>7. n * (h("write") + 1) <= n * (e + 1)
      BY <1>2, <2>2, Times
  <2>8. t["write"] * l <= n * (h("write") + 1) /\ h("write") >= t["write"]
      BY <1>4
  <2>9. n * (h("write") + 1) \in Nat /\ n * (e + 1) \in Nat
      BY <1>2, <2>2, Times
  <2>10. t["write"] * l <= n * (e + 1)
      BY <1>2, <2>7, <2>8, <2>9
  <2>11. e >= t["write"]
      BY <1>1, <1>2, <2>2, <2>8
  <2> QED
      BY <1>6, <2>6, <2>10, <2>11 DEF e
<1> QED
    BY <1>5, <1>6

(* The estimate of the partial month. *)
LEMMA Estimates == ReportTypes => Report!EstimateIsFair
<1> SUFFICES ASSUME ReportTypes, Report!HasPartial(today), NEW m \in Models, NEW k \in DOMAIN Report!None
             PROVE  LET days == Report!PartialDays(today)
                        n == Report!Cardinality(days)
                        l == Report!NextMonth(Report!FirstMonth(today)) - Report!FirstMonth(today)
                        e == Report!Estimate(days)[m][k]
                        u == Report!ByModel(days)[m][k]
                    IN e >= u /\ n * (e - 1) <= u * l /\ u * l <= n * (e + 1)
    BY DEF Report!EstimateIsFair
<1> DEFINE days == Report!PartialDays(today)
           f == Report!FirstMonth(today)
           l == Report!NextMonth(f) - f
           n == Report!Cardinality(days)
           t == Report!ByModel(days)[m]
<1>1. today \in 1 .. LastDay + 1
    BY DaysAre DEF ReportTypes
<1>2. n = Report!NextMonth(f) - Report!EffectiveStart(today)
    BY <1>1, PartialIs, CardinalityIs
<1>3. n \in Nat /\ 1 <= n /\ l \in Nat /\ Report!Estimate(days)[m] = Report!Scale(t, l, n)
    BY <1>1, <1>2, PartialIs
<1>4. n <= l
    BY <1>1, <1>2, MonthsOfDay
<1>5. t \in Report!Tokens
    BY ByModelType
<1>6. k \in {"in", "write", "short", "long"}
    BY KindsAre
<1> HIDE DEF days, f, l, n, t
<1>7. LET e == Report!Scale(t, l, n)[k]
      IN e >= t[k] /\ n * (e - 1) <= t[k] * l /\ t[k] * l <= n * (e + 1)
    BY <1>3, <1>4, <1>5, <1>6, ScaleFair
<1>8. LET e == Report!Estimate(days)[m][k]
      IN e >= t[k] /\ n * (e - 1) <= t[k] * l /\ t[k] * l <= n * (e + 1)
    BY <1>3, <1>7
<1> QED
    BY <1>8 DEF days, f, l, n, t

-----------------------------------------------------------------------------
(* When the month turns. *)
LEMMA MonthTurns ==
    ASSUME NEW d \in Report!Days, Report!MonthOf(d + 1) # Report!MonthOf(d)
    PROVE  /\ Report!MonthOf(d + 1) = d + 1 /\ d + 1 \in MonthStarts
           /\ Report!NextMonth(Report!MonthOf(d)) = d + 1
           /\ \A x \in MonthStarts : x < d + 1 <=> x < Report!MonthOf(d) \/ x = Report!MonthOf(d)
<1> DEFINE s == Report!MonthOf(d)
           t == Report!MonthOf(d + 1)
<1>1. d \in Int /\ 1 <= d /\ d <= LastDay /\ d + 1 \in Int /\ 1 <= d + 1
    BY DaysAre
<1>2. s \in MonthStarts /\ s \in Int /\ s <= d /\ \A x \in MonthStarts : x <= d => x <= s
    BY <1>1, MonthIs
<1>3. t \in MonthStarts /\ t \in Int /\ t <= d + 1 /\ \A x \in MonthStarts : x <= d + 1 => x <= t
    BY <1>1, MonthIs
<1>4. s \in Report!Days /\ \A x \in MonthStarts : x \in Int
    BY <1>2, DaysAre
<1>5. Report!NextMonth(s) \in Int /\ s < Report!NextMonth(s) /\ \A x \in MonthStarts : s < x => Report!NextMonth(s) <= x
    BY <1>4, NextMonthIs
<1>6. d < Report!NextMonth(s)
    BY InMonth
<1>7. t # s
    OBVIOUS
<1> HIDE DEF s, t
<1>8. t = d + 1
    BY <1>1, <1>2, <1>3, <1>7
<1>9. Report!NextMonth(s) = d + 1
    BY <1>1, <1>2, <1>3, <1>5, <1>6, <1>8
<1>10. \A x \in MonthStarts : x < d + 1 <=> x < s \/ x = s
    BY <1>1, <1>2, <1>4
<1> QED
    BY <1>3, <1>8, <1>9, <1>10 DEF s, t

(* Months are counted one by one. *)
LEMMA OneMonthMore ==
    ASSUME NEW S, S \subseteq MonthStarts, NEW s \in MonthStarts, s \notin S
    PROVE  Cardinality(S \union {s}) = Cardinality(S) + 1
<1>1. IsFiniteSet(MonthStarts)
    BY DaysAre, FS_Subset
<1>2. IsFiniteSet(S)
    BY <1>1, FS_Subset
<1> QED
    BY <1>2, FS_AddElement

(* What THIS and AVG are after midnight, month by month. *)
LEMMA Midnight == ReportTypes => Report!MidnightConserves
<1> SUFFICES ASSUME ReportTypes, Report!Visible(today) # {},
                    Report!EffectiveStart(today + 1) = Report!EffectiveStart(today)
             PROVE  /\ Report!DailyStart(today + 1) = Report!DailyStart(today) =>
                        /\ Report!Daily(today + 1).history = Report!Daily(today).history + Report!Daily(today).this
                        /\ Report!Daily(today + 1).periods = Report!Daily(today).periods + 1
                    /\ Report!CurrentMonth(today + 1) # Report!CurrentMonth(today) =>
                        /\ Report!Monthly(today + 1).periods = Report!Monthly(today).periods + 1
                        /\ Report!Monthly(today + 1).history = Report!Monthly(today).history +
                              IF Report!EffectiveStart(today) <= Report!CurrentMonth(today)
                              THEN Report!Monthly(today).this
                              ELSE TokensOf(Report!Estimate(Report!EffectiveStart(today) .. today))
    BY DEF Report!MidnightConserves, TokensOf
<1> DEFINE then == today + 1
           e == Report!EffectiveStart(today)
           f == Report!FirstMonth(today)
           c == Report!CurrentMonth(today)
           n == Report!NextMonth(f)
           d == Report!DailyStart(today)
<1>1. /\ today \in Int /\ today \in 1 .. LastDay + 1 /\ today \in Report!Days
      /\ then \in Int /\ then \in 1 .. LastDay + 1
    BY DaysAre DEF ReportTypes
<1>2. /\ e \in Int /\ d \in Int /\ 1 <= e /\ e <= d /\ d <= today
      /\ f \in Int /\ c \in Int /\ n \in Int /\ f <= e /\ c <= today /\ f <= c /\ f < n
      /\ f \in MonthStarts /\ c \in MonthStarts
      /\ f < c => e < n /\ n <= c
    BY <1>1, StartIs, DailyStartIs, MonthsOfDay
<1>3. /\ \A x, y \in Int : OfDays(x .. y) \in Nat
      /\ \A x, y \in Int : x > y => OfDays(x .. y) = 0
      /\ \A x, y, z \in Int : x <= z /\ z <= y + 1 =>
                  OfDays(x .. y) = OfDays(x .. z - 1) + OfDays(z .. y)
    BY OfDaysOf
<1>4. ASSUME Report!DailyStart(then) = d
      PROVE  /\ Report!Daily(then).history = Report!Daily(today).history + Report!Daily(today).this
             /\ Report!Daily(then).periods = Report!Daily(today).periods + 1
  <2>1. /\ Report!Daily(then).history = OfDays(d .. today)
        /\ Report!Daily(then).periods = then - d
    <3>1. then - 1 = today
        BY <1>1
    <3> QED
        BY <1>4, <3>1, DailyIs
  <2>2. /\ Report!Daily(today).this = OfDays(today .. today)
        /\ Report!Daily(today).history = OfDays(d .. today - 1)
        /\ Report!Daily(today).periods = today - d
    <3>1. today .. today = {today}
        BY <1>1
    <3> QED
        BY <3>1, DailyIs
  <2> HIDE DEF d
  <2>3. OfDays(d .. today) = OfDays(d .. today - 1) + OfDays(today .. today)
    <3>1. d <= today /\ today <= today + 1
        BY <1>1, <1>2
    <3> QED
        BY <1>1, <1>2, <1>3, <3>1
  <2> QED
      BY <1>1, <1>2, <2>1, <2>2, <2>3
<1>5. ASSUME Report!CurrentMonth(then) # c
      PROVE  /\ Report!Monthly(then).periods = Report!Monthly(today).periods + 1
             /\ Report!Monthly(then).history = Report!Monthly(today).history +
                      IF e <= c THEN Report!Monthly(today).this ELSE TokensOf(Report!Estimate(e .. today))
  <2>1. /\ Report!CurrentMonth(then) = then /\ then \in MonthStarts
        /\ Report!NextMonth(c) = then
        /\ \A x \in MonthStarts : x < then <=> x < c \/ x = c
      BY <1>1, <1>5, MonthTurns DEF Report!CurrentMonth
  <2>2. Report!FirstMonth(then) = f /\ Report!EffectiveStart(then) = e
      BY DEF Report!FirstMonth
  <2>3. then - 1 = today
      BY <1>1
  <2>4. f < then
      BY <1>1, <1>2
  <2>5. Report!HasPartial(then) <=> e > f
      BY <2>1, <2>2, <2>4 DEF Report!HasPartial
  <2>6. Report!HasPartial(today) <=> e > f /\ f < c
      BY DEF Report!HasPartial
  <2>7. Report!PartialDays(then) = e .. n - 1
      BY <2>2 DEF Report!PartialDays
  <2>8. Report!PartialDays(today) = e .. n - 1
      BY DEF Report!PartialDays
  <2>9. CASE e > f /\ f < c
    <3>1. /\ Report!Monthly(today).this = OfDays(c .. today)
          /\ Report!Monthly(today).history = TokensOf(Report!Estimate(e .. n - 1)) + OfDays(n .. c - 1)
          /\ TokensOf(Report!Estimate(e .. n - 1)) \in Nat
          /\ Report!Monthly(today).periods = Cardinality({x \in MonthStarts : x < c /\ x >= n}) + 1
        BY <1>1, <2>6, <2>8, <2>9, MonthlyWithPartial
    <3>2. /\ Report!Monthly(then).history = TokensOf(Report!Estimate(e .. n - 1)) + OfDays(n .. today)
          /\ Report!Monthly(then).periods = Cardinality({x \in MonthStarts : x < then /\ x >= n}) + 1
        BY <1>1, <2>1, <2>2, <2>3, <2>5, <2>7, <2>9, MonthlyWithPartial
    <3>3. e <= c
      <4> HIDE DEF e, f, c, n
      <4> QED
          BY <1>2, <2>9
    <3> HIDE DEF e, f, c, n, then
    <3>4. OfDays(n .. today) = OfDays(n .. c - 1) + OfDays(c .. today)
      <4>1. n <= c /\ c <= today + 1
          BY <1>1, <1>2, <2>9
      <4> QED
          BY <1>1, <1>2, <1>3, <4>1
    <3>5. OfDays(n .. c - 1) \in Nat /\ OfDays(c .. today) \in Nat
      <4>1. c - 1 \in Int
          BY <1>2
      <4> QED
          BY <1>1, <1>2, <1>3, <4>1
    <3>6. Cardinality({x \in MonthStarts : x < then /\ x >= n}) = Cardinality({x \in MonthStarts : x < c /\ x >= n}) + 1
      <4> DEFINE S == {x \in MonthStarts : x < c /\ x >= n}
      <4>1. {x \in MonthStarts : x < then /\ x >= n} = S \union {c}
          BY <1>2, <2>1, <2>9
      <4>2. S \subseteq MonthStarts /\ c \notin S
          BY <1>2
      <4> HIDE DEF S
      <4>3. Cardinality(S \union {c}) = Cardinality(S) + 1
          BY <1>2, <4>2, OneMonthMore
      <4> QED
          BY <4>1, <4>3 DEF S
    <3> QED
        BY <3>1, <3>2, <3>3, <3>4, <3>5, <3>6
  <2>10. CASE e > f /\ ~(f < c)
    <3>1. f = c /\ n = then /\ n - 1 = today
        BY <1>2, <2>1, <2>3, <2>10
    <3>2. /\ Report!Monthly(today).history = OfDays(f .. c - 1)
          /\ Report!Monthly(today).periods = Cardinality({x \in MonthStarts : x < c /\ x >= f})
        BY <1>1, <2>6, <2>10, MonthlyWithout
    <3>3. /\ Report!Monthly(then).history = TokensOf(Report!Estimate(e .. today)) + OfDays(n .. today)
          /\ TokensOf(Report!Estimate(e .. today)) \in Nat
          /\ Report!Monthly(then).periods = Cardinality({x \in MonthStarts : x < then /\ x >= n}) + 1
        BY <1>1, <2>1, <2>2, <2>3, <2>5, <2>7, <2>10, <3>1, MonthlyWithPartial
    <3> HIDE DEF e, f, c, n
    <3>4. \A x \in MonthStarts : x \in Int
        BY DaysAre
    <3>5. {x \in MonthStarts : x < c /\ x >= f} = {} /\ {x \in MonthStarts : x < then /\ x >= n} = {}
      <4> HIDE DEF then
      <4>1. \A x \in MonthStarts : ~(x < c /\ x >= f) /\ ~(x < then /\ x >= n)
          BY <1>1, <1>2, <3>1, <3>4
      <4> QED
          BY <4>1
    <3>6. OfDays(f .. c - 1) = 0 /\ OfDays(n .. today) = 0
      <4>1. c - 1 \in Int /\ f > c - 1 /\ n > today
          BY <1>1, <1>2, <3>1
      <4> QED
          BY <1>1, <1>2, <1>3, <4>1
    <3>7. ~(e <= c)
        BY <1>2, <2>10, <3>1
    <3> HIDE DEF then
    <3>8. /\ Report!Monthly(today).history = 0 /\ Report!Monthly(today).periods = 0
          /\ Report!Monthly(then).history = TokensOf(Report!Estimate(e .. today))
          /\ Report!Monthly(then).periods = 1
      <4>1. Cardinality({}) = 0
          BY FS_EmptySet
      <4>2. /\ Cardinality({x \in MonthStarts : x < c /\ x >= f}) = 0
            /\ Cardinality({x \in MonthStarts : x < then /\ x >= n}) = 0
          BY Zenon, <3>5, <4>1
      <4>3. Report!Monthly(today).periods = 0 /\ Report!Monthly(then).periods = 0 + 1
          BY Zenon, <3>2, <3>3, <4>2
      <4>4. /\ Report!Monthly(today).history = 0
            /\ Report!Monthly(then).history = TokensOf(Report!Estimate(e .. today)) + 0
          BY Zenon, <3>2, <3>3, <3>6
      <4> QED
          BY <3>3, <4>3, <4>4
    <3> QED
        BY <3>3, <3>7, <3>8
  <2>11. CASE ~(e > f)
    <3>1. e = f
        BY <1>2, <2>11
    <3>2. /\ Report!Monthly(today).this = OfDays((IF f < c THEN c ELSE e) .. today)
          /\ Report!Monthly(today).history = OfDays(f .. c - 1)
          /\ Report!Monthly(today).periods = Cardinality({x \in MonthStarts : x < c /\ x >= f})
        BY <1>1, <2>6, <2>11, MonthlyWithout
    <3>3. /\ Report!Monthly(then).history = OfDays(f .. today)
          /\ Report!Monthly(then).periods = Cardinality({x \in MonthStarts : x < then /\ x >= f})
        BY <1>1, <2>1, <2>2, <2>3, <2>5, <2>11, MonthlyWithout
    <3> HIDE DEF e, f, c, n, then
    <3>4. e <= c /\ (IF f < c THEN c ELSE e) = c
        BY <1>2, <3>1
    <3>5. OfDays(f .. today) = OfDays(f .. c - 1) + OfDays(c .. today)
      <4>1. f <= c /\ c <= today + 1
          BY <1>1, <1>2
      <4> QED
          BY <1>1, <1>2, <1>3, <4>1
    <3>6. Cardinality({x \in MonthStarts : x < then /\ x >= f}) = Cardinality({x \in MonthStarts : x < c /\ x >= f}) + 1
      <4> DEFINE S == {x \in MonthStarts : x < c /\ x >= f}
      <4>1. {x \in MonthStarts : x < then /\ x >= f} = S \union {c}
          BY <1>2, <2>1
      <4>2. S \subseteq MonthStarts /\ c \notin S
          BY <1>2
      <4> HIDE DEF S
      <4>3. Cardinality(S \union {c}) = Cardinality(S) + 1
          BY <1>2, <4>2, OneMonthMore
      <4> QED
          BY <4>1, <4>3 DEF S
    <3> QED
        BY <3>2, <3>3, <3>4, <3>5, <3>6
  <2> QED
      BY <2>9, <2>10, <2>11
<1> QED
    BY <1>4, <1>5

-----------------------------------------------------------------------------
(* What is used stays well-formed. *)
LEMMA ReportStep == ReportTypes /\ [Report!ReportNext]_reportVars => ReportTypes'
<1> SUFFICES ASSUME ReportTypes, [Report!ReportNext]_reportVars
             PROVE  ReportTypes'
    OBVIOUS
<1>1. ASSUME NEW m \in Models, NEW t \in Report!Tokens, Report!Use(m, t)
      PROVE  ReportTypes'
  <2>1. Report!Plus(spent[today][m], t) \in Report!Tokens
      BY PlusIs DEF ReportTypes
  <2>2. [spent[today] EXCEPT ![m] = Report!Plus(spent[today][m], t)] \in [Models -> Report!Tokens]
      BY <2>1 DEF ReportTypes
  <2>3. spent' = [spent EXCEPT ![today] = [spent[today] EXCEPT ![m] = Report!Plus(spent[today][m], t)]]
      BY <1>1 DEF Report!Use, ReportTypes
  <2> QED
      BY <1>1, <2>2, <2>3 DEF ReportTypes, Report!Use
<1>2. CASE Report!NextDay
    BY <1>2, DaysAre DEF ReportTypes, Report!NextDay
<1>3. CASE Report!SetBack
    BY <1>3, DaysAre DEF ReportTypes, Report!SetBack
<1>4. CASE Report!Forget
  <2> DEFINE d == Report!Min(seen)
  <2>1. [m \in Models |-> Report!None] \in [Models -> Report!Tokens]
      BY NoneIs
  <2>2. spent' = [spent EXCEPT ![d] = [m \in Models |-> Report!None]] /\ seen' = seen \ {d} /\ today' = today
      BY <1>4 DEF Report!Forget
  <2> HIDE DEF d
  <2> QED
      BY <2>1, <2>2 DEF ReportTypes
<1>5. CASE UNCHANGED reportVars
    BY <1>5 DEF reportVars, ReportTypes
<1>6. Amounts \subseteq Report!Tokens
    BY ReportAssumption DEF Report!ReportAssumption
<1> QED
    BY <1>1, <1>2, <1>3, <1>4, <1>5, <1>6 DEF Report!ReportNext

(* Only the steps of this part change any of it. *)
LEMMA ReportRun == [PollingNext]_pollingVars => [Report!ReportNext]_reportVars
BY DEF PollingNext, pollingVars

(* The types of the report hold in every behaviour of the poll. *)
THEOREM ReportInvariant == PollingSpec => []ReportTypes
<1>1. Report!ReportInit => ReportTypes
    BY DaysAre, NoneIs DEF Report!ReportInit, ReportTypes
<1>2. PollingInit => ReportTypes
    BY <1>1 DEF PollingInit
<1> QED
    BY <1>2, ReportRun, ReportStep, PTL DEF PollingSpec

(* build_usage_report: the periods hold every token of the window once, the  *)
(* reaction is that of their exact ratio, midnight moves THIS into AVG, and  *)
(* a prorated month is off by one token in a kind at most.                   *)
THEOREM ReportIsExactCorrect == PollingSpec => []ReportIsExact
<1>1. ReportTypes => ReportIsExact
    BY NothingLost, Reactions, Estimates, Midnight DEF ReportIsExact
<1> QED
    BY <1>1, ReportInvariant, PTL

-----------------------------------------------------------------------------
(* The ledger (UsageLedger): the totals of scopes as sums over rows, and a    *)
(* price as a sum over charges and observations in either order.             *)

(* The kinds of tokens; an event, and a session of Grok. *)
Kinds == {"in", "mixed", "read", "write", "short", "long", "out"}
EventEntries ==
  [account : Datasets, model : LedgerModels, tokens : Ledger!Tokens, reported : Ledger!Known]
SessionEntries ==
  [account : GrokAccounts, tokens : Ledger!Known, reported : Ledger!Known]

(* Only these are entered. *)
LedgerTypes == observed \in Seq(EventEntries \union SessionEntries)

(* The module's sums are those of FiniteSums. *)
LEMMA LedgerSum == \A f, S : Ledger!SumFunctionOnSet(f, S) = SumFunctionOnSet(f, S)
BY Zenon DEF Ledger!SumFunctionOnSet, Ledger!FoldFunctionOnSet, Ledger!MapThenFoldSet,
             SumFunctionOnSet, FoldFunctionOnSet, MapThenFoldSet

(* What is assumed of the accounts, the rates and the counts. *)
LEMMA LedgerIs ==
  /\ Datasets \intersect GrokAccounts = {}
  /\ \A a \in Datasets : ProviderOf(a) # "grok"
  /\ IsFiniteSet(LedgerModels)
  /\ \A m \in DOMAIN Rates :
       Rates[m] \in [{"in", "read", "write", "short", "long", "out"} -> Ledger!Known]
  /\ Mixes \subseteq Ledger!Tokens
  /\ Reported \subseteq Ledger!Known
  /\ Won \in Ledger!Known
<1>1. Ledger!IsFiniteSet(LedgerModels) => IsFiniteSet(LedgerModels)
    BY Zenon DEF Ledger!IsFiniteSet, IsFiniteSet
<1> QED
    BY <1>1, LedgerAssumption DEF Ledger!LedgerAssumption

(* A number, or nothing. *)
LEMMA KnownIs == \A v : v \in Ledger!Known <=> v \in Nat \/ v = Ledger!Unknown
BY DEF Ledger!Known

(* The detail of cache writes is part of them. *)
LEMMA TokensHold ==
  ASSUME NEW t
  PROVE  t \in Ledger!Tokens <=> t \in [Kinds -> Nat] /\ t["short"] + t["long"] <= t["write"]
BY DEF Ledger!Tokens, Kinds

(* What is charged is a natural number of tokens, *)
LEMMA ChargedType ==
  ASSUME NEW t \in Ledger!Tokens, NEW c \in Ledger!Charges
  PROVE  Ledger!Charged(t, c) \in Nat
BY TokensHold DEF Ledger!Charges, Ledger!Charged, Kinds

(* at a rate that may be missing. *)
LEMMA RateType ==
  ASSUME NEW m \in DOMAIN Rates, NEW c \in Ledger!Charges
  PROVE  Ledger!RateOf(m, c) \in Ledger!Known
BY LedgerIs DEF Ledger!Charges, Ledger!RateOf, Ledger!Or

(* There are finitely many charges. *)
LEMMA ChargesFinite == IsFiniteSet(Ledger!Charges)
<1>1. IsFiniteSet({}) /\ Ledger!Charges = ((((({} \union {"in"}) \union {"out"}) \union {"read"}) \union {"short"}) \union {"long"}) \union {"write"}
    BY FS_EmptySet DEF Ledger!Charges
<1>2. \A S, x : IsFiniteSet(S) => IsFiniteSet(S \union {x})
    BY FS_AddElement
<1> QED
    BY <1>1, <1>2

(* Why a price is not given; and one charge of it. *)
Unpriced(m, t) ==
  \/ m \notin DOMAIN Rates
  \/ t["mixed"] > 0
  \/ \E c \in Ledger!Charges : Ledger!Charged(t, c) > 0 /\ Ledger!RateOf(m, c) = Ledger!NoRate
Charge(m, t, c) == Ledger!Charged(t, c) * Ledger!RateOf(m, c)

(* A price is the sum of its charges, and all of them are natural numbers. *)
LEMMA PriceIs ==
  ASSUME NEW m, NEW t \in Ledger!Tokens
  PROVE  /\ Unpriced(m, t) => Ledger!Price(m, t) = Ledger!Unknown
         /\ ~Unpriced(m, t) =>
              /\ \A c \in Ledger!Charges : Charge(m, t, c) \in Nat
              /\ Ledger!Price(m, t) =
                   SumFunctionOnSet([c \in Ledger!Charges |-> Charge(m, t, c)], Ledger!Charges)
              /\ Ledger!Price(m, t) \in Nat
<1>1. Ledger!Price(m, t) = IF Unpriced(m, t) THEN Ledger!Unknown
        ELSE SumFunctionOnSet([c \in Ledger!Charges |-> Charge(m, t, c)], Ledger!Charges)
    BY Zenon, LedgerSum DEF Ledger!Price, Unpriced, Charge
<1>2. ASSUME ~Unpriced(m, t), NEW c \in Ledger!Charges
      PROVE  Charge(m, t, c) \in Nat
  <2>1. PICK n \in Nat : n = Ledger!Charged(t, c)
      BY ChargedType
  <2>2. PICK r \in Ledger!Known : r = Ledger!RateOf(m, c)
      BY <1>2, RateType DEF Unpriced
  <2>3. n > 0 => r # Ledger!NoRate
      BY <1>2, <2>1, <2>2 DEF Unpriced
  <2>4. Charge(m, t, c) = n * r
      BY <2>1, <2>2 DEF Charge
  <2>5. CASE n = 0
      BY <2>2, <2>4, <2>5, KnownIs DEF Ledger!Unknown
  <2>6. CASE n > 0
    <3>1. r \in Nat
        BY <2>2, <2>3, <2>6, KnownIs DEF Ledger!Unknown, Ledger!NoRate
    <3> QED
        BY <2>4, <3>1
  <2> QED
      BY <2>1, <2>5, <2>6
<1>3. ASSUME ~Unpriced(m, t)
      PROVE  Ledger!Price(m, t) \in Nat
  <2> DEFINE g == [c \in Ledger!Charges |-> Charge(m, t, c)]
  <2>1. \A c \in Ledger!Charges : g[c] \in Nat
      BY <1>2, <1>3
  <2>2. Ledger!Price(m, t) = SumFunctionOnSet(g, Ledger!Charges)
      BY <1>1, <1>3
  <2> HIDE DEF g
  <2> QED
      BY <2>1, <2>2, ChargesFinite, SumNat
<1> QED
    BY <1>1, <1>2, <1>3

(* It is a number or unknown, and unknown in these cases only. *)
LEMMA PriceType ==
  ASSUME NEW m, NEW t \in Ledger!Tokens
  PROVE  /\ Ledger!Price(m, t) \in Ledger!Known
         /\ Ledger!Price(m, t) = Ledger!Unknown <=> Unpriced(m, t)
<1>1. \A v \in Nat : v # Ledger!Unknown /\ v \in Ledger!Known
    BY KnownIs DEF Ledger!Unknown
<1>2. Ledger!Unknown \in Ledger!Known
    BY KnownIs
<1>3. CASE Unpriced(m, t)
    BY <1>2, <1>3, PriceIs
<1>4. CASE ~Unpriced(m, t)
    BY <1>1, <1>4, PriceIs
<1> QED
    BY <1>3, <1>4

-----------------------------------------------------------------------------
(* There are finitely many rows, each of an event or a session. *)
LEMMA RowsAre ==
  ASSUME LedgerTypes
  PROVE  /\ IsFiniteSet(Ledger!Rows)
         /\ \A i \in Ledger!Rows : observed[i] \in EventEntries \union SessionEntries
         /\ observed # <<>> <=> Ledger!Rows # {}
<1>1. Ledger!Rows = 1 .. Len(observed) /\ Len(observed) \in Nat
    BY DEF LedgerTypes, Ledger!Rows
<1>2. IsFiniteSet(Ledger!Rows)
    BY <1>1, FS_Interval
<1>3. \A i \in 1 .. Len(observed) : observed[i] \in EventEntries \union SessionEntries
    BY DEF LedgerTypes
<1>4. observed # <<>> <=> Len(observed) # 0
  <2> DEFINE E == EventEntries \union SessionEntries
  <2>1. observed \in Seq(E)
      BY DEF LedgerTypes
  <2> HIDE DEF E
  <2> QED
      BY <2>1
<1> QED
    BY <1>1, <1>2, <1>3, <1>4

(* The record of an observation. *)
LEMMA EventIs ==
  ASSUME LedgerTypes, NEW i \in Ledger!Rows, observed[i] \in EventEntries
  PROVE  /\ \A f \in Ledger!Fields : Ledger!Records[i][f] \in Ledger!Known
         /\ Ledger!Records[i].account = observed[i].account
         /\ Ledger!Records[i].provider = ProviderOf(observed[i].account)
         /\ Ledger!Records[i].provider # "grok"
         /\ Ledger!Records[i].session = FALSE
         /\ Ledger!Records[i]["api"] = Ledger!Price(observed[i].model, observed[i].tokens)
         /\ Ledger!Records[i].confidence = IF observed[i].account \in damaged THEN "partial" ELSE "exact"
<1> DEFINE o == observed[i]
           price == Ledger!Price(o.model, o.tokens)
<1>1. /\ o.account \in Datasets /\ o.account \notin GrokAccounts /\ o.tokens \in Ledger!Tokens
      /\ o.reported \in Ledger!Known
    BY LedgerIs DEF EventEntries
<1>2. Ledger!Records[i] = Ledger!EventRecord(o)
    BY <1>1 DEF Ledger!Records, Ledger!Record
<1>3. price \in Ledger!Known
    BY <1>1, PriceType
<1>4. Ledger!InWon(price) \in Ledger!Known
  <2>1. \A x, y \in Nat : x * y \in Nat
      OBVIOUS
  <2> HIDE DEF price
  <2> QED
      BY <1>3, <2>1, LedgerIs, KnownIs DEF Ledger!InWon
<1>5. Ledger!Total(o.tokens) \in Nat
  <2> PICK t \in Ledger!Tokens : t = o.tokens
      BY <1>1
  <2> QED
      BY TokensHold DEF Ledger!Total, Kinds
<1>6. ProviderOf(o.account) # "grok"
    BY <1>1, LedgerIs
<1> HIDE DEF o
<1>7. /\ Ledger!Records[i]["tokens"] = Ledger!Total(o.tokens)
      /\ Ledger!Records[i]["reasoning"] \in {Ledger!Unknown, 0}
      /\ Ledger!Records[i]["reported"] \in {o.reported, Ledger!Unknown}
      /\ Ledger!Records[i]["api"] = price
      /\ Ledger!Records[i]["won"] = Ledger!InWon(price)
      /\ Ledger!Records[i].account = o.account
      /\ Ledger!Records[i].provider = ProviderOf(o.account)
      /\ Ledger!Records[i].session = FALSE
      /\ Ledger!Records[i].confidence = IF o.account \in damaged THEN "partial" ELSE "exact"
    BY <1>2 DEF Ledger!EventRecord
<1> HIDE DEF price
<1>8. \A f \in Ledger!Fields : Ledger!Records[i][f] \in Ledger!Known
    BY <1>1, <1>3, <1>4, <1>5, <1>7, KnownIs DEF Ledger!Fields
<1> QED
    BY <1>6, <1>7, <1>8 DEF o, price

(* The record of a session. *)
LEMMA SessionIs ==
  ASSUME LedgerTypes, NEW i \in Ledger!Rows, observed[i] \in SessionEntries
  PROVE  /\ \A f \in Ledger!Fields : Ledger!Records[i][f] \in Ledger!Known
         /\ Ledger!Records[i].account = observed[i].account
         /\ Ledger!Records[i].provider = "grok"
         /\ Ledger!Records[i].session = TRUE
         /\ Ledger!Records[i].confidence = "partial"
<1> DEFINE o == observed[i]
<1>1. /\ o.account \in GrokAccounts /\ o.tokens \in Ledger!Known /\ o.reported \in Ledger!Known
    BY DEF SessionEntries
<1>2. Ledger!Records[i] = Ledger!SessionRecord(o)
    BY <1>1 DEF Ledger!Records, Ledger!Record
<1>3. Ledger!InWon(o.reported) \in Ledger!Known
  <2>1. \A x, y \in Nat : x * y \in Nat
      OBVIOUS
  <2> HIDE DEF o
  <2> QED
      BY <1>1, <2>1, LedgerIs, KnownIs DEF Ledger!InWon
<1> HIDE DEF o
<1>4. /\ Ledger!Records[i]["tokens"] = o.tokens
      /\ Ledger!Records[i]["reasoning"] = o.tokens
      /\ Ledger!Records[i]["reported"] = o.reported
      /\ Ledger!Records[i]["api"] = o.reported
      /\ Ledger!Records[i]["won"] = Ledger!InWon(o.reported)
      /\ Ledger!Records[i].account = o.account
      /\ Ledger!Records[i].provider = "grok"
      /\ Ledger!Records[i].session = TRUE
      /\ Ledger!Records[i].confidence = "partial"
    BY <1>2 DEF Ledger!SessionRecord
<1>5. \A f \in Ledger!Fields : Ledger!Records[i][f] \in Ledger!Known
    BY <1>1, <1>3, <1>4 DEF Ledger!Fields
<1> QED
    BY <1>4, <1>5 DEF o

(* Of every row. *)
LEMMA RecordIs ==
  ASSUME LedgerTypes, NEW i \in Ledger!Rows
  PROVE  /\ \A f \in Ledger!Fields : Ledger!Records[i][f] \in Ledger!Known
         /\ Ledger!Records[i].session \in BOOLEAN
         /\ Ledger!Records[i].session => Ledger!Records[i].confidence = "partial"
         /\ Ledger!Records[i].confidence \in {"exact", "partial"}
         /\ Ledger!Records[i].confidence = "exact" => Ledger!Records[i].account \notin damaged
<1>1. CASE observed[i] \in EventEntries
    BY <1>1, EventIs
<1>2. CASE observed[i] \in SessionEntries
    BY <1>2, SessionIs
<1> QED
    BY <1>1, <1>2, RowsAre

-----------------------------------------------------------------------------
(* A total of a scope is unknown. *)
Hidden(rows, f) ==
  \/ f \in Ledger!Costs /\ \E i \in rows : Ledger!Records[i].session
  \/ \E i \in rows : Ledger!Records[i][f] = Ledger!Unknown

(* A field of all rows. *)
Column(f) == [i \in Ledger!Rows |-> Ledger!Records[i][f]]

(* A sum over rows whose field is known everywhere. *)
LEMMA SumOfRows ==
  ASSUME LedgerTypes, NEW f \in Ledger!Fields, NEW rows \in SUBSET Ledger!Rows,
         ~ \E i \in rows : Ledger!Records[i][f] = Ledger!Unknown
  PROVE  /\ IsFiniteSet(rows)
         /\ \A i \in rows : Column(f)[i] \in Nat /\ Column(f)[i] = Ledger!Records[i][f]
         /\ Ledger!Sum(rows, f) = SumFunctionOnSet(Column(f), rows)
         /\ Ledger!Sum(rows, f) \in Nat
<1>1. IsFiniteSet(rows)
    BY RowsAre, FS_Subset
<1>2. \A i \in rows : Column(f)[i] \in Nat /\ Column(f)[i] = Ledger!Records[i][f]
    BY RecordIs, KnownIs DEF Column
<1>3. Ledger!Sum(rows, f) = SumFunctionOnSet(Column(f), rows)
    BY Zenon, LedgerSum DEF Ledger!Sum, Column
<1>4. SumFunctionOnSet(Column(f), rows) \in Nat
    BY <1>1, <1>2, SumNat
<1> QED
    BY <1>1, <1>2, <1>3, <1>4

(* _sum_known *)
LEMMA SumKnownIs ==
  ASSUME NEW f, NEW rows, rows # {}
  PROVE  Ledger!SumKnown(rows, f) =
           IF \E i \in rows : Ledger!Records[i][f] = Ledger!Unknown THEN Ledger!Unknown
           ELSE Ledger!Sum(rows, f)
BY Zenon DEF Ledger!SumKnown

(* _scope_total *)
LEMMA ScopeIs ==
  ASSUME LedgerTypes, NEW rows \in SUBSET Ledger!Rows, rows # {}
  PROVE  /\ \A f \in Ledger!Fields :
              Ledger!ScopeTotal(rows).values[f] =
                IF Hidden(rows, f) THEN Ledger!Unknown ELSE Ledger!Sum(rows, f)
         /\ Ledger!ScopeTotal(rows).confidence =
              IF \A i \in rows : Ledger!Records[i].confidence = "exact" THEN "exact" ELSE "partial"
<1> DEFINE s == Ledger!Sessions(rows)
           e == rows \ s
<1>1. /\ s \in SUBSET rows
      /\ \A i \in rows : i \in s <=> Ledger!Records[i].session
      /\ \A i \in s : Ledger!Records[i].confidence # "exact"
    BY RecordIs DEF Ledger!Sessions
<1>2. Ledger!ScopeTotal(rows) =
        IF s = {} THEN Ledger!Rollup(e)
        ELSE IF e = {} THEN Ledger!Aggregate(s)
        ELSE Ledger!Combine(Ledger!Rollup(e), Ledger!Aggregate(s))
    BY Zenon DEF Ledger!ScopeTotal
<1> HIDE DEF s
<1>3. CASE s = {}
  <2>1. e = rows /\ Ledger!ScopeTotal(rows) = Ledger!Rollup(rows)
      BY <1>2, <1>3
  <2>2. \A f \in Ledger!Fields : Ledger!ScopeTotal(rows).values[f] = Ledger!SumKnown(rows, f)
      BY <2>1 DEF Ledger!Rollup
  <2>3. \A f : Hidden(rows, f) <=> \E i \in rows : Ledger!Records[i][f] = Ledger!Unknown
      BY <1>1, <1>3 DEF Hidden
  <2>4. Ledger!ScopeTotal(rows).confidence = Ledger!Confidence(rows)
      BY <2>1 DEF Ledger!Rollup
  <2>5. \A f \in Ledger!Fields :
          Ledger!ScopeTotal(rows).values[f] =
            IF Hidden(rows, f) THEN Ledger!Unknown ELSE Ledger!Sum(rows, f)
    <3> TAKE f \in Ledger!Fields
    <3> QED
        BY Zenon, <2>2, <2>3, SumKnownIs
  <2> QED
      BY <2>4, <2>5 DEF Ledger!Confidence
<1>4. CASE s # {} /\ e = {}
  <2>1. s = rows /\ Ledger!ScopeTotal(rows) = Ledger!Aggregate(rows)
      BY <1>1, <1>2, <1>4
  <2>2. \A f \in Ledger!Fields : Ledger!ScopeTotal(rows).values[f] =
          IF f \in Ledger!Costs THEN Ledger!Unknown ELSE Ledger!SumKnown(rows, f)
      BY <2>1 DEF Ledger!Aggregate
  <2>3. Ledger!ScopeTotal(rows).confidence = "partial"
      BY <2>1 DEF Ledger!Aggregate
  <2>4. \A f : f \in Ledger!Costs => Hidden(rows, f)
      BY <1>1, <2>1 DEF Hidden
  <2>5. \A f : f \notin Ledger!Costs =>
          (Hidden(rows, f) <=> \E i \in rows : Ledger!Records[i][f] = Ledger!Unknown)
      BY DEF Hidden
  <2>6. \A f \in Ledger!Fields :
          Ledger!ScopeTotal(rows).values[f] =
            IF Hidden(rows, f) THEN Ledger!Unknown ELSE Ledger!Sum(rows, f)
    <3> TAKE f \in Ledger!Fields
    <3> QED
        BY Zenon, <2>2, <2>4, <2>5, SumKnownIs
  <2> QED
      BY <1>1, <2>1, <2>3, <2>6
<1>5. CASE s # {} /\ e # {}
  <2> DEFINE v(f) == Ledger!SumKnown(e, f)
             w(f) == Ledger!SumKnown(s, f)
  <2>1. Ledger!ScopeTotal(rows) = Ledger!Combine(Ledger!Rollup(e), Ledger!Aggregate(s))
      BY <1>2, <1>5
  <2>2. Ledger!ScopeTotal(rows).confidence = "partial"
      BY <2>1 DEF Ledger!Combine
  <2>3. \A f \in Ledger!Fields : f \in Ledger!Costs =>
          Ledger!ScopeTotal(rows).values[f] = Ledger!Unknown /\ Hidden(rows, f)
      BY <1>1, <1>5, <2>1 DEF Ledger!Combine, Hidden
  <2>4. \A f \in Ledger!Fields :
          Ledger!Rollup(e).values[f] = v(f) /\ (f \notin Ledger!Costs => Ledger!Aggregate(s).values[f] = w(f))
      BY DEF Ledger!Rollup, Ledger!Aggregate
  <2> HIDE DEF v, w
  <2>5. \A f \in Ledger!Fields : f \notin Ledger!Costs =>
          Ledger!ScopeTotal(rows).values[f] =
            IF Ledger!Unknown \in {v(f), w(f)} THEN Ledger!Unknown ELSE v(f) + w(f)
      BY <2>1, <2>4 DEF Ledger!Combine
  <2>6. ASSUME NEW f \in Ledger!Fields, f \notin Ledger!Costs
        PROVE  Ledger!ScopeTotal(rows).values[f] =
                 IF Hidden(rows, f) THEN Ledger!Unknown ELSE Ledger!Sum(rows, f)
    <3>1. Hidden(rows, f) <=> \E i \in rows : Ledger!Records[i][f] = Ledger!Unknown
        BY <2>6 DEF Hidden
    <3>2. /\ v(f) = IF \E i \in e : Ledger!Records[i][f] = Ledger!Unknown THEN Ledger!Unknown
                    ELSE Ledger!Sum(e, f)
          /\ w(f) = IF \E i \in s : Ledger!Records[i][f] = Ledger!Unknown THEN Ledger!Unknown
                    ELSE Ledger!Sum(s, f)
        BY Zenon, <1>5, SumKnownIs DEF v, w
    <3>3. CASE \E i \in rows : Ledger!Records[i][f] = Ledger!Unknown
      <4>1. Ledger!Unknown \in {v(f), w(f)}
          BY <1>1, <3>2, <3>3
      <4> QED
          BY <2>5, <2>6, <3>1, <3>3, <4>1
    <3>4. CASE ~ \E i \in rows : Ledger!Records[i][f] = Ledger!Unknown
      <4>1. e \in SUBSET Ledger!Rows /\ s \in SUBSET Ledger!Rows /\ e \union s = rows
            /\ e \intersect s = {}
          BY <1>1
      <4>2. /\ ~ \E i \in e : Ledger!Records[i][f] = Ledger!Unknown
            /\ ~ \E i \in s : Ledger!Records[i][f] = Ledger!Unknown
          BY <3>4, <4>1
      <4> HIDE DEF e
      <4>3. v(f) = Ledger!Sum(e, f) /\ w(f) = Ledger!Sum(s, f)
          BY <3>2, <4>2
      <4>4. /\ IsFiniteSet(e) /\ IsFiniteSet(s) /\ Ledger!Sum(e, f) \in Nat /\ Ledger!Sum(s, f) \in Nat
            /\ Ledger!Sum(e, f) = SumFunctionOnSet(Column(f), e)
            /\ Ledger!Sum(s, f) = SumFunctionOnSet(Column(f), s)
          BY <4>1, <4>2, SumOfRows
      <4>5. /\ Ledger!Sum(rows, f) = SumFunctionOnSet(Column(f), rows)
            /\ \A i \in rows : Column(f)[i] \in Int
          BY <3>4, SumOfRows
      <4>6. Ledger!Sum(rows, f) = Ledger!Sum(e, f) + Ledger!Sum(s, f)
        <5>1. SumFunctionOnSet(Column(f), e \union s) =
                SumFunctionOnSet(Column(f), e) + SumFunctionOnSet(Column(f), s)
            BY <4>1, <4>4, <4>5, SumUnion
        <5> QED
            BY <4>1, <4>4, <4>5, <5>1
      <4>7. Ledger!Unknown \notin {v(f), w(f)}
          BY <4>3, <4>4 DEF Ledger!Unknown
      <4> QED
          BY <2>5, <2>6, <3>1, <3>4, <4>3, <4>6, <4>7
    <3> QED
        BY <3>3, <3>4
  <2>7. ~ \A i \in rows : Ledger!Records[i].confidence = "exact"
      BY <1>1, <1>5
  <2> QED
      BY <2>2, <2>3, <2>6, <2>7
<1> QED
    BY <1>3, <1>4, <1>5

(* Adding up the scopes of a partition of the rows gives what the whole has. *)
LEMMA AgreeIs ==
  ASSUME LedgerTypes, observed # <<>>, NEW key, NEW group, NEW parts,
         DOMAIN parts = {key[i] : i \in Ledger!Rows},
         IsDivided(Ledger!Rows, key, DOMAIN parts, group),
         \A x \in DOMAIN parts : parts[x] = Ledger!ScopeTotal(group[x])
  PROVE  Ledger!Agree(parts)
<1> DEFINE K == DOMAIN parts
           all == Ledger!Rows
<1>1. /\ all # {} /\ IsFiniteSet(all) /\ IsFiniteSet(K)
      /\ \A i \in all : key[i] \in K /\ i \in group[key[i]]
      /\ \A x \in K : group[x] \in SUBSET all /\ group[x] # {}
    BY RowsAre, ImageFinite DEF IsDivided
<1>2. \A x \in K : parts[x] = Ledger!ScopeTotal(group[x])
    OBVIOUS
<1>3. /\ \A f \in Ledger!Fields :
            Ledger!Global.values[f] = IF Hidden(all, f) THEN Ledger!Unknown ELSE Ledger!Sum(all, f)
      /\ Ledger!Global.confidence =
            IF \A i \in all : Ledger!Records[i].confidence = "exact" THEN "exact" ELSE "partial"
    BY <1>1, ScopeIs DEF Ledger!Global
<1>4. ASSUME NEW x \in K
      PROVE  /\ \A f \in Ledger!Fields : parts[x].values[f] =
                  IF Hidden(group[x], f) THEN Ledger!Unknown ELSE Ledger!Sum(group[x], f)
             /\ parts[x].confidence =
                  IF \A i \in group[x] : Ledger!Records[i].confidence = "exact" THEN "exact" ELSE "partial"
    BY <1>1, <1>2, <1>4, ScopeIs
<1>5. \A f : Hidden(all, f) <=> \E x \in K : Hidden(group[x], f)
    BY <1>1 DEF Hidden
<1>6. ASSUME NEW f \in Ledger!Fields, NEW x \in K, ~Hidden(all, f)
      PROVE  /\ parts[x].values[f] = SumFunctionOnSet(Column(f), group[x])
             /\ parts[x].values[f] \in Nat
  <2>1. ~Hidden(group[x], f)
      BY <1>5, <1>6
  <2>2. ~ \E i \in group[x] : Ledger!Records[i][f] = Ledger!Unknown
      BY <2>1 DEF Hidden
  <2>3. group[x] \in SUBSET Ledger!Rows
      BY <1>1
  <2>4. parts[x].values[f] = Ledger!Sum(group[x], f)
      BY <1>4, <2>1
  <2> QED
      BY <2>2, <2>3, <2>4, SumOfRows
<1>7. ASSUME NEW f \in Ledger!Fields
      PROVE  IF \E x \in K : parts[x].values[f] = Ledger!Unknown
             THEN Ledger!Global.values[f] = Ledger!Unknown
             ELSE Ledger!Global.values[f] \in
                    {Ledger!Unknown, Ledger!SumFunctionOnSet([x \in K |-> parts[x].values[f]], K)}
  <2> DEFINE value == [x \in K |-> parts[x].values[f]]
  <2>1. CASE Hidden(all, f)
      BY <1>3, <2>1
  <2>2. CASE ~Hidden(all, f)
    <3>1. \A x \in K : parts[x].values[f] # Ledger!Unknown
      <4>1. \A x \in K : parts[x].values[f] \in Nat
          BY <1>6, <2>2
      <4>2. \A v \in Nat : v # Ledger!Unknown
          BY DEF Ledger!Unknown
      <4> QED
          BY <4>1, <4>2
    <3>2. \A x \in K : value[x] = SumFunctionOnSet(Column(f), group[x])
        BY <1>6, <2>2
    <3>3. ~ \E i \in all : Ledger!Records[i][f] = Ledger!Unknown
        BY <2>2 DEF Hidden
    <3>4. /\ \A i \in all : Column(f)[i] \in Int
          /\ Ledger!Sum(all, f) = SumFunctionOnSet(Column(f), all)
      <4>1. all \in SUBSET Ledger!Rows
          OBVIOUS
      <4>2. \A i \in all : Column(f)[i] \in Nat
          BY <3>3, <4>1, SumOfRows
      <4>3. Ledger!Sum(all, f) = SumFunctionOnSet(Column(f), all)
          BY <3>3, <4>1, SumOfRows
      <4> QED
          BY <4>2, <4>3
    <3> HIDE DEF value
    <3>5. SumFunctionOnSet(value, K) = SumFunctionOnSet(Column(f), all)
      <4>1. PICK g, S, V : g = Column(f) /\ S = all /\ V = K
          OBVIOUS
      <4>2. IsFiniteSet(S) /\ IsFiniteSet(V) /\ \A i \in S : g[i] \in Int
          BY <1>1, <3>4, <4>1
      <4>3. IsDivided(S, key, V, group) /\ AreSums(value, V, g, group)
          BY <1>1, <3>2, <4>1 DEF IsDivided, AreSums
      <4>4. SumFunctionOnSet(value, V) = SumFunctionOnSet(g, S)
          BY <4>2, <4>3, SumPartition
      <4> QED
          BY Zenon, <4>1, <4>4
    <3>6. Ledger!Global.values[f] = Ledger!SumFunctionOnSet(value, K)
        BY <1>3, <2>2, <3>4, <3>5, LedgerSum
    <3> QED
        BY <3>1, <3>6 DEF value
  <2> QED
      BY <2>1, <2>2
<1>8. Ledger!Global.confidence = "exact" => \A x \in K : parts[x].confidence = "exact"
    BY <1>1, <1>3, <1>4
<1> QED
    BY <1>7, <1>8 DEF Ledger!Agree

(* The totals of the scopes agree. *)
LEMMA TotalsAre == LedgerTypes => Ledger!TotalsAgree
<1> SUFFICES ASSUME LedgerTypes, observed # <<>>
             PROVE  /\ Ledger!Agree([a \in Ledger!AccountsSeen |-> Ledger!ScopeTotal(Ledger!InAccount(a))])
                    /\ Ledger!Agree([p \in Ledger!ProvidersSeen |-> Ledger!ScopeTotal(Ledger!InProvider(p))])
                    /\ Ledger!Global.confidence = "exact" => damaged \intersect Ledger!AccountsSeen = {}
    BY DEF Ledger!TotalsAgree
<1> DEFINE accounts == [i \in Ledger!Rows |-> Ledger!Records[i].account]
           providers == [i \in Ledger!Rows |-> Ledger!Records[i].provider]
           byAccount == [a \in Ledger!AccountsSeen |-> Ledger!ScopeTotal(Ledger!InAccount(a))]
           byProvider == [p \in Ledger!ProvidersSeen |-> Ledger!ScopeTotal(Ledger!InProvider(p))]
<1>1. /\ \A x : Ledger!InAccount(x) = {i \in Ledger!Rows : accounts[i] = x}
      /\ Ledger!AccountsSeen = {accounts[i] : i \in Ledger!Rows}
    BY DEF Ledger!InAccount, Ledger!AccountsSeen
<1>2. /\ \A x : Ledger!InProvider(x) = {i \in Ledger!Rows : providers[i] = x}
      /\ Ledger!ProvidersSeen = {providers[i] : i \in Ledger!Rows}
    BY DEF Ledger!InProvider, Ledger!ProvidersSeen
<1> HIDE DEF accounts, providers
<1>3. Ledger!Agree(byAccount)
  <2>1. DOMAIN byAccount = {accounts[i] : i \in Ledger!Rows}
      BY <1>1
  <2>2. PICK group : group = [a \in Ledger!AccountsSeen |-> Ledger!InAccount(a)]
      OBVIOUS
  <2>3. /\ IsDivided(Ledger!Rows, accounts, DOMAIN byAccount, group)
        /\ \A x \in DOMAIN byAccount : byAccount[x] = Ledger!ScopeTotal(group[x])
      BY <1>1, <2>2 DEF IsDivided
  <2> HIDE DEF byAccount
  <2> QED
      BY <2>1, <2>3, AgreeIs
<1>4. Ledger!Agree(byProvider)
  <2>1. DOMAIN byProvider = {providers[i] : i \in Ledger!Rows}
      BY <1>2
  <2>2. PICK group : group = [p \in Ledger!ProvidersSeen |-> Ledger!InProvider(p)]
      OBVIOUS
  <2>3. /\ IsDivided(Ledger!Rows, providers, DOMAIN byProvider, group)
        /\ \A x \in DOMAIN byProvider : byProvider[x] = Ledger!ScopeTotal(group[x])
      BY <1>2, <2>2 DEF IsDivided
  <2> HIDE DEF byProvider
  <2> QED
      BY <2>1, <2>3, AgreeIs
<1>5. Ledger!Global.confidence = "exact" => damaged \intersect Ledger!AccountsSeen = {}
  <2>1. Ledger!Rows # {}
      BY RowsAre
  <2>2. Ledger!Global.confidence =
          IF \A i \in Ledger!Rows : Ledger!Records[i].confidence = "exact" THEN "exact" ELSE "partial"
      BY <2>1, ScopeIs DEF Ledger!Global
  <2> QED
      BY <2>2, RecordIs DEF Ledger!AccountsSeen
<1> QED
    BY <1>3, <1>4, <1>5


-----------------------------------------------------------------------------
(* t is what u holds on M, kind by kind. *)
Adds(t, u, M) ==
  /\ \A i \in M : u[i] \in Ledger!Tokens
  /\ t = [k \in Kinds |-> t[k]]
  /\ \A k \in Kinds : t[k] = SumFunctionOnSet([i \in M |-> u[i][k]], M)

(* What is charged of each. *)
Charging(u, M, c) == [i \in M |-> Ledger!Charged(u[i], c)]

(* Sums of well-formed tokens are well-formed, and charged for what they are of. *)
LEMMA AddedTokens ==
  ASSUME NEW t, NEW u, NEW M, IsFiniteSet(M), Adds(t, u, M)
  PROVE  /\ t \in Ledger!Tokens
         /\ t["mixed"] > 0 <=> \E i \in M : u[i]["mixed"] > 0
         /\ \A c \in Ledger!Charges :
              Ledger!Charged(t, c) = SumFunctionOnSet(Charging(u, M, c), M)
<1> DEFINE g(k) == [i \in M |-> u[i][k]]
           both == [i \in M |-> u[i]["short"] + u[i]["long"]]
           rest == Charging(u, M, "write")
<1>1. \A i \in M : u[i] \in [Kinds -> Nat] /\ u[i]["short"] + u[i]["long"] <= u[i]["write"]
    BY TokensHold DEF Adds
<1>2. \A k \in Kinds : t[k] = SumFunctionOnSet(g(k), M)
    BY DEF Adds
<1>3. \A k \in Kinds : \A i \in M : g(k)[i] \in Nat /\ g(k)[i] = u[i][k]
    BY <1>1
<1>4. \A i \in M : /\ both[i] \in Int /\ rest[i] \in Int
                   /\ both[i] = g("short")[i] + g("long")[i]
                   /\ both[i] <= g("write")[i]
                   /\ g("write")[i] = both[i] + rest[i]
    BY <1>1 DEF Kinds, Charging, Ledger!Charged
<1> HIDE DEF g, both, rest
<1>5. \A k \in Kinds : t[k] \in Nat
    BY <1>2, <1>3, SumNat
<1>6. /\ {"in", "mixed", "read", "write", "short", "long", "out"} = Kinds
      /\ \A k \in {"in", "mixed", "read", "write", "short", "long", "out"} :
           \A i \in M : g(k)[i] \in Int
    BY <1>3 DEF Kinds
<1>7. SumFunctionOnSet(both, M) = t["short"] + t["long"]
  <2>1. \A i \in M : /\ g("short")[i] \in Int /\ g("long")[i] \in Int
                     /\ both[i] = g("short")[i] + g("long")[i]
      BY <1>4, <1>6
  <2>2. SumFunctionOnSet(both, M) = SumFunctionOnSet(g("short"), M) + SumFunctionOnSet(g("long"), M)
      BY <2>1, SumPlus
  <2> QED
      BY <1>2, <1>6, <2>2
<1>8. SumFunctionOnSet(both, M) <= t["write"]
  <2>1. \A i \in M : both[i] \in Int /\ g("write")[i] \in Int /\ both[i] <= g("write")[i]
      BY <1>4, <1>6
  <2>2. SumFunctionOnSet(both, M) <= SumFunctionOnSet(g("write"), M)
      BY <2>1, SumMono
  <2> QED
      BY <1>2, <1>6, <2>2
<1>9. SumFunctionOnSet(rest, M) = t["write"] - t["short"] - t["long"]
  <2>1. \A i \in M : both[i] \in Int /\ rest[i] \in Int /\ g("write")[i] = both[i] + rest[i]
      BY <1>4
  <2>2. SumFunctionOnSet(g("write"), M) = SumFunctionOnSet(both, M) + SumFunctionOnSet(rest, M)
      BY <2>1, SumPlus
  <2>3. SumFunctionOnSet(both, M) \in Int /\ SumFunctionOnSet(rest, M) \in Int
      BY <2>1, SumType
  <2>4. t["write"] = (t["short"] + t["long"]) + SumFunctionOnSet(rest, M)
      BY <1>2, <1>6, <1>7, <2>2
  <2>5. t["write"] \in Nat /\ t["short"] \in Nat /\ t["long"] \in Nat
      BY <1>5, <1>6
  <2> QED
      BY <2>3, <2>4, <2>5
<1>10. t \in Ledger!Tokens
  <2>1. t \in [Kinds -> Nat]
      BY <1>5 DEF Adds
  <2> QED
      BY <1>7, <1>8, <2>1, TokensHold
<1>11. t["mixed"] > 0 <=> \E i \in M : u[i]["mixed"] > 0
  <2>1. \A i \in M : g("mixed")[i] \in Nat /\ g("mixed")[i] = u[i]["mixed"]
      BY <1>3, <1>6
  <2>2. t["mixed"] = SumFunctionOnSet(g("mixed"), M)
      BY <1>2, <1>6
  <2> QED
      BY <2>1, <2>2, SumPositive
<1>12. ASSUME NEW c \in Ledger!Charges
       PROVE  Ledger!Charged(t, c) = SumFunctionOnSet(Charging(u, M, c), M)
  <2>1. CASE c = "write"
      BY <1>9, <2>1 DEF Ledger!Charged, rest
  <2>2. CASE c # "write"
    <3>1. Charging(u, M, c) = g(c)
        BY <2>2 DEF Charging, Ledger!Charged, g
    <3>2. Ledger!Charged(t, c) = t[c] /\ c \in Kinds
        BY <2>2 DEF Ledger!Charged, Ledger!Charges, Kinds
    <3> QED
        BY <1>2, <3>1, <3>2
  <2> QED
      BY <2>1, <2>2
<1> QED
    BY <1>10, <1>11, <1>12

(* The price of what was used in several observations of a model is unknown  *)
(* with one of their prices, and otherwise their sum.                        *)
LEMMA PriceAdds ==
  ASSUME NEW m, NEW t, NEW u, NEW M, IsFiniteSet(M), M # {}, Adds(t, u, M)
  PROVE  /\ Ledger!Price(m, t) = Ledger!Unknown <=>
              \E i \in M : Ledger!Price(m, u[i]) = Ledger!Unknown
         /\ Ledger!Price(m, t) # Ledger!Unknown =>
              /\ \A i \in M : Ledger!Price(m, u[i]) \in Nat
              /\ Ledger!Price(m, t) = SumFunctionOnSet([i \in M |-> Ledger!Price(m, u[i])], M)
<1> DEFINE C == Ledger!Charges
           prices == [i \in M |-> Ledger!Price(m, u[i])]
           q == [i \in M |-> [c \in C |-> Charge(m, u[i], c)]]
<1>1. /\ t \in Ledger!Tokens
      /\ t["mixed"] > 0 <=> \E i \in M : u[i]["mixed"] > 0
      /\ \A c \in C : Ledger!Charged(t, c) = SumFunctionOnSet(Charging(u, M, c), M)
    BY AddedTokens
<1>2. \A i \in M : u[i] \in Ledger!Tokens
    BY DEF Adds
<1>3. \A c \in C : \A i \in M : /\ Charging(u, M, c)[i] = Ledger!Charged(u[i], c)
                                /\ Ledger!Charged(u[i], c) \in Nat
    BY <1>2, ChargedType DEF Charging
<1>4. \A c \in C : Ledger!Charged(t, c) > 0 <=> \E i \in M : Ledger!Charged(u[i], c) > 0
  <2> TAKE c \in C
  <2>1. \A i \in M : Charging(u, M, c)[i] \in Nat
      BY <1>3
  <2>2. SumFunctionOnSet(Charging(u, M, c), M) > 0 <=> \E i \in M : Charging(u, M, c)[i] > 0
      BY <2>1, SumPositive
  <2> QED
      BY <1>1, <1>3, <2>2
<1>5. Unpriced(m, t) <=> \E i \in M : Unpriced(m, u[i])
    BY <1>1, <1>4 DEF Unpriced
<1>6. Ledger!Price(m, t) = Ledger!Unknown <=> \E i \in M : Ledger!Price(m, u[i]) = Ledger!Unknown
    BY <1>1, <1>2, <1>5, PriceType
<1>7. ASSUME Ledger!Price(m, t) # Ledger!Unknown
      PROVE  /\ \A i \in M : Ledger!Price(m, u[i]) \in Nat
             /\ Ledger!Price(m, t) = SumFunctionOnSet(prices, M)
  <2>1. ~Unpriced(m, t) /\ \A i \in M : ~Unpriced(m, u[i])
      BY <1>1, <1>5, <1>7, PriceType
  <2>2. /\ \A i \in M : /\ \A c \in C : Charge(m, u[i], c) \in Nat
                        /\ Ledger!Price(m, u[i]) \in Nat
        /\ \A c \in C : Charge(m, t, c) \in Nat
      BY <1>1, <1>2, <2>1, PriceIs
  <2>3. \A i \in M : prices[i] = SumFunctionOnSet(q[i], C)
    <3> TAKE i \in M
    <3>1. q[i] = [c \in C |-> Charge(m, u[i], c)]
        OBVIOUS
    <3>2. Ledger!Price(m, u[i]) = SumFunctionOnSet([c \in C |-> Charge(m, u[i], c)], C)
        BY <1>2, <2>1, PriceIs
    <3> HIDE DEF q
    <3> QED
        BY <3>1, <3>2
  <2>4. \A i \in M : \A c \in C : q[i][c] \in Int /\ q[i][c] = Charge(m, u[i], c)
      BY <2>2
  <2>5. \A c \in C : Charge(m, t, c) = SumFunctionOnSet([i \in M |-> q[i][c]], M)
    <3> TAKE c \in C
    <3>1. PICK r \in Int : r = Ledger!RateOf(m, c)
      <4>1. m \in DOMAIN Rates
          BY <2>1 DEF Unpriced
      <4> QED
          BY <4>1, RateType, KnownIs DEF Ledger!Unknown
    <3> DEFINE column == [i \in M |-> q[i][c]]
    <3>2. \A i \in M : column[i] = Ledger!Charged(u[i], c) * r
        BY <2>4, <3>1 DEF Charge
    <3>3. \A i \in M : Charging(u, M, c)[i] \in Int /\ column[i] = Charging(u, M, c)[i] * r
        BY <1>3, <3>2
    <3> HIDE DEF column
    <3>4. SumFunctionOnSet(column, M) = SumFunctionOnSet(Charging(u, M, c), M) * r
        BY <3>3, SumTimes
    <3>5. Charge(m, t, c) = SumFunctionOnSet(column, M)
        BY <1>1, <3>1, <3>4 DEF Charge
    <3> QED
        BY <3>5 DEF column
  <2>6. Ledger!Price(m, t) = SumFunctionOnSet([c \in C |-> Charge(m, t, c)], C)
      BY <1>1, <2>1, PriceIs
  <2> HIDE DEF q
  <2>7. prices = [i \in M |-> SumFunctionOnSet(q[i], C)]
    <3>1. \A i \in M : Ledger!Price(m, u[i]) = SumFunctionOnSet(q[i], C)
        BY <2>3
    <3> QED
        BY <3>1
  <2>8. [c \in C |-> Charge(m, t, c)] = [c \in C |-> SumFunctionOnSet([i \in M |-> q[i][c]], M)]
      BY Zenon, <2>5
  <2>9. SumFunctionOnSet([i \in M |-> SumFunctionOnSet(q[i], C)], M) =
          SumFunctionOnSet([c \in C |-> SumFunctionOnSet([i \in M |-> q[i][c]], M)], C)
    <3>1. IsFiniteSet(C)
        BY ChargesFinite
    <3> HIDE DEF C
    <3>2. \A i \in M : \A c \in C : q[i][c] \in Int
        BY <2>4
    <3> QED
        BY <3>1, <3>2, SumSwap
  <2> HIDE DEF prices
  <2> QED
      BY Zenon, <2>2, <2>6, <2>7, <2>8, <2>9
<1> QED
    BY <1>6, <1>7


(* What is in the scope of a provider of events. *)
LEMMA ProviderRows ==
  ASSUME LedgerTypes, NEW p \in {ProviderOf(a) : a \in Datasets}
  PROVE  /\ IsFiniteSet(Ledger!InProvider(p)) /\ Ledger!InProvider(p) \in SUBSET Ledger!Rows
         /\ \A i \in Ledger!InProvider(p) :
              /\ observed[i].model \in LedgerModels
              /\ observed[i].tokens \in Ledger!Tokens
              /\ Ledger!Records[i].session = FALSE
              /\ Ledger!Records[i]["api"] = Ledger!Price(observed[i].model, observed[i].tokens)
<1>1. p # "grok"
    BY LedgerIs
<1>2. Ledger!InProvider(p) \in SUBSET Ledger!Rows
    BY DEF Ledger!InProvider
<1>3. IsFiniteSet(Ledger!InProvider(p))
    BY <1>2, RowsAre, FS_Subset
<1>4. ASSUME NEW i \in Ledger!InProvider(p)
      PROVE  observed[i] \in EventEntries
  <2>1. i \in Ledger!Rows /\ Ledger!Records[i].provider = p
      BY DEF Ledger!InProvider
  <2>2. observed[i] \notin SessionEntries
      BY <1>1, <2>1, SessionIs
  <2> QED
      BY <2>1, <2>2, RowsAre
<1>5. \A i \in Ledger!InProvider(p) :
        observed[i].model \in LedgerModels /\ observed[i].tokens \in Ledger!Tokens
    BY <1>4 DEF EventEntries
<1>6. \A i \in Ledger!InProvider(p) :
        /\ Ledger!Records[i].session = FALSE
        /\ Ledger!Records[i]["api"] = Ledger!Price(observed[i].model, observed[i].tokens)
    BY <1>2, <1>4, EventIs
<1> QED
    BY <1>2, <1>3, <1>5, <1>6

(* The tokens of a model in the datasets of a provider. *)
LEMMA ModelTokensAdd ==
  ASSUME LedgerTypes, NEW p \in {ProviderOf(a) : a \in Datasets}, NEW m,
         NEW u, u = [i \in Ledger!InProvider(p) |-> observed[i].tokens]
  PROVE  Adds(Ledger!ModelTokens(p, m), u, Ledger!OfModel(p, m))
<1> DEFINE M == Ledger!OfModel(p, m)
           P == Ledger!InProvider(p)
           t == Ledger!ModelTokens(p, m)
<1>1. M \in SUBSET P /\ IsFiniteSet(M) /\ \A i \in P : u[i] = observed[i].tokens /\ u[i] \in Ledger!Tokens
    BY ProviderRows, FS_Subset DEF Ledger!OfModel
<1>2. t = [k \in Kinds |-> SumFunctionOnSet([i \in P |-> observed[i].tokens[k]], M)]
    BY Zenon, LedgerSum DEF Ledger!ModelTokens, Kinds
<1> HIDE DEF M, P, t
<1>3. t = [k \in Kinds |-> t[k]]
    BY <1>2
<1>4. ASSUME NEW k \in Kinds
      PROVE  t[k] = SumFunctionOnSet([i \in M |-> u[i][k]], M)
  <2> DEFINE g == [i \in P |-> observed[i].tokens[k]]
             h == [i \in M |-> u[i][k]]
  <2>1. \A i \in M : g[i] \in Int /\ g[i] = h[i]
    <3>1. \A i \in M : u[i] \in Ledger!Tokens
        BY <1>1
    <3>2. \A i \in M : u[i][k] \in Nat
        BY <3>1, TokensHold
    <3> QED
        BY <1>1, <3>2
  <2>2. t[k] = SumFunctionOnSet(g, M)
      BY <1>2
  <2> HIDE DEF g, h
  <2>3. SumFunctionOnSet(g, M) = SumFunctionOnSet(h, M)
      BY <1>1, <2>1, SumEqual
  <2> QED
      BY <2>2, <2>3 DEF h
<1>5. \A i \in M : u[i] \in Ledger!Tokens
    BY <1>1
<1> QED
    BY Zenon, <1>3, <1>4, <1>5 DEF Adds, M, t

(* The total price of a provider is the sum of its models' prices. *)
LEMMA WholePrice ==
  ASSUME LedgerTypes, NEW p \in {ProviderOf(a) : a \in Datasets}, NEW billed, NEW price,
         billed = {m \in LedgerModels : Ledger!OfModel(p, m) # {}}, billed # {},
         price = [m \in billed |-> Ledger!Price(m, Ledger!ModelTokens(p, m))]
  PROVE  LET total == Ledger!ScopeTotal(Ledger!InProvider(p)).values["api"]
         IN /\ total = Ledger!Unknown <=> \E m \in billed : price[m] = Ledger!Unknown
            /\ total # Ledger!Unknown => total = SumFunctionOnSet(price, billed)
<1> DEFINE P == Ledger!InProvider(p)
           total == Ledger!ScopeTotal(P).values["api"]
           M(m) == Ledger!OfModel(p, m)
<1>1. /\ IsFiniteSet(P) /\ P \in SUBSET Ledger!Rows
      /\ \A i \in P : /\ observed[i].model \in LedgerModels
                      /\ observed[i].tokens \in Ledger!Tokens
                      /\ Ledger!Records[i].session = FALSE
                      /\ Ledger!Records[i]["api"] = Ledger!Price(observed[i].model, observed[i].tokens)
    BY ProviderRows
<1> HIDE DEF P
<1>2. PICK u : u = [i \in P |-> observed[i].tokens]
    OBVIOUS
<1>3. /\ \A m : \A i : i \in M(m) <=> i \in P /\ observed[i].model = m
      /\ \A m : M(m) \in SUBSET P
    BY DEF P, Ledger!OfModel
<1>4. IsFiniteSet(billed) /\ \A i \in P : observed[i].model \in billed
  <2>1. IsFiniteSet(LedgerModels) /\ billed \in SUBSET LedgerModels
      BY LedgerIs
  <2> QED
      BY <1>1, <1>3, <2>1, FS_Subset
<1>5. P # {}
    BY <1>3
<1>6. \A m \in billed : /\ price[m] = Ledger!Price(m, Ledger!ModelTokens(p, m))
                       /\ Adds(Ledger!ModelTokens(p, m), u, M(m))
                       /\ IsFiniteSet(M(m)) /\ M(m) # {}
  <2>1. \A m \in billed : price[m] = Ledger!Price(m, Ledger!ModelTokens(p, m)) /\ M(m) # {}
      BY Zenon
  <2>2. \A m : IsFiniteSet(M(m))
      BY <1>1, <1>3, FS_Subset
  <2>3. \A m : Adds(Ledger!ModelTokens(p, m), u, M(m))
      BY <1>2, ModelTokensAdd DEF P
  <2> QED
      BY <2>1, <2>2, <2>3
<1> HIDE DEF M
<1>7. \A m \in billed : \A i \in M(m) : Ledger!Price(m, u[i]) = Ledger!Records[i]["api"]
    BY <1>1, <1>2, <1>3
<1>8. ASSUME NEW m \in billed
      PROVE  /\ price[m] = Ledger!Unknown <=>
                  \E i \in M(m) : Ledger!Records[i]["api"] = Ledger!Unknown
             /\ price[m] # Ledger!Unknown =>
                  price[m] = SumFunctionOnSet([i \in M(m) |-> Ledger!Records[i]["api"]], M(m))
  <2>1. PICK t : t = Ledger!ModelTokens(p, m)
      OBVIOUS
  <2>2. price[m] = Ledger!Price(m, t) /\ Adds(t, u, M(m)) /\ IsFiniteSet(M(m)) /\ M(m) # {}
      BY <1>6, <2>1
  <2>3. /\ Ledger!Price(m, t) = Ledger!Unknown <=>
              \E i \in M(m) : Ledger!Price(m, u[i]) = Ledger!Unknown
        /\ Ledger!Price(m, t) # Ledger!Unknown =>
              Ledger!Price(m, t) = SumFunctionOnSet([i \in M(m) |-> Ledger!Price(m, u[i])], M(m))
      BY <2>2, PriceAdds
  <2>4. [i \in M(m) |-> Ledger!Price(m, u[i])] = [i \in M(m) |-> Ledger!Records[i]["api"]]
      BY <1>7
  <2> QED
      BY <1>7, <2>2, <2>3, <2>4
<1>9. Hidden(P, "api") <=> \E m \in billed : price[m] = Ledger!Unknown
  <2>1. Hidden(P, "api") <=> \E i \in P : Ledger!Records[i]["api"] = Ledger!Unknown
      BY <1>1 DEF Hidden
  <2>2. ASSUME NEW i \in P, Ledger!Records[i]["api"] = Ledger!Unknown
        PROVE  \E m \in billed : price[m] = Ledger!Unknown
    <3>1. PICK m \in billed : i \in M(m)
        BY <1>3, <1>4
    <3>2. \E j \in M(m) : Ledger!Records[j]["api"] = Ledger!Unknown
        BY <2>2, <3>1
    <3>3. price[m] = Ledger!Unknown
        BY <1>8, <3>2
    <3> QED
        BY <3>3
  <2>3. ASSUME NEW m \in billed, price[m] = Ledger!Unknown
        PROVE  \E i \in P : Ledger!Records[i]["api"] = Ledger!Unknown
    <3>1. PICK i \in M(m) : Ledger!Records[i]["api"] = Ledger!Unknown
        BY <1>8, <2>3
    <3> QED
        BY <1>3, <3>1
  <2> QED
      BY Zenon, <2>1, <2>2, <2>3
<1>10. total = IF Hidden(P, "api") THEN Ledger!Unknown ELSE Ledger!Sum(P, "api")
    BY <1>1, <1>5, ScopeIs DEF Ledger!Fields
<1>11. ASSUME ~Hidden(P, "api")
       PROVE  total = SumFunctionOnSet(price, billed) /\ total \in Nat
  <2>1. "api" \in Ledger!Fields /\ ~ \E i \in P : Ledger!Records[i]["api"] = Ledger!Unknown
      BY <1>11 DEF Hidden, Ledger!Fields
  <2>2. /\ \A i \in P : Column("api")[i] \in Nat /\ Column("api")[i] = Ledger!Records[i]["api"]
        /\ total = SumFunctionOnSet(Column("api"), P)
        /\ total \in Nat
      BY <1>1, <1>10, <1>11, <2>1, SumOfRows
  <2>3. PICK g, key, group : /\ g = Column("api")
                             /\ key = [i \in P |-> observed[i].model]
                             /\ group = [m \in billed |-> M(m)]
      OBVIOUS
  <2>4. IsDivided(P, key, billed, group)
      BY <1>3, <1>4, <2>3 DEF IsDivided
  <2>5. \A i \in P : g[i] \in Int
      BY <2>2, <2>3
  <2>6. AreSums(price, billed, g, group)
    <3>1. ASSUME NEW m \in billed
          PROVE  price[m] = SumFunctionOnSet(g, M(m))
      <4> DEFINE h == [i \in M(m) |-> Ledger!Records[i]["api"]]
      <4>1. \A i \in M(m) : h[i] \in Int /\ h[i] = g[i]
          BY <1>3, <2>2, <2>3
      <4>2. price[m] = SumFunctionOnSet(h, M(m))
          BY <1>8, <1>9, <1>11
      <4> HIDE DEF h
      <4>3. SumFunctionOnSet(h, M(m)) = SumFunctionOnSet(g, M(m))
          BY <1>6, <4>1, SumEqual
      <4> QED
          BY <4>2, <4>3
    <3> QED
        BY <2>3, <3>1 DEF AreSums
  <2>7. SumFunctionOnSet(price, billed) = SumFunctionOnSet(g, P)
      BY <1>1, <1>4, <2>4, <2>5, <2>6, SumPartition
  <2> QED
      BY <2>2, <2>3, <2>7
<1>12. \A v \in Nat : v # Ledger!Unknown
    BY DEF Ledger!Unknown
<1> QED
    BY <1>9, <1>10, <1>11, <1>12 DEF P

(* No token of a price that is shown goes without its rate. *)
LEMMA PricesAre == LedgerTypes => Ledger!PriceIsWhole
<1> SUFFICES ASSUME LedgerTypes, NEW p \in {ProviderOf(a) : a \in Datasets}, NEW billed, NEW price,
                    billed = {m \in LedgerModels : Ledger!OfModel(p, m) # {}}, billed # {},
                    price = [m \in billed |-> Ledger!Price(m, Ledger!ModelTokens(p, m))],
                    NEW total, total = Ledger!ScopeTotal(Ledger!InProvider(p)).values["api"]
             PROVE  /\ total = Ledger!Unknown <=> \E m \in billed : price[m] = Ledger!Unknown
                    /\ total # Ledger!Unknown =>
                         /\ total = Ledger!SumFunctionOnSet(price, billed)
                         /\ \A m \in billed :
                              LET t == Ledger!ModelTokens(p, m)
                              IN t["mixed"] = 0 /\ m \in DOMAIN Rates
                                 /\ (t["read"] > 0 => Rates[m]["read"] # Ledger!NoRate)
    BY Zenon DEF Ledger!PriceIsWhole
<1>1. /\ total = Ledger!Unknown <=> \E m \in billed : price[m] = Ledger!Unknown
      /\ total # Ledger!Unknown => total = SumFunctionOnSet(price, billed)
    BY WholePrice
<1>2. ASSUME NEW m \in billed, price[m] # Ledger!Unknown
      PROVE  LET t == Ledger!ModelTokens(p, m)
             IN t["mixed"] = 0 /\ m \in DOMAIN Rates
                /\ (t["read"] > 0 => Rates[m]["read"] # Ledger!NoRate)
  <2>1. PICK t, u : t = Ledger!ModelTokens(p, m) /\ u = [i \in Ledger!InProvider(p) |-> observed[i].tokens]
      OBVIOUS
  <2>2. IsFiniteSet(Ledger!OfModel(p, m))
      BY ProviderRows, FS_Subset DEF Ledger!OfModel
  <2>3. t \in Ledger!Tokens
      BY <2>1, <2>2, ModelTokensAdd, AddedTokens
  <2>4. ~Unpriced(m, t)
    <3>1. Ledger!Price(m, t) # Ledger!Unknown
        BY Zenon, <1>2, <2>1
    <3> QED
        BY <2>3, <3>1, PriceType
  <2>5. t["mixed"] \in Nat /\ "read" \in Ledger!Charges
        /\ Ledger!Charged(t, "read") = t["read"] /\ Ledger!RateOf(m, "read") = Rates[m]["read"]
      BY <2>3, TokensHold DEF Kinds, Ledger!Charges, Ledger!Charged, Ledger!RateOf
  <2> QED
      BY <2>1, <2>4, <2>5 DEF Unpriced
<1> QED
    BY <1>1, <1>2, LedgerSum

-----------------------------------------------------------------------------
(* What the datasets hold stays well-formed. *)
LEMMA LedgerStep == LedgerTypes /\ [Ledger!LedgerNext]_ledgerVars => LedgerTypes'
<1> SUFFICES ASSUME LedgerTypes, [Ledger!LedgerNext]_ledgerVars
             PROVE  LedgerTypes'
    OBVIOUS
<1>1. ASSUME NEW o \in EventEntries \union SessionEntries, observed' = Append(observed, o)
      PROVE  LedgerTypes'
    BY <1>1 DEF LedgerTypes
<1>2. ASSUME NEW a \in Datasets, NEW m \in LedgerModels, NEW t \in Mixes, NEW cost \in Reported,
             Ledger!Observe(a, m, t, cost)
      PROVE  LedgerTypes'
  <2>1. [account |-> a, model |-> m, tokens |-> t, reported |-> cost] \in EventEntries
      BY LedgerIs DEF EventEntries
  <2> QED
      BY <1>1, <1>2, <2>1 DEF Ledger!Observe
<1>3. ASSUME NEW a \in GrokAccounts, NEW tokens \in {1, Ledger!Unknown}, NEW cost \in {1, Ledger!Unknown},
             Ledger!DiscoverSession(a, tokens, cost)
      PROVE  LedgerTypes'
  <2>1. {1, Ledger!Unknown} \subseteq Ledger!Known
      BY KnownIs
  <2>2. [account |-> a, tokens |-> tokens, reported |-> cost] \in SessionEntries
      BY <2>1 DEF SessionEntries
  <2> QED
      BY <1>1, <1>3, <2>2 DEF Ledger!DiscoverSession
<1>4. CASE UNCHANGED observed
    BY <1>4 DEF LedgerTypes
<1> QED
    BY <1>2, <1>3, <1>4 DEF Ledger!LedgerNext, Ledger!ReadError, ledgerVars

(* Only the steps of this part change any of it. *)
LEMMA LedgerRun == [PollingNext]_pollingVars => [Ledger!LedgerNext]_ledgerVars
BY DEF PollingNext, pollingVars

(* The types of the ledger hold in every behaviour of the poll. *)
THEOREM LedgerInvariant == PollingSpec => []LedgerTypes
<1>1. PollingInit => LedgerTypes
    BY DEF PollingInit, Ledger!LedgerInit, LedgerTypes
<1> QED
    BY <1>1, LedgerRun, LedgerStep, PTL DEF PollingSpec

(* Prices: the totals agree, a price that is given covers everything, and    *)
(* the rate that converts it says how old it is.                             *)
THEOREM PricesAreHonestCorrect == PollingSpec => []PricesAreHonest
<1>1. LedgerTypes /\ (part = "rate" => Fx!QuoteHonest) => PricesAreHonest
    BY TotalsAre, PricesAre DEF PricesAreHonest
<1> QED
    BY <1>1, LedgerInvariant, QuoteHonestCorrect, PTL

-----------------------------------------------------------------------------
(* The scan of Grok's sessions (GrokScan).                                 *)

Payloads == [total : Int, rows : Int, bad : Int, declared : BOOLEAN, count : Int]
Sessions == [id : Grok!Ids, total : Int, rows : Int, count : Int, complete : BOOLEAN]

Codes == {"session_limit_reached", "invalid_session_id", "ambiguous_session_id", "command_not_found",
          "partial_turn_rows", "command_failed"}

(* Whose session was there when process c discovered them. *)
Was(c) == {d \in Dirs : before[c][d] # Grok!NoSession}
WasReported(c) == {d \in Dirs : report[c].before[d] # Grok!NoSession}
Settled == Grok!Unique(Grok!Present)

GrokTypes ==
    /\ dir \in [Dirs -> Payloads]
    /\ \A d \in Grok!Present : dir[d].total \in Nat
    /\ print \in [Dirs -> Nat]
    /\ entries \in [Grok!Ids -> [print : Int, payload : Payloads]]
    /\ scanPc \in [Scanners -> {"idle", "next", "answered"}]
    /\ queue \in [Scanners -> SUBSET Dirs]
    /\ noted \in [Scanners -> [Dirs -> Nat]]
    /\ asked \in [Scanners -> Payloads]
    /\ kept \in [Scanners -> SUBSET Sessions]
    /\ issues \in [Scanners -> SUBSET Codes]
    /\ before \in [Scanners -> [Dirs -> Payloads]]
    /\ report \in [Scanners -> [found : SUBSET Sessions, issues : SUBSET Codes,
                                before : [Dirs -> Payloads]]]

(* A modification state of a directory stands for one payload, whoever noted *)
(* it, and the client only adds.                                             *)
NotedInv ==
    \A c \in Scanners :
        /\ queue[c] \subseteq Was(c)
        /\ Was(c) \subseteq Grok!Present /\ WasReported(c) \subseteq Grok!Present
        /\ \A d \in Dirs : noted[c][d] <= print[d]
        /\ \A d \in Was(c) :
             /\ before[c][d].total <= dir[d].total
             /\ noted[c][d] = print[d] => before[c][d].total = dir[d].total
        /\ \A b \in Scanners : \A d \in Was(b) \intersect Was(c) :
             noted[b][d] = noted[c][d] => before[b][d].total = before[c][d].total

(* What the cache has for a modification state is no less than what was      *)
(* stored in that state.                                                     *)
EntriesInv ==
    /\ \A i \in Grok!Ids : entries[i] # Grok!NoEntry => \E d \in Grok!Present : IdOf(d) = i
    /\ \A d \in Settled :
        /\ entries[IdOf(d)].print <= print[d]
        /\ entries[IdOf(d)].print = print[d] => dir[d].total <= entries[IdOf(d)].payload.total
        /\ \A c \in Scanners : d \in Was(c) /\ entries[IdOf(d)].print = noted[c][d] =>
             before[c][d].total <= entries[IdOf(d)].payload.total

(* Neither is an answer, or what was found, less than it was before. *)
AnswersInv ==
    \A c \in Scanners :
        /\ scanPc[c] = "answered" => queue[c] # {}
        /\ scanPc[c] = "answered" /\ Grok!Item(c) \in Settled =>
             before[c][Grok!Item(c)].total <= asked[c].total
        /\ \A s \in kept[c] : \A d \in Was(c) \intersect Settled :
             s.id = IdOf(d) => before[c][d].total <= s.total

(* While nothing is at issue, every session that was there has been found or *)
(* is still to be read, once.                                                *)
WholeInv ==
    \A c \in Scanners :
        scanPc[c] # "idle" /\ issues[c] = {} =>
            /\ Was(c) = Grok!Unique(Was(c))
            /\ {s.id : s \in kept[c]} \union {IdOf(d) : d \in queue[c]} = {IdOf(d) : d \in Was(c)}
            /\ \A s, t \in kept[c] : s.id = t.id => s = t
            /\ \A s \in kept[c] : \A d \in queue[c] : s.id # IdOf(d)

GrokInv == GrokTypes /\ NotedInv /\ EntriesInv /\ AnswersInv /\ WholeInv /\ Grok!GrokInventoryHonest

-----------------------------------------------------------------------------
(* The names the instance gives to operators of FiniteSets. *)
LEMMA DirCardinality == \A S : Grok!Cardinality(S) = Cardinality(S)
BY Zenon DEF Grok!Cardinality, Cardinality

(* What is assumed of the directories and the limit. *)
LEMMA DirsAre == Dirs \subseteq Nat /\ IsFiniteSet(Dirs) /\ MaxSessions \in Nat
<1>1. Grok!IsFiniteSet(Dirs) <=> IsFiniteSet(Dirs)
    BY Zenon DEF Grok!IsFiniteSet, IsFiniteSet
<1> QED
    BY <1>1, ScanAssumption DEF Grok!GrokAssumption

(* Directories that are there are walked in order. *)
LEMMA LeastDir ==
    ASSUME NEW S \in SUBSET Dirs, S # {}
    PROVE  \E d \in S : \A e \in S : d <= e
<1>1. IsFiniteSet(S)
    BY DirsAre, FS_Subset
<1>2. S \subseteq Int
    BY DirsAre
<1> QED
    BY <1>1, <1>2, MaxExists

(* There is a session whose turn it is while some are left. *)
LEMMA ItemIs ==
    ASSUME NEW c \in Scanners, queue \in [Scanners -> SUBSET Dirs], queue[c] # {}
    PROVE  Grok!Item(c) \in queue[c] /\ Grok!Item(c) \in Dirs
<1>1. \E d \in queue[c] : \A e \in queue[c] : d <= e
    BY LeastDir
<1> QED
    BY <1>1 DEF Grok!Item

(* A walk that gives no reason to doubt it has seen every session. *)
LEMMA WalkIsWhole ==
    ASSUME Grok!DiscoveryIssues = {}
    PROVE  Grok!Present = Grok!Unique(Grok!Present) /\ Grok!Discovered = Grok!Present
<1> DEFINE valid == {d \in Grok!Present : IdOf(d) \notin Invalid}
           U == Grok!Unique(Grok!WalkedValid)
           Many(e) == ~(Cardinality(Grok!Unique(Grok!Upto(valid, e))) <= MaxSessions)
<1>1. /\ ~(Cardinality(U) > MaxSessions)
      /\ ~ \E d \in Grok!Walked : IdOf(d) \in Invalid
      /\ U = Grok!WalkedValid
    BY DirCardinality DEF Grok!DiscoveryIssues
<1>2. /\ IsFiniteSet(U) /\ IsFiniteSet(Grok!WalkedValid)
      /\ Grok!WalkedValid \subseteq valid /\ valid \subseteq Dirs
      /\ Grok!WalkedValid = Grok!Walked
    BY <1>1, DirsAre, FS_Subset DEF Grok!WalkedValid, Grok!Walked, Grok!Present, Grok!Unique
<1>3. ASSUME NEW e \in Dirs, Many(e), \A d \in Dirs : d < e => ~Many(d)
      PROVE  FALSE
  <2>1. ASSUME NEW d \in Grok!Upto(valid, e)
        PROVE  d \in Grok!WalkedValid
    <3>1. d \in Grok!Present /\ IdOf(d) \notin Invalid /\ d <= e /\ d \in Nat /\ e \in Nat
        BY <2>1, DirsAre DEF Grok!Upto, Grok!Present
    <3>2. \A x \in Dirs : x < d => x < e
        BY <3>1, DirsAre
    <3>3. \A x \in Dirs : x < d => ~Many(x)
        BY <1>3, <3>2
    <3>4. d \in Grok!Walked
        BY <3>1, <3>3, DirCardinality DEF Grok!Walked
    <3> QED
        BY <3>1, <3>4 DEF Grok!WalkedValid
  <2>2. Grok!Unique(Grok!Upto(valid, e)) \in SUBSET U
      BY <1>1, <2>1 DEF Grok!Unique
  <2>3. /\ Cardinality(Grok!Unique(Grok!Upto(valid, e))) <= Cardinality(U)
        /\ Cardinality(Grok!Unique(Grok!Upto(valid, e))) \in Nat /\ Cardinality(U) \in Nat
      BY <1>2, <2>2, FS_Subset, FS_CardinalityType
  <2> QED
      BY <1>1, <1>3, <2>3, DirsAre
<1>4. \A e \in Dirs : ~Many(e)
  <2> SUFFICES ASSUME {e \in Dirs : Many(e)} # {}
               PROVE  FALSE
      OBVIOUS
  <2>1. PICK e \in {x \in Dirs : Many(x)} : \A x \in {y \in Dirs : Many(y)} : e <= x
    <3>1. {x \in Dirs : Many(x)} \in SUBSET Dirs
        OBVIOUS
    <3> HIDE DEF Many
    <3> QED
        BY <3>1, LeastDir
  <2>2. \A d \in Dirs : d < e => ~Many(d)
    <3> HIDE DEF Many
    <3> QED
        BY <2>1, DirsAre
  <2> HIDE DEF Many
  <2> QED
      BY <1>3, <2>1, <2>2
<1>5. Grok!Present = Grok!Walked
    BY <1>4, DirCardinality DEF Grok!Walked, Grok!Present
<1>6. Grok!Unique(Grok!Present) = Grok!Present /\ Grok!WalkedValid = Grok!Present
    BY <1>1, <1>2, <1>5
<1>7. ASSUME NEW d \in U
      PROVE  Cardinality({e \in U : e < d}) < MaxSessions
  <2>1. {e \in U : e < d} \in SUBSET U /\ d \in Nat
      BY <1>2, DirsAre DEF Grok!Unique
  <2>2. {e \in U : e < d} # U
      BY <2>1
  <2>3. /\ Cardinality({e \in U : e < d}) <= Cardinality(U)
        /\ Cardinality({e \in U : e < d}) # Cardinality(U)
        /\ Cardinality({e \in U : e < d}) \in Nat /\ Cardinality(U) \in Nat
    <3> HIDE DEF U
    <3> QED
        BY <1>2, <2>1, <2>2, FS_Subset, FS_CardinalityType
  <2> QED
      BY <1>1, <2>3, DirsAre
<1>8. Grok!Discovered = U
    BY <1>7, DirCardinality DEF Grok!Discovered
<1> QED
    BY <1>1, <1>6, <1>8

-----------------------------------------------------------------------------
(* The client: what is there stays, a state that is kept is kept with its    *)
(* tokens, and a new session has no entry yet.                               *)
Grown ==
    /\ dir' \in [Dirs -> Payloads] /\ print' \in [Dirs -> Nat]
    /\ Grok!Present \subseteq Grok!Present'
    /\ \A d \in Grok!Present' : dir'[d].total \in Nat
    /\ \A d \in Dirs : print[d] <= print'[d]
    /\ \A d \in Grok!Present :
        /\ dir[d].total <= dir'[d].total
        /\ print'[d] = print[d] => dir'[d].total = dir[d].total
    /\ UNCHANGED <<entries, scans, scanPc, queue, noted, asked, kept, issues, report, before>>

(* A turn adds to the tokens of a session. *)
LEMMA TurnAdds ==
    ASSUME NEW q \in Payloads, NEW p, p = [q EXCEPT !.total = @ + 1, !.rows = @ + 1, !.count = @ + 1]
    PROVE  p \in Payloads /\ p.total = q.total + 1
<1>1. PICK i \in Int, j \in Int, k \in Int, b \in BOOLEAN, n \in Int :
         q = [total |-> i, rows |-> j, bad |-> k, declared |-> b, count |-> n]
    BY DEF Payloads
<1>2. p = [total |-> i + 1, rows |-> j + 1, bad |-> k, declared |-> b, count |-> n + 1]
    BY <1>1
<1> QED
    BY <1>1, <1>2 DEF Payloads

(* Every step of the client is of that kind. *)
LEMMA ClientGrows ==
    ASSUME GrokTypes, NEW d \in Dirs, Grok!Create(d) \/ Grok!Turn(d) \/ Grok!MalformedRow(d)
    PROVE  Grown
<1>1. /\ dir \in [Dirs -> Payloads] /\ print \in [Dirs -> Nat]
      /\ \A e \in Grok!Present : dir[e].total \in Nat
    BY DEF GrokTypes
<1>2. UNCHANGED <<entries, scans, scanPc, queue, noted, asked, kept, issues, report, before>>
    BY DEF Grok!Create, Grok!Turn, Grok!MalformedRow, Grok!scan
<1>3. CASE Grok!Create(d)
  <2>1. /\ dir[d] = Grok!NoSession /\ print' = print
        /\ dir' = [dir EXCEPT ![d] = [total |-> 0, rows |-> 0, bad |-> 0,
                                      declared |-> d \in Declaring, count |-> 0]]
      BY <1>3 DEF Grok!Create, Grok!scan
  <2>2. dir' \in [Dirs -> Payloads] /\ dir'[d].total = 0
      BY <1>1, <2>1 DEF Payloads
  <2>3. \A e \in Dirs : e # d => dir'[e] = dir[e]
      BY <1>1, <2>1
  <2>4. d \notin Grok!Present
      BY <2>1 DEF Grok!Present
  <2>5. \A e \in Grok!Present' : e = d \/ e \in Grok!Present
      BY <2>3 DEF Grok!Present
  <2>6. Grok!Present \subseteq Grok!Present'
      BY <2>3, <2>4 DEF Grok!Present
  <2>7. \A e \in Grok!Present : e \in Dirs /\ dir'[e] = dir[e]
      BY <2>3, <2>4 DEF Grok!Present
  <2>8. \A e \in Grok!Present' : dir'[e].total \in Nat
      BY <1>1, <2>2, <2>5, <2>7
  <2> QED
      BY <1>1, <1>2, <2>1, <2>2, <2>6, <2>7, <2>8 DEF Grown
<1>4. ASSUME NEW p, p \in Payloads, d \in Grok!Present,
             dir' = [dir EXCEPT ![d] = p], print' = [print EXCEPT ![d] = @ + 1],
             dir[d].total <= p.total
      PROVE  Grown
  <2>1. /\ \A e \in Dirs : e # d => dir'[e] = dir[e] /\ print'[e] = print[e]
        /\ dir'[d] = p /\ print'[d] = print[d] + 1
      BY <1>1, <1>4
  <2>2. dir' \in [Dirs -> Payloads] /\ print' \in [Dirs -> Nat]
      BY <1>1, <1>4
  <2>3. dir[d].total \in Nat /\ p.total \in Int
      BY <1>1, <1>4 DEF Payloads
  <2>4. p # Grok!NoSession /\ p.total \in Nat
      BY <1>4, <2>3 DEF Grok!NoSession
  <2>5. Grok!Present' = Grok!Present
      BY <1>4, <2>1, <2>4 DEF Grok!Present
  <2>6. \A e \in Dirs : print[e] <= print'[e] /\ print[d] # print'[d]
      BY <1>1, <2>1
  <2>7. ASSUME NEW e \in Grok!Present
        PROVE  /\ dir[e].total <= dir'[e].total /\ dir'[e].total \in Nat
               /\ print'[e] = print[e] => dir'[e].total = dir[e].total
    <3>1. e \in Dirs
        BY DEF Grok!Present
    <3>2. CASE e = d
        BY <1>4, <2>1, <2>4, <2>6, <3>2
    <3>3. CASE e # d
        BY <1>1, <2>1, <3>1, <3>3
    <3> QED
        BY <3>2, <3>3
  <2> QED
      BY <1>2, <2>2, <2>5, <2>6, <2>7 DEF Grown
<1>5. CASE Grok!Turn(d)
  <2>1. PICK q, p : q = dir[d] /\ p = [q EXCEPT !.total = @ + 1, !.rows = @ + 1, !.count = @ + 1]
      OBVIOUS
  <2>2. d \in Grok!Present /\ dir[d] \in Payloads /\ print' = [print EXCEPT ![d] = @ + 1]
      BY <1>1, <1>5 DEF Grok!Turn, Grok!Present
  <2>3. q \in Payloads /\ q.total \in Int
      BY <2>1, <2>2 DEF Payloads
  <2>4. p \in Payloads /\ p.total = q.total + 1
      BY <2>1, <2>3, TurnAdds
  <2>5. dir' = [dir EXCEPT ![d] = p]
      BY <1>5, <2>1 DEF Grok!Turn
  <2>6. dir[d].total <= p.total
      BY <2>1, <2>3, <2>4
  <2> QED
      BY <1>4, <2>2, <2>4, <2>5, <2>6
<1>6. CASE Grok!MalformedRow(d)
  <2>1. PICK p : p = [dir[d] EXCEPT !.bad = 1]
      OBVIOUS
  <2>2. d \in Grok!Present /\ dir[d] \in Payloads /\ print' = [print EXCEPT ![d] = @ + 1]
      BY <1>1, <1>6 DEF Grok!MalformedRow, Grok!Present
  <2>3. p \in Payloads /\ dir[d].total <= p.total
      BY <2>1, <2>2 DEF Payloads
  <2>4. dir' = [dir EXCEPT ![d] = p]
      BY <1>6, <2>1 DEF Grok!MalformedRow
  <2> QED
      BY <1>4, <2>2, <2>3, <2>4
<1> QED
    BY <1>3, <1>5, <1>6

(* And it harms nothing: what was noted or stored is about an earlier state. *)
LEMMA ClientKeeps ==
    ASSUME GrokInv, Grown
    PROVE  GrokInv'
<1>1. GrokTypes /\ NotedInv /\ EntriesInv /\ AnswersInv /\ WholeInv /\ Grok!GrokInventoryHonest
    BY DEF GrokInv
<1>2. Grok!Present \subseteq Grok!Present' /\ Grok!Present' \subseteq Dirs
    BY DEF Grown, Grok!Present
<1>3. /\ UNCHANGED <<entries, scanPc, queue, noted, asked, kept, issues, report, before>>
      /\ \A c : Was(c)' = Was(c) /\ WasReported(c)' = WasReported(c)
      /\ \A c : Grok!Item(c)' = Grok!Item(c)
    BY DEF Grown, Was, WasReported, Grok!Item
<1>4. \A d \in Settled' : d \in Grok!Present => d \in Settled
    BY <1>2 DEF Settled, Grok!Unique
<1>5. GrokTypes'
    BY <1>1, <1>3 DEF Grown, GrokTypes
<1>6. NotedInv'
  <2>1. ASSUME NEW c \in Scanners
        PROVE  /\ queue[c] \subseteq Was(c)
               /\ Was(c) \subseteq Grok!Present' /\ WasReported(c) \subseteq Grok!Present'
               /\ \A d \in Dirs : noted[c][d] <= print'[d]
               /\ \A d \in Was(c) :
                    /\ before[c][d].total <= dir'[d].total
                    /\ noted[c][d] = print'[d] => before[c][d].total = dir'[d].total
    <3>1. /\ queue[c] \subseteq Was(c) /\ Was(c) \subseteq Dirs
          /\ Was(c) \subseteq Grok!Present /\ WasReported(c) \subseteq Grok!Present
          /\ \A d \in Dirs : noted[c][d] <= print[d]
          /\ \A d \in Was(c) :
               /\ before[c][d].total <= dir[d].total
               /\ noted[c][d] = print[d] => before[c][d].total = dir[d].total
        BY <1>1 DEF NotedInv, Was
    <3>2. \A d \in Dirs : noted[c][d] \in Nat /\ print[d] \in Nat /\ print'[d] \in Nat
                          /\ before[c][d].total \in Int /\ dir[d].total \in Int /\ dir'[d].total \in Int
        BY <1>1, <1>3, <1>5 DEF GrokTypes, Payloads
    <3>3. /\ \A d \in Dirs : print[d] <= print'[d]
          /\ \A d \in Grok!Present : dir[d].total <= dir'[d].total
                                   /\ (print'[d] = print[d] => dir'[d].total = dir[d].total)
        BY DEF Grown
    <3>4. ASSUME NEW d \in Dirs
          PROVE  noted[c][d] <= print'[d]
        BY <3>1, <3>2, <3>3
    <3>5. ASSUME NEW d \in Was(c)
          PROVE  /\ before[c][d].total <= dir'[d].total
                 /\ noted[c][d] = print'[d] => before[c][d].total = dir'[d].total
      <4>1. d \in Dirs /\ d \in Grok!Present
          BY <3>1
      <4>2. /\ noted[c][d] \in Nat /\ print[d] \in Nat /\ print'[d] \in Nat
            /\ before[c][d].total \in Int /\ dir[d].total \in Int /\ dir'[d].total \in Int
          BY <3>2, <4>1
      <4>3. before[c][d].total <= dir'[d].total
          BY <3>1, <3>3, <4>1, <4>2
      <4>4. ASSUME noted[c][d] = print'[d]
            PROVE  before[c][d].total = dir'[d].total
        <5>1. noted[c][d] <= print[d] /\ print[d] <= print'[d]
            BY <3>1, <3>3, <4>1
        <5>2. print'[d] = print[d] /\ noted[c][d] = print[d]
            BY <4>2, <4>4, <5>1
        <5> QED
            BY <3>1, <3>3, <4>1, <5>2
      <4> QED
          BY <4>3, <4>4
    <3> QED
        BY <1>2, <3>1, <3>4, <3>5
  <2>2. \A b, c \in Scanners : \A d \in Was(b) \intersect Was(c) :
             noted[b][d] = noted[c][d] => before[b][d].total = before[c][d].total
      BY <1>1 DEF NotedInv
  <2> QED
      BY <1>3, <2>1, <2>2 DEF NotedInv
<1>7. EntriesInv'
  <2>1. \A i \in Grok!Ids : entries[i] # Grok!NoEntry => \E d \in Grok!Present' : IdOf(d) = i
      BY <1>1, <1>2 DEF EntriesInv
  <2>2. ASSUME NEW d \in Settled'
        PROVE  /\ entries[IdOf(d)].print <= print'[d]
               /\ entries[IdOf(d)].print = print'[d] => dir'[d].total <= entries[IdOf(d)].payload.total
               /\ \A c \in Scanners : d \in Was(c) /\ entries[IdOf(d)].print = noted[c][d] =>
                    before[c][d].total <= entries[IdOf(d)].payload.total
    <3>1. d \in Grok!Present' /\ d \in Dirs /\ IdOf(d) \in Grok!Ids
        BY <1>2 DEF Settled, Grok!Unique, Grok!Ids
    <3>2. /\ print[d] \in Nat /\ print'[d] \in Nat /\ print[d] <= print'[d]
          /\ entries[IdOf(d)].print \in Int
          /\ \A c \in Scanners : noted[c][d] \in Nat
        BY <1>1, <3>1 DEF Grown, GrokTypes
    <3>3. CASE d \in Grok!Present
      <4>1. d \in Settled
          BY <1>4, <3>3
      <4>2. /\ entries[IdOf(d)].print <= print[d]
            /\ entries[IdOf(d)].print = print[d] => dir[d].total <= entries[IdOf(d)].payload.total
            /\ \A c \in Scanners : d \in Was(c) /\ entries[IdOf(d)].print = noted[c][d] =>
                    before[c][d].total <= entries[IdOf(d)].payload.total
          BY <1>1, <4>1 DEF EntriesInv
      <4>3. print'[d] = print[d] => dir'[d].total = dir[d].total
          BY <3>3 DEF Grown
      <4>4. entries[IdOf(d)].print = print'[d] => print'[d] = print[d]
          BY <3>2, <4>2
      <4> QED
          BY <3>2, <4>2, <4>3, <4>4
    <3>4. CASE d \notin Grok!Present
      <4>1. \A e \in Grok!Present : IdOf(e) # IdOf(d)
          BY <1>2, <3>4 DEF Settled, Grok!Unique
      <4>2. entries[IdOf(d)] = Grok!NoEntry
          BY <1>1, <3>1, <4>1 DEF EntriesInv
      <4>3. entries[IdOf(d)].print = -1
          BY <4>2 DEF Grok!NoEntry
      <4> QED
          BY <3>2, <4>3
    <3> QED
        BY <3>3, <3>4
  <2> QED
      BY <1>3, <2>1, <2>2 DEF EntriesInv
<1>8. AnswersInv'
  <2>1. ASSUME NEW c \in Scanners
        PROVE  /\ scanPc[c] = "answered" => queue[c] # {}
               /\ scanPc[c] = "answered" /\ Grok!Item(c) \in Settled' =>
                    before[c][Grok!Item(c)].total <= asked[c].total
               /\ \A s \in kept[c] : \A d \in Was(c) \intersect Settled' :
                    s.id = IdOf(d) => before[c][d].total <= s.total
    <3>1. queue[c] \subseteq Was(c) /\ Was(c) \subseteq Grok!Present /\ queue[c] \in SUBSET Dirs
        BY <1>1 DEF NotedInv, GrokTypes
    <3>2. queue[c] # {} => Grok!Item(c) \in Grok!Present
        BY <1>1, <3>1, ItemIs DEF GrokTypes
    <3> QED
        BY <1>1, <1>4, <3>1, <3>2 DEF AnswersInv
  <2> QED
      BY <1>3, <2>1 DEF AnswersInv
<1>9. WholeInv'
    BY <1>1, <1>3 DEF WholeInv, Grok!Unique
<1>10. Grok!GrokInventoryHonest'
  <2>1. \A c \in Scanners : \A d \in WasReported(c) : d \in Settled' => d \in Settled
      BY <1>1, <1>4 DEF NotedInv
  <2> QED
      BY <1>1, <1>3, <2>1 DEF Grok!GrokInventoryHonest, WasReported, Settled, Grok!Unique, Grok!IsPartial
<1> QED
    BY <1>5, <1>6, <1>7, <1>8, <1>9, <1>10 DEF GrokInv

-----------------------------------------------------------------------------
(* The steps of a scan leave the sessions alone.  A discovery begins with    *)
(* all of them, or with an issue.                                            *)
LEMMA DiscoverKeeps ==
    ASSUME GrokInv, NEW c \in Scanners, NEW installed \in BOOLEAN, Grok!Discover(c, installed)
    PROVE  GrokInv'
<1>1. GrokTypes /\ NotedInv /\ EntriesInv /\ AnswersInv /\ WholeInv /\ Grok!GrokInventoryHonest
    BY DEF GrokInv
<1>2. /\ scanPc[c] = "idle"
      /\ queue' = [queue EXCEPT ![c] = IF installed THEN Grok!Discovered ELSE {}]
      /\ noted' = [noted EXCEPT ![c] = print]
      /\ kept' = [kept EXCEPT ![c] = {}]
      /\ issues' = [issues EXCEPT ![c] = Grok!DiscoveryIssues
                      \union (IF installed \/ Grok!Discovered = {} THEN {} ELSE {"command_not_found"})]
      /\ before' = [before EXCEPT ![c] = dir]
      /\ scanPc' = [scanPc EXCEPT ![c] = "next"]
      /\ UNCHANGED <<dir, print, entries, asked, report>>
    BY DEF Grok!Discover
<1>3. /\ Grok!Present' = Grok!Present /\ Settled' = Settled
      /\ Grok!Present \subseteq Dirs /\ Settled \subseteq Grok!Present
      /\ Grok!Discovered \subseteq Grok!Present
    BY <1>2 DEF Grok!Present, Settled, Grok!Unique, Grok!Discovered, Grok!WalkedValid, Grok!Walked
<1>4. GrokTypes'
  <2>1. Grok!DiscoveryIssues \in SUBSET Codes
      BY DEF Grok!DiscoveryIssues, Codes
  <2>2. issues' \in [Scanners -> SUBSET Codes]
      BY <1>1, <1>2, <2>1 DEF GrokTypes, Codes
  <2>3. /\ queue' \in [Scanners -> SUBSET Dirs] /\ noted' \in [Scanners -> [Dirs -> Nat]]
        /\ kept' \in [Scanners -> SUBSET Sessions]
        /\ before' \in [Scanners -> [Dirs -> Payloads]]
        /\ scanPc' \in [Scanners -> {"idle", "next", "answered"}]
      BY <1>1, <1>2, <1>3 DEF GrokTypes
  <2> QED
      BY <1>1, <1>2, <1>3, <2>2, <2>3 DEF GrokTypes
<1>5. /\ queue'[c] \subseteq Grok!Discovered /\ noted'[c] = print /\ before'[c] = dir
      /\ kept'[c] = {} /\ scanPc'[c] = "next"
      /\ Was(c)' = Grok!Present
    BY <1>1, <1>2 DEF GrokTypes, Was, Grok!Present
<1>6. ASSUME NEW b \in Scanners, b # c
      PROVE  /\ queue'[b] = queue[b] /\ noted'[b] = noted[b] /\ before'[b] = before[b]
             /\ kept'[b] = kept[b] /\ scanPc'[b] = scanPc[b] /\ issues'[b] = issues[b]
             /\ Was(b)' = Was(b) /\ Grok!Item(b)' = Grok!Item(b)
    BY <1>1, <1>2, <1>6 DEF GrokTypes, Was, Grok!Item
<1>7. \A b \in Scanners : WasReported(b)' = WasReported(b)
    BY <1>2 DEF WasReported
<1>8. NotedInv'
  <2>1. ASSUME NEW b \in Scanners
        PROVE  /\ queue'[b] \subseteq Was(b)'
               /\ Was(b)' \subseteq Grok!Present /\ WasReported(b) \subseteq Grok!Present
               /\ \A d \in Dirs : noted'[b][d] <= print[d]
               /\ \A d \in Was(b)' :
                    /\ before'[b][d].total <= dir[d].total
                    /\ noted'[b][d] = print[d] => before'[b][d].total = dir[d].total
    <3>1. /\ \A d \in Dirs : print[d] \in Nat /\ print[d] <= print[d]
          /\ \A d \in Dirs : dir[d].total \in Int /\ dir[d].total <= dir[d].total
        BY <1>1 DEF GrokTypes, Payloads
    <3>2. WasReported(b) \subseteq Grok!Present
        BY <1>1 DEF NotedInv
    <3>3. CASE b = c
        BY <1>3, <1>5, <3>1, <3>2, <3>3
    <3>4. CASE b # c
        BY <1>1, <1>6, <3>4 DEF NotedInv
    <3> QED
        BY <3>3, <3>4
  <2>2. ASSUME NEW a \in Scanners, NEW b \in Scanners, NEW d \in Was(a)' \intersect Was(b)',
               noted'[a][d] = noted'[b][d]
        PROVE  before'[a][d].total = before'[b][d].total
    <3>1. CASE a = c /\ b = c
        BY <3>1
    <3>2. CASE a = c /\ b # c
        BY <1>5, <2>1, <2>2, <3>2
    <3>3. CASE a # c /\ b = c
        BY <1>5, <2>1, <2>2, <3>3
    <3>4. CASE a # c /\ b # c
        BY <1>1, <1>6, <2>2, <3>4 DEF NotedInv
    <3> QED
        BY <3>1, <3>2, <3>3, <3>4
  <2> QED
      BY <1>2, <1>3, <1>7, <2>1, <2>2 DEF NotedInv
<1>9. EntriesInv'
  <2>1. ASSUME NEW d \in Settled, NEW b \in Scanners, d \in Was(b)', entries[IdOf(d)].print = noted'[b][d]
        PROVE  before'[b][d].total <= entries[IdOf(d)].payload.total
    <3>1. CASE b = c
        BY <1>1, <1>5, <2>1, <3>1 DEF EntriesInv
    <3>2. CASE b # c
        BY <1>1, <1>6, <2>1, <3>2 DEF EntriesInv
    <3> QED
        BY <3>1, <3>2
  <2> QED
      BY <1>1, <1>2, <1>3, <2>1 DEF EntriesInv
<1>10. AnswersInv'
  <2>1. ASSUME NEW b \in Scanners
        PROVE  /\ scanPc'[b] = "answered" => queue'[b] # {}
               /\ scanPc'[b] = "answered" /\ Grok!Item(b)' \in Settled =>
                    before'[b][Grok!Item(b)'].total <= asked[b].total
               /\ \A s \in kept'[b] : \A d \in Was(b)' \intersect Settled :
                    s.id = IdOf(d) => before'[b][d].total <= s.total
    <3>1. CASE b = c
        BY <1>5, <3>1
    <3>2. CASE b # c
        BY <1>1, <1>6, <3>2 DEF AnswersInv
    <3> QED
        BY <3>1, <3>2
  <2> QED
      BY <1>2, <1>3, <2>1 DEF AnswersInv
<1>11. WholeInv'
  <2>1. ASSUME NEW b \in Scanners, scanPc'[b] # "idle", issues'[b] = {}
        PROVE  /\ Was(b)' = Grok!Unique(Was(b)')
               /\ {s.id : s \in kept'[b]} \union {IdOf(d) : d \in queue'[b]} = {IdOf(d) : d \in Was(b)'}
               /\ \A s, t \in kept'[b] : s.id = t.id => s = t
               /\ \A s \in kept'[b] : \A d \in queue'[b] : s.id # IdOf(d)
    <3>1. CASE b = c
      <4>1. Grok!DiscoveryIssues = {} /\ (installed \/ Grok!Discovered = {})
          BY <1>1, <1>2, <2>1, <3>1 DEF GrokTypes
      <4>2. Grok!Present = Grok!Unique(Grok!Present) /\ Grok!Discovered = Grok!Present
          BY <4>1, WalkIsWhole
      <4>3. queue'[c] = Grok!Discovered
          BY <1>1, <1>2, <4>1 DEF GrokTypes
      <4> QED
          BY <1>5, <3>1, <4>2, <4>3
    <3>2. CASE b # c
        BY <1>1, <1>6, <2>1, <3>2 DEF WholeInv
    <3> QED
        BY <3>1, <3>2
  <2> QED
      BY <2>1 DEF WholeInv, Grok!Unique
<1>12. Grok!GrokInventoryHonest'
  <2>1. Grok!Unique(Grok!Present)' = Grok!Unique(Grok!Present)
      BY <1>3 DEF Settled
  <2> QED
      BY <1>1, <1>2, <2>1 DEF Grok!GrokInventoryHonest, Grok!IsPartial
<1> QED
    BY <1>4, <1>8, <1>9, <1>10, <1>11, <1>12 DEF GrokInv

(* What is made of a payload. *)
LEMMA ParsedIs ==
    ASSUME NEW i \in Grok!Ids, NEW p \in Payloads
    PROVE  /\ Grok!Parsed(i, p) \in Sessions
           /\ Grok!Parsed(i, p).id = i /\ Grok!Parsed(i, p).total = p.total
BY DEF Payloads, Sessions, Grok!Parsed

(* What every step of a scan after the discovery leaves as it was. *)
Reading(c) ==
    /\ UNCHANGED <<dir, print, noted, before>>
    /\ queue' \in [Scanners -> SUBSET Dirs] /\ queue'[c] \subseteq queue[c]
    /\ \A b \in Scanners \ {c} : queue'[b] = queue[b]

(* So the sessions that were there, and what was noted of them, stay. *)
LEMMA ReadingKeeps ==
    ASSUME GrokInv, NEW c \in Scanners, Reading(c)
    PROVE  /\ Grok!Present' = Grok!Present /\ Settled' = Settled
           /\ Grok!Present \subseteq Dirs /\ Settled \subseteq Grok!Present
           /\ \A b : Was(b)' = Was(b)
           /\ \A b \in Scanners \ {c} : Grok!Item(b)' = Grok!Item(b)
           /\ UNCHANGED report => NotedInv'
<1>1. /\ Grok!Present' = Grok!Present /\ Settled' = Settled
      /\ Grok!Present \subseteq Dirs /\ Settled \subseteq Grok!Present
    BY DEF Reading, Grok!Present, Settled, Grok!Unique
<1>2. \A b : Was(b)' = Was(b)
    BY DEF Reading, Was
<1>3. \A b \in Scanners \ {c} : Grok!Item(b)' = Grok!Item(b)
    BY DEF Reading, Grok!Item
<1>4. ASSUME UNCHANGED report
      PROVE  NotedInv'
  <2>1. \A b : WasReported(b)' = WasReported(b)
      BY <1>4 DEF WasReported
  <2>2. \A b \in Scanners : queue'[b] \subseteq queue[b]
      BY DEF Reading
  <2> QED
      BY <1>1, <1>2, <2>1, <2>2 DEF Reading, NotedInv, GrokInv
<1> QED
    BY <1>1, <1>2, <1>3, <1>4

(* The session whose turn it is was there, and no other settled one has its id. *)
LEMMA ItemWasThere ==
    ASSUME GrokInv, NEW c \in Scanners, queue[c] # {}
    PROVE  /\ Grok!Item(c) \in queue[c] /\ Grok!Item(c) \in Was(c) /\ Grok!Item(c) \in Grok!Present
           /\ Grok!Item(c) \in Dirs /\ IdOf(Grok!Item(c)) \in Grok!Ids
           /\ \A d \in Settled : IdOf(d) = IdOf(Grok!Item(c)) => d = Grok!Item(c)
<1>1. Grok!Item(c) \in queue[c] /\ Grok!Item(c) \in Dirs
    BY ItemIs DEF GrokInv, GrokTypes
<1>2. Grok!Item(c) \in Was(c) /\ Grok!Item(c) \in Grok!Present
    BY <1>1 DEF GrokInv, NotedInv
<1> QED
    BY <1>1, <1>2 DEF Settled, Grok!Unique, Grok!Ids

(* A session that is taken. *)
LEMMA TakeKeeps ==
    ASSUME GrokInv, NEW c \in Scanners, NEW s \in Sessions, Grok!Take(c, s),
           scanPc[c] # "idle", queue[c] # {}, s.id = IdOf(Grok!Item(c)),
           Grok!Item(c) \in Settled => before[c][Grok!Item(c)].total <= s.total,
           scanPc' = [scanPc EXCEPT ![c] = "next"], \A b \in Scanners \ {c} : asked'[b] = asked[b],
           UNCHANGED <<dir, print, noted, report, before>>
    PROVE  /\ Reading(c) /\ NotedInv' /\ AnswersInv' /\ WholeInv' /\ Grok!GrokInventoryHonest'
           /\ kept' \in [Scanners -> SUBSET Sessions] /\ issues' \in [Scanners -> SUBSET Codes]
           /\ scanPc' \in [Scanners -> {"idle", "next", "answered"}]
<1> DEFINE d0 == Grok!Item(c)
<1>1. GrokTypes /\ NotedInv /\ EntriesInv /\ AnswersInv /\ WholeInv /\ Grok!GrokInventoryHonest
    BY DEF GrokInv
<1>2. /\ d0 \in queue[c] /\ d0 \in Was(c) /\ d0 \in Grok!Present /\ d0 \in Dirs
      /\ \A d \in Settled : IdOf(d) = IdOf(d0) => d = d0
    BY ItemWasThere
<1>3. /\ kept' = [kept EXCEPT ![c] = @ \union {s}]
      /\ issues' = [issues EXCEPT ![c] = IF s.complete THEN @ ELSE @ \union {"partial_turn_rows"}]
      /\ queue' = [queue EXCEPT ![c] = @ \ {d0}]
    BY DEF Grok!Take
<1>4. /\ kept' \in [Scanners -> SUBSET Sessions] /\ issues' \in [Scanners -> SUBSET Codes]
      /\ queue' \in [Scanners -> SUBSET Dirs]
      /\ scanPc' \in [Scanners -> {"idle", "next", "answered"}]
    BY <1>1, <1>3 DEF GrokTypes, Codes
<1>5. /\ kept'[c] = kept[c] \union {s} /\ queue'[c] = queue[c] \ {d0} /\ scanPc'[c] = "next"
      /\ issues[c] \subseteq issues'[c]
    BY <1>1, <1>3 DEF GrokTypes
<1>6. ASSUME NEW b \in Scanners, b # c
      PROVE  /\ queue'[b] = queue[b] /\ kept'[b] = kept[b] /\ scanPc'[b] = scanPc[b]
             /\ issues'[b] = issues[b] /\ asked'[b] = asked[b]
    BY <1>1, <1>3, <1>6 DEF GrokTypes
<1>7. Reading(c)
    BY <1>4, <1>5, <1>6 DEF Reading
<1>8. /\ Grok!Present' = Grok!Present /\ Settled' = Settled
      /\ \A b : Was(b)' = Was(b)
      /\ \A b \in Scanners \ {c} : Grok!Item(b)' = Grok!Item(b)
      /\ NotedInv'
    BY <1>7, ReadingKeeps
<1>9. AnswersInv'
  <2>1. ASSUME NEW b \in Scanners
        PROVE  /\ scanPc'[b] = "answered" => queue'[b] # {}
               /\ scanPc'[b] = "answered" /\ Grok!Item(b)' \in Settled =>
                    before[b][Grok!Item(b)'].total <= asked'[b].total
               /\ \A t \in kept'[b] : \A d \in Was(b) \intersect Settled :
                    t.id = IdOf(d) => before[b][d].total <= t.total
    <3>1. CASE b = c
      <4>1. ASSUME NEW t \in kept'[c], NEW d \in Was(c) \intersect Settled, t.id = IdOf(d)
            PROVE  before[c][d].total <= t.total
        <5>1. CASE t \in kept[c]
            BY <1>1, <4>1, <5>1 DEF AnswersInv
        <5>2. CASE t = s
          <6>1. d = d0
              BY <1>2, <4>1, <5>2
          <6> QED
              BY <4>1, <5>2, <6>1
        <5> QED
            BY <1>5, <5>1, <5>2
      <4> QED
          BY <1>5, <3>1, <4>1
    <3>2. CASE b # c
      <4>1. /\ scanPc[b] = "answered" => queue[b] # {}
            /\ scanPc[b] = "answered" /\ Grok!Item(b) \in Settled =>
                  before[b][Grok!Item(b)].total <= asked[b].total
            /\ \A t \in kept[b] : \A d \in Was(b) \intersect Settled :
                  t.id = IdOf(d) => before[b][d].total <= t.total
          BY <1>1 DEF AnswersInv
      <4> QED
          BY <1>6, <1>8, <3>2, <4>1
    <3> QED
        BY <3>1, <3>2
  <2> QED
      BY <1>8, <2>1 DEF AnswersInv
<1>10. WholeInv'
  <2>1. ASSUME NEW b \in Scanners, scanPc'[b] # "idle", issues'[b] = {}
        PROVE  /\ Was(b) = Grok!Unique(Was(b))
               /\ {t.id : t \in kept'[b]} \union {IdOf(d) : d \in queue'[b]} = {IdOf(d) : d \in Was(b)}
               /\ \A t, u \in kept'[b] : t.id = u.id => t = u
               /\ \A t \in kept'[b] : \A d \in queue'[b] : t.id # IdOf(d)
    <3>1. CASE b = c
      <4>1. /\ Was(c) = Grok!Unique(Was(c))
            /\ {t.id : t \in kept[c]} \union {IdOf(d) : d \in queue[c]} = {IdOf(d) : d \in Was(c)}
            /\ \A t, u \in kept[c] : t.id = u.id => t = u
            /\ \A t \in kept[c] : \A d \in queue[c] : t.id # IdOf(d)
          BY <1>1, <1>5, <2>1, <3>1 DEF WholeInv
      <4>2. \A t, u \in kept'[c] : t.id = u.id => t = u
          BY <1>2, <1>5, <4>1
      <4>3. \A d \in queue[c] : IdOf(d) = IdOf(d0) => d = d0
          BY <1>1, <1>2, <4>1 DEF NotedInv, Grok!Unique
      <4>4. \A t \in kept'[c] : \A d \in queue'[c] : t.id # IdOf(d)
          BY <1>5, <4>1, <4>3
      <4>5. {t.id : t \in kept'[c]} \union {IdOf(d) : d \in queue'[c]}
              = {t.id : t \in kept[c]} \union {IdOf(d) : d \in queue[c]}
          BY <1>2, <1>5
      <4> QED
          BY <3>1, <4>1, <4>2, <4>4, <4>5
    <3>2. CASE b # c
      <4>1. kept'[b] = kept[b] /\ queue'[b] = queue[b] /\ scanPc[b] # "idle" /\ issues[b] = {}
          BY <1>6, <2>1, <3>2
      <4>2. /\ Was(b) = Grok!Unique(Was(b))
            /\ {t.id : t \in kept[b]} \union {IdOf(d) : d \in queue[b]} = {IdOf(d) : d \in Was(b)}
            /\ \A t, u \in kept[b] : t.id = u.id => t = u
            /\ \A t \in kept[b] : \A d \in queue[b] : t.id # IdOf(d)
          BY <1>1, <4>1 DEF WholeInv
      <4> QED
          BY <4>1, <4>2
    <3> QED
        BY <3>1, <3>2
  <2> QED
      BY <1>8, <2>1 DEF WholeInv, Grok!Unique
<1>11. Grok!GrokInventoryHonest'
  <2>1. Grok!Unique(Grok!Present)' = Grok!Unique(Grok!Present)
      BY <1>8 DEF Settled
  <2> QED
      BY <1>1, <2>1 DEF Grok!GrokInventoryHonest, Grok!IsPartial
<1> QED
    BY <1>4, <1>7, <1>8, <1>9, <1>10, <1>11

(* A hit: the entry was stored for the state that was noted. *)
LEMMA FromCacheKeeps ==
    ASSUME GrokInv, NEW c \in Scanners, Grok!FromCache(c)
    PROVE  GrokInv'
<1> DEFINE d0 == Grok!Item(c)
           e == entries[IdOf(d0)]
           s == Grok!Parsed(IdOf(d0), e.payload)
<1>1. GrokTypes /\ EntriesInv
    BY DEF GrokInv
<1>2. /\ scanPc[c] = "next" /\ queue[c] # {}
      /\ e.print = noted[c][d0] /\ Grok!Take(c, s)
      /\ UNCHANGED <<dir, print, entries, scanPc, noted, asked, scans, report, before>>
    BY DEF Grok!FromCache, Grok!Hit, Grok!Entry
<1>3. d0 \in Was(c) /\ IdOf(d0) \in Grok!Ids
    BY <1>2, ItemWasThere
<1>4. e.payload \in Payloads
    BY <1>1, <1>3 DEF GrokTypes
<1>5. s \in Sessions /\ s.id = IdOf(d0) /\ s.total = e.payload.total
    BY <1>3, <1>4, ParsedIs
<1>6. d0 \in Settled => before[c][d0].total <= s.total
    BY <1>1, <1>2, <1>3, <1>5 DEF EntriesInv
<1>7. scanPc' = [scanPc EXCEPT ![c] = "next"]
    BY <1>1, <1>2 DEF GrokTypes
<1> HIDE DEF d0, e, s
<1>8. /\ Reading(c) /\ NotedInv' /\ AnswersInv' /\ WholeInv' /\ Grok!GrokInventoryHonest'
      /\ kept' \in [Scanners -> SUBSET Sessions] /\ issues' \in [Scanners -> SUBSET Codes]
    BY <1>2, <1>5, <1>6, <1>7, TakeKeeps DEF d0
<1>9. GrokTypes'
    BY <1>1, <1>2, <1>8, ReadingKeeps DEF Reading, GrokTypes
<1>10. EntriesInv'
    BY <1>1, <1>2, <1>8, ReadingKeeps DEF EntriesInv
<1> QED
    BY <1>8, <1>9, <1>10 DEF GrokInv

(* An answer, which may be stored for the state that was noted. *)
LEMMA AnsweredKeeps ==
    ASSUME GrokInv, NEW c \in Scanners, NEW written \in BOOLEAN, Grok!Answered(c, written)
    PROVE  GrokInv'
<1> DEFINE d0 == Grok!Item(c)
           s == Grok!Parsed(IdOf(d0), asked[c])
           p == Grok!CachePayload(s)
<1>1. GrokTypes /\ NotedInv /\ EntriesInv /\ AnswersInv
    BY DEF GrokInv
<1>2. /\ scanPc[c] = "answered" /\ Grok!Take(c, s)
      /\ entries' = IF written THEN [entries EXCEPT ![s.id] = [print |-> noted[c][d0], payload |-> p]]
                    ELSE entries
      /\ scanPc' = [scanPc EXCEPT ![c] = "next"]
      /\ asked' = [asked EXCEPT ![c] = Grok!NoSession]
      /\ UNCHANGED <<dir, print, noted, scans, report, before>>
    BY DEF Grok!Answered, Grok!Stored
<1>3. queue[c] # {} /\ (d0 \in Settled => before[c][d0].total <= asked[c].total)
    BY <1>1, <1>2 DEF AnswersInv
<1>4. /\ d0 \in Was(c) /\ d0 \in Grok!Present /\ d0 \in Dirs /\ IdOf(d0) \in Grok!Ids
      /\ \A d \in Settled : IdOf(d) = IdOf(d0) => d = d0
    BY <1>3, ItemWasThere
<1>5. s \in Sessions /\ s.id = IdOf(d0) /\ s.total = asked[c].total
    BY <1>1, <1>4, ParsedIs DEF GrokTypes
<1>6. p \in Payloads /\ p.total = s.total
    BY <1>5 DEF Sessions, Payloads, Grok!CachePayload
<1> HIDE DEF d0, s, p
<1>7. asked' \in [Scanners -> Payloads] /\ \A b \in Scanners \ {c} : asked'[b] = asked[b]
    BY <1>1, <1>2 DEF GrokTypes, Payloads, Grok!NoSession
<1>8. /\ Reading(c) /\ NotedInv' /\ AnswersInv' /\ WholeInv' /\ Grok!GrokInventoryHonest'
      /\ kept' \in [Scanners -> SUBSET Sessions] /\ issues' \in [Scanners -> SUBSET Codes]
      /\ scanPc' \in [Scanners -> {"idle", "next", "answered"}]
    BY <1>2, <1>3, <1>5, <1>7, TakeKeeps DEF d0
<1>9. noted[c][d0] \in Nat
    BY <1>1, <1>4 DEF GrokTypes
<1>10. entries' \in [Grok!Ids -> [print : Int, payload : Payloads]]
    BY <1>1, <1>2, <1>4, <1>5, <1>6, <1>9 DEF GrokTypes
<1>11. GrokTypes'
    BY <1>1, <1>2, <1>7, <1>8, <1>10, ReadingKeeps DEF Reading, GrokTypes
<1>12. \A i \in Grok!Ids : \/ entries'[i] = entries[i]
                           \/ /\ i = IdOf(d0)
                              /\ entries'[i].print = noted[c][d0] /\ entries'[i].payload = p
    BY <1>1, <1>2, <1>5 DEF GrokTypes
<1>13. Grok!Present' = Grok!Present /\ Settled' = Settled /\ \A b : Was(b)' = Was(b)
    BY <1>8, ReadingKeeps
<1>14. \A i \in Grok!Ids : entries'[i] # Grok!NoEntry => \E d \in Grok!Present : IdOf(d) = i
    BY <1>1, <1>4, <1>12 DEF EntriesInv
<1>15. ASSUME NEW d \in Settled
       PROVE  /\ entries'[IdOf(d)].print <= print[d]
              /\ entries'[IdOf(d)].print = print[d] => dir[d].total <= entries'[IdOf(d)].payload.total
              /\ \A b \in Scanners : d \in Was(b) /\ entries'[IdOf(d)].print = noted[b][d] =>
                    before[b][d].total <= entries'[IdOf(d)].payload.total
  <2>1. IdOf(d) \in Grok!Ids
      BY DEF Settled, Grok!Unique, Grok!Present, Grok!Ids
  <2>2. CASE entries'[IdOf(d)] = entries[IdOf(d)]
      BY <1>1, <2>2 DEF EntriesInv
  <2>3. CASE IdOf(d) = IdOf(d0) /\ entries'[IdOf(d)].print = noted[c][d0] /\ entries'[IdOf(d)].payload = p
    <3>1. d = d0
        BY <1>4, <2>3
    <3>2. before[c][d0].total <= p.total
        BY <1>3, <1>5, <1>6, <3>1
    <3>3. /\ noted[c][d0] <= print[d0]
          /\ noted[c][d0] = print[d0] => before[c][d0].total = dir[d0].total
          /\ \A b \in Scanners : d0 \in Was(b) /\ noted[c][d0] = noted[b][d0] =>
               before[c][d0].total = before[b][d0].total
        BY <1>1, <1>4 DEF NotedInv
    <3> QED
        BY <2>3, <3>1, <3>2, <3>3
  <2> QED
      BY <1>12, <2>1, <2>2, <2>3
<1>16. EntriesInv'
    BY <1>2, <1>13, <1>14, <1>15 DEF EntriesInv
<1> QED
    BY <1>8, <1>11, <1>16 DEF GrokInv

(* The command answers with what is stored now, which is no less. *)
LEMMA AskKeeps ==
    ASSUME GrokInv, NEW c \in Scanners, Grok!Ask(c)
    PROVE  GrokInv'
<1> DEFINE d0 == Grok!Item(c)
<1>1. GrokTypes /\ NotedInv /\ EntriesInv /\ AnswersInv /\ WholeInv /\ Grok!GrokInventoryHonest
    BY DEF GrokInv
<1>2. PICK e \in Grok!Present : IdOf(e) = IdOf(d0) /\ asked' = [asked EXCEPT ![c] = dir[e]]
    BY DEF Grok!Ask
<1>3. /\ scanPc[c] = "next" /\ queue[c] # {}
      /\ scanPc' = [scanPc EXCEPT ![c] = "answered"]
      /\ UNCHANGED <<dir, print, entries, queue, noted, kept, issues, scans, report, before>>
    BY DEF Grok!Ask
<1>4. /\ d0 \in Was(c) /\ d0 \in Grok!Present
      /\ \A d \in Settled : IdOf(d) = IdOf(d0) => d = d0
    BY <1>3, ItemWasThere
<1>5. Reading(c)
    BY <1>1, <1>3 DEF Reading, GrokTypes
<1>6. /\ Grok!Present' = Grok!Present /\ Settled' = Settled /\ NotedInv'
      /\ \A b : Was(b)' = Was(b)
      /\ \A b : Grok!Item(b)' = Grok!Item(b)
    BY <1>3, <1>5, ReadingKeeps DEF Grok!Item
<1>7. GrokTypes'
  <2>1. dir[e] \in Payloads
      BY <1>1 DEF GrokTypes, Grok!Present
  <2> QED
      BY <1>1, <1>2, <1>3, <1>6, <2>1 DEF GrokTypes
<1>8. EntriesInv'
    BY <1>1, <1>3, <1>6 DEF EntriesInv
<1>9. d0 \in Settled => before[c][d0].total <= asked'[c].total
  <2>1. d0 \in Settled => e = d0
      BY <1>2, <1>4 DEF Settled, Grok!Unique
  <2>2. asked'[c] = dir[e]
      BY <1>1, <1>2 DEF GrokTypes
  <2> QED
      BY <1>1, <1>4, <2>1, <2>2 DEF NotedInv
<1>10. \A b \in Scanners : b # c => scanPc'[b] = scanPc[b] /\ asked'[b] = asked[b]
    BY <1>1, <1>2, <1>3 DEF GrokTypes
<1>11. AnswersInv'
  <2>1. ASSUME NEW b \in Scanners
        PROVE  /\ scanPc'[b] = "answered" => queue[b] # {}
               /\ scanPc'[b] = "answered" /\ Grok!Item(b) \in Settled =>
                    before[b][Grok!Item(b)].total <= asked'[b].total
               /\ \A s \in kept[b] : \A d \in Was(b) \intersect Settled :
                    s.id = IdOf(d) => before[b][d].total <= s.total
    <3>1. CASE b = c
        BY <1>1, <1>3, <1>9, <3>1 DEF AnswersInv
    <3>2. CASE b # c
        BY <1>1, <1>10, <3>2 DEF AnswersInv
    <3> QED
        BY <3>1, <3>2
  <2> QED
      BY <1>3, <1>6, <2>1 DEF AnswersInv
<1>12. WholeInv'
  <2>1. \A b \in Scanners : scanPc'[b] # "idle" => scanPc[b] # "idle"
      BY <1>3, <1>10
  <2> QED
      BY <1>1, <1>3, <1>6, <2>1 DEF WholeInv, Grok!Unique
<1>13. Grok!GrokInventoryHonest'
  <2>1. Grok!Unique(Grok!Present)' = Grok!Unique(Grok!Present)
      BY <1>6 DEF Settled
  <2> QED
      BY <1>1, <1>3, <2>1 DEF Grok!GrokInventoryHonest, Grok!IsPartial
<1> QED
    BY <1>6, <1>7, <1>8, <1>11, <1>12, <1>13 DEF GrokInv

(* A failure is an issue, so the report will be partial. *)
LEMMA AskFailsKeeps ==
    ASSUME GrokInv, NEW c \in Scanners, Grok!AskFails(c)
    PROVE  GrokInv'
<1>1. GrokTypes /\ NotedInv /\ EntriesInv /\ AnswersInv /\ WholeInv /\ Grok!GrokInventoryHonest
    BY DEF GrokInv
<1>2. /\ scanPc[c] = "next"
      /\ issues' = [issues EXCEPT ![c] = @ \union {"command_failed"}]
      /\ queue' = [queue EXCEPT ![c] = @ \ {Grok!Item(c)}]
      /\ UNCHANGED <<dir, print, entries, scanPc, noted, asked, kept, scans, report, before>>
    BY DEF Grok!AskFails
<1>3. /\ queue' \in [Scanners -> SUBSET Dirs] /\ issues' \in [Scanners -> SUBSET Codes]
      /\ queue'[c] \subseteq queue[c] /\ issues'[c] # {}
      /\ \A b \in Scanners : b # c => queue'[b] = queue[b] /\ issues'[b] = issues[b]
    BY <1>1, <1>2 DEF GrokTypes, Codes
<1>4. Reading(c)
    BY <1>2, <1>3 DEF Reading
<1>5. /\ Grok!Present' = Grok!Present /\ Settled' = Settled /\ NotedInv'
      /\ \A b : Was(b)' = Was(b)
      /\ \A b \in Scanners \ {c} : Grok!Item(b)' = Grok!Item(b)
    BY <1>2, <1>4, ReadingKeeps
<1>6. GrokTypes'
    BY <1>1, <1>2, <1>3, <1>5 DEF GrokTypes
<1>7. EntriesInv'
    BY <1>1, <1>2, <1>5 DEF EntriesInv
<1>8. AnswersInv'
  <2>1. ASSUME NEW b \in Scanners
        PROVE  /\ scanPc[b] = "answered" => queue'[b] # {}
               /\ scanPc[b] = "answered" /\ Grok!Item(b)' \in Settled =>
                    before[b][Grok!Item(b)'].total <= asked[b].total
               /\ \A s \in kept[b] : \A d \in Was(b) \intersect Settled :
                    s.id = IdOf(d) => before[b][d].total <= s.total
    <3>1. CASE b = c
        BY <1>1, <1>2, <3>1 DEF AnswersInv
    <3>2. CASE b # c
        BY <1>1, <1>3, <1>5, <3>2 DEF AnswersInv
    <3> QED
        BY <3>1, <3>2
  <2> QED
      BY <1>2, <1>5, <2>1 DEF AnswersInv
<1>9. WholeInv'
  <2>1. ASSUME NEW b \in Scanners, scanPc[b] # "idle", issues'[b] = {}
        PROVE  b # c /\ queue'[b] = queue[b] /\ issues[b] = {}
      BY <1>3, <2>1
  <2> QED
      BY <1>1, <1>2, <1>5, <2>1 DEF WholeInv, Grok!Unique
<1>10. Grok!GrokInventoryHonest'
  <2>1. Grok!Unique(Grok!Present)' = Grok!Unique(Grok!Present)
      BY <1>5 DEF Settled
  <2> QED
      BY <1>1, <1>2, <2>1 DEF Grok!GrokInventoryHonest, Grok!IsPartial
<1> QED
    BY <1>5, <1>6, <1>7, <1>8, <1>9, <1>10 DEF GrokInv

(* The report of what was found, with nothing left to read. *)
LEMMA FinishKeeps ==
    ASSUME GrokInv, NEW c \in Scanners, Grok!Finish(c)
    PROVE  GrokInv'
<1>1. GrokTypes /\ NotedInv /\ EntriesInv /\ AnswersInv /\ WholeInv /\ Grok!GrokInventoryHonest
    BY DEF GrokInv
<1>2. /\ scanPc[c] = "next" /\ queue[c] = {}
      /\ report' = [report EXCEPT ![c] = [found |-> kept[c], issues |-> issues[c], before |-> before[c]]]
      /\ scanPc' = [scanPc EXCEPT ![c] = "idle"]
      /\ UNCHANGED <<dir, print, entries, queue, noted, asked, kept, issues, scans, before>>
    BY DEF Grok!Finish
<1>3. /\ Grok!Present' = Grok!Present /\ Settled' = Settled
      /\ \A b : Was(b)' = Was(b) /\ Grok!Item(b)' = Grok!Item(b)
    BY <1>2 DEF Grok!Present, Settled, Grok!Unique, Was, Grok!Item
<1>4. /\ report'[c].found = kept[c] /\ report'[c].issues = issues[c] /\ report'[c].before = before[c]
      /\ \A b \in Scanners : b # c => report'[b] = report[b] /\ scanPc'[b] = scanPc[b]
      /\ scanPc'[c] = "idle"
    BY <1>1, <1>2 DEF GrokTypes
<1>5. GrokTypes'
    BY <1>1, <1>2, <1>3 DEF GrokTypes
<1>6. NotedInv'
  <2>1. ASSUME NEW b \in Scanners
        PROVE  WasReported(b)' \subseteq Grok!Present
    <3>1. CASE b = c
        BY <1>1, <1>4, <3>1 DEF NotedInv, Was, WasReported
    <3>2. CASE b # c
        BY <1>1, <1>4, <3>2 DEF NotedInv, WasReported
    <3> QED
        BY <3>1, <3>2
  <2> QED
      BY <1>1, <1>2, <1>3, <2>1 DEF NotedInv
<1>7. EntriesInv'
    BY <1>1, <1>2, <1>3 DEF EntriesInv
<1>8. \A b \in Scanners : /\ scanPc'[b] = "answered" => scanPc[b] = "answered"
                          /\ scanPc'[b] # "idle" => scanPc[b] # "idle"
    BY <1>2, <1>4
<1>9. AnswersInv'
    BY <1>1, <1>2, <1>3, <1>8 DEF AnswersInv
<1>10. WholeInv'
    BY <1>1, <1>2, <1>3, <1>8 DEF WholeInv, Grok!Unique
<1>11. Grok!GrokInventoryHonest'
  <2> DEFINE Fresh(r) == \A s \in r.found : \A d \in {x \in Dirs : r.before[x] # Grok!NoSession} \intersect Settled :
                           s.id = IdOf(d) => s.total >= r.before[d].total
             Whole(r) == LET there == {d \in Dirs : r.before[d] # Grok!NoSession}
                         IN /\ there = Grok!Unique(there)
                            /\ {s.id : s \in r.found} = {IdOf(d) : d \in there}
                            /\ \A s, t \in r.found : s.id = t.id => s = t
  <2>1. ASSUME NEW b \in Scanners
        PROVE  Fresh(report'[b]) /\ (report'[b].issues # {} \/ Whole(report'[b]))
    <3>1. CASE b = c
      <4>1. {x \in Dirs : report'[c].before[x] # Grok!NoSession} = Was(c)
          BY <1>4 DEF Was
      <4>2. ASSUME NEW s \in kept[c], NEW d \in Was(c) \intersect Settled, s.id = IdOf(d)
            PROVE  s.total >= before[c][d].total
        <5>1. before[c][d].total <= s.total
            BY <1>1, <4>2 DEF AnswersInv
        <5>2. before[c][d].total \in Int /\ s.total \in Int
            BY <1>1, <4>2 DEF GrokTypes, Payloads, Sessions, Was
        <5> QED
            BY <5>1, <5>2
      <4>3. ASSUME issues[c] = {}
            PROVE  /\ Was(c) = Grok!Unique(Was(c))
                   /\ {s.id : s \in kept[c]} = {IdOf(d) : d \in Was(c)}
                   /\ \A s, t \in kept[c] : s.id = t.id => s = t
        <5>1. {s.id : s \in kept[c]} \union {IdOf(d) : d \in queue[c]} = {IdOf(d) : d \in Was(c)}
            BY <1>1, <1>2, <4>3 DEF WholeInv
        <5>2. {IdOf(d) : d \in queue[c]} = {}
            BY <1>2
        <5> QED
            BY <1>1, <1>2, <4>3, <5>1, <5>2 DEF WholeInv
      <4> QED
          BY <1>4, <3>1, <4>1, <4>2, <4>3
    <3>2. CASE b # c
      <4>1. Fresh(report[b]) /\ (report[b].issues # {} \/ Whole(report[b]))
          BY <1>1 DEF Grok!GrokInventoryHonest, Grok!IsPartial, Settled
      <4> QED
          BY <1>4, <3>2, <4>1
    <3> QED
        BY <3>1, <3>2
  <2>2. Grok!Unique(Grok!Present)' = Settled
      BY <1>3 DEF Settled
  <2> QED
      BY <2>1, <2>2 DEF Grok!GrokInventoryHonest, Grok!IsPartial
<1> QED
    BY <1>5, <1>6, <1>7, <1>9, <1>10, <1>11 DEF GrokInv

(* Every step keeps the invariant. *)
LEMMA GrokStep == GrokInv /\ [Grok!Next]_grokVars => GrokInv'
<1> SUFFICES ASSUME GrokInv, [Grok!Next]_grokVars
             PROVE  GrokInv'
    OBVIOUS
<1>1. ASSUME NEW d \in Dirs, Grok!Turn(d) \/ Grok!MalformedRow(d) \/ Grok!Create(d)
      PROVE  GrokInv'
  <2>1. GrokTypes
      BY DEF GrokInv
  <2> QED
      BY <1>1, <2>1, ClientGrows, ClientKeeps
<1>2. ASSUME NEW c \in Scanners, NEW installed \in BOOLEAN, Grok!Discover(c, installed)
      PROVE  GrokInv'
    BY <1>2, DiscoverKeeps
<1>3. ASSUME NEW c \in Scanners, Grok!FromCache(c) \/ Grok!Ask(c) \/ Grok!AskFails(c) \/ Grok!Finish(c)
      PROVE  GrokInv'
    BY <1>3, FromCacheKeeps, AskKeeps, AskFailsKeeps, FinishKeeps
<1>4. ASSUME NEW c \in Scanners, NEW written \in BOOLEAN, Grok!Answered(c, written)
      PROVE  GrokInv'
    BY <1>4, AnsweredKeeps
<1>5. CASE UNCHANGED grokVars
  <2>1. Grown
    <3>1. /\ dir \in [Dirs -> Payloads] /\ print \in [Dirs -> Nat]
          /\ \A d \in Grok!Present : dir[d].total \in Nat
        BY DEF GrokInv, GrokTypes
    <3>2. \A d \in Dirs : print[d] \in Nat /\ dir[d].total \in Int
        BY <3>1 DEF Payloads
    <3>3. UNCHANGED <<dir, print, entries, scans, scanPc, queue, noted, asked, kept, issues, report, before>>
        BY <1>5 DEF grokVars
    <3>4. Grok!Present' = Grok!Present /\ Grok!Present \subseteq Dirs
        BY <3>3 DEF Grok!Present
    <3> QED
        BY <3>1, <3>2, <3>3, <3>4 DEF Grown
  <2> QED
      BY <2>1, ClientKeeps
<1> QED
    BY <1>1, <1>2, <1>3, <1>4, <1>5 DEF Grok!Next

(* Nothing is there and nothing is noted when it begins. *)
LEMMA GrokBegin == Grok!Init => GrokInv
<1> SUFFICES ASSUME Grok!Init
             PROVE  GrokInv
    OBVIOUS
<1>1. /\ dir = [d \in Dirs |-> Grok!NoSession]
      /\ print = [d \in Dirs |-> 0]
      /\ entries = [i \in Grok!Ids |-> Grok!NoEntry]
      /\ scanPc = [c \in Scanners |-> "idle"]
      /\ queue = [c \in Scanners |-> {}]
      /\ noted = [c \in Scanners |-> [d \in Dirs |-> 0]]
      /\ asked = [c \in Scanners |-> Grok!NoSession]
      /\ kept = [c \in Scanners |-> {}]
      /\ issues = [c \in Scanners |-> {}]
      /\ report = [c \in Scanners |-> Grok!NoReport]
      /\ before = [c \in Scanners |-> [d \in Dirs |-> Grok!NoSession]]
    BY DEF Grok!Init, Grok!NoReport
<1>2. Grok!Present = {} /\ \A c \in Scanners : Was(c) = {} /\ WasReported(c) = {}
    BY <1>1 DEF Grok!Present, Was, WasReported, Grok!NoReport
<1>3. Settled = {}
    BY <1>2 DEF Settled, Grok!Unique
<1>4. Grok!NoSession \in Payloads
    BY DEF Payloads, Grok!NoSession
<1>5. /\ Grok!NoEntry \in [print : Int, payload : Payloads]
      /\ Grok!NoReport \in [found : SUBSET Sessions, issues : SUBSET Codes, before : [Dirs -> Payloads]]
    BY <1>4 DEF Grok!NoEntry, Grok!NoReport
<1>6. GrokTypes
    BY <1>1, <1>2, <1>4, <1>5 DEF GrokTypes
<1>7. NotedInv
    BY <1>1, <1>2 DEF NotedInv
<1>8. EntriesInv
    BY <1>1, <1>3 DEF EntriesInv
<1>9. AnswersInv /\ WholeInv
    BY <1>1 DEF AnswersInv, WholeInv
<1>10. Grok!GrokInventoryHonest
  <2>1. \A c \in Scanners : report[c].found = {} /\ {d \in Dirs : report[c].before[d] # Grok!NoSession} = {}
      BY <1>1 DEF Grok!NoReport
  <2> QED
      BY <2>1 DEF Grok!GrokInventoryHonest, Grok!Unique
<1> QED
    BY <1>6, <1>7, <1>8, <1>9, <1>10 DEF GrokInv

(* Only the steps of this part change any of it. *)
LEMMA GrokRun == [PollingNext]_pollingVars => [Grok!Next]_grokVars
BY DEF PollingNext, pollingVars

(* The invariant of the scan holds in every behaviour of the poll. *)
THEOREM GrokInvariant == PollingSpec => []GrokInv
<1>1. PollingInit => GrokInv
    BY GrokBegin DEF PollingInit
<1> QED
    BY <1>1, GrokRun, GrokStep, PTL DEF PollingSpec

(* A finished scan of Grok's sessions has all of them, once and no staler    *)
(* than they were when it began, or is marked as partial, with any number of *)
(* processes that scan and share the cache.                                  *)
THEOREM GrokInventoryHonestCorrect == PollingSpec => []GrokInventoryHonest
<1>1. GrokInv => GrokInventoryHonest
    BY DEF GrokInv, GrokInventoryHonest
<1> QED
    BY <1>1, GrokInvariant, PTL

-----------------------------------------------------------------------------
(* Claude's transcripts (ClaudeScan).                                      *)

(* What the constants of ClaudeScan are.                                     *)
LEMMA ClaudeIs ==
    /\ IsFiniteSet(Transcripts) /\ IsFiniteSet(Messages)
    /\ Steps \subseteq [in : Nat, write : Nat, out : Nat]
    /\ ClaudeRecords \in Nat
    /\ \A S : Claude!Cardinality(S) = Cardinality(S)
    /\ Cardinality(Transcripts) \in Nat
<1>1. (Claude!IsFiniteSet(Transcripts) => IsFiniteSet(Transcripts))
    BY Zenon DEF Claude!IsFiniteSet, IsFiniteSet
<1>2. (Claude!IsFiniteSet(Messages) => IsFiniteSet(Messages))
    BY Zenon DEF Claude!IsFiniteSet, IsFiniteSet
<1>3. \A S : Claude!Cardinality(S) = Cardinality(S)
    BY Zenon DEF Claude!Cardinality, Cardinality
<1>4. IsFiniteSet(Transcripts) => Cardinality(Transcripts) \in Nat
    BY FS_CardinalityType
<1> QED
    BY <1>1, <1>2, <1>3, <1>4, TranscriptsAssumption DEF Claude!ClaudeAssumption

(* Its sums are those of FiniteSums.                                         *)
LEMMA ClaudeSum == \A f, S : Claude!SumFunctionOnSet(f, S) = SumFunctionOnSet(f, S)
BY Zenon DEF Claude!SumFunctionOnSet, Claude!FoldFunctionOnSet, Claude!MapThenFoldSet,
             SumFunctionOnSet, FoldFunctionOnSet, MapThenFoldSet

Counters == [in : Nat, write : Nat, out : Nat]
RowsOfClaude == [msg : Messages, at : Nat, form : Claude!Forms, damaged : BOOLEAN, tokens : Counters]

(* The rows of all transcripts. *)
Written == UNION {{transcripts[p][i] : i \in DOMAIN transcripts[p]} : p \in Transcripts}

ClaudeInv ==
    /\ transcripts \in [Transcripts -> Seq(RowsOfClaude)]
    /\ counters \in [Messages -> Counters]
    /\ claudeClock \in Nat
    /\ \A r \in Written : Claude!Sum(r.tokens) <= Claude!Sum(counters[r.msg])
    /\ \A m \in Messages :
         \/ Claude!Sum(counters[m]) = 0
         \/ \E r \in Written : r.msg = m /\ Claude!Sum(r.tokens) = Claude!Sum(counters[m])

(* A row that was written is at some place of some transcript.               *)
LEMMA WrittenIs ==
    ASSUME NEW r
    PROVE  r \in Written <=> \E p \in Transcripts : \E i \in DOMAIN transcripts[p] : r = transcripts[p][i]
BY DEF Written

IsConcat(h, order, n) ==
    h = [i \in 0 .. n |-> IF i = 0 THEN <<>> ELSE h[i - 1] \o transcripts[order[i]]]

(* Rows is one function on 0 .. n, with the transcripts up to each place of  *)
(* the order.                                                                *)
LEMMA RowsAreConcat ==
    ASSUME NEW order
    PROVE  Claude!Rows(order) = (CHOOSE h : IsConcat(h, order, Claude!Cardinality(Transcripts)))[Claude!Cardinality(Transcripts)]
BY Zenon DEF Claude!Rows, IsConcat

(* h is what is known after each of the first n rows. *)
IsReading(h, rows, n) ==
    h = [i \in 0 .. n |-> IF i = 0 THEN [obs |-> {}, bad |-> 0] ELSE Claude!ReadRow(h[i - 1], rows[i])]

(* After is one function on 0 .. n,                                          *)
LEMMA AfterIsReading ==
    ASSUME NEW rows, NEW n
    PROVE  Claude!After(rows, n) = (CHOOSE h : IsReading(h, rows, n))[n]
BY Zenon DEF Claude!After, IsReading

(* which exists, since each value is told by the one before.                 *)
LEMMA ReadingExists ==
    ASSUME NEW rows, NEW n \in Nat
    PROVE  \E h : IsReading(h, rows, n)
<1> DEFINE B == {i \in 0 .. n : \E h : IsReading(h, rows, i)}
           Start == [obs |-> {}, bad |-> 0]
<1>1. 0 \in B
  <2> DEFINE h == [i \in 0 .. 0 |-> Start]
             k == [i \in 0 .. 0 |-> IF i = 0 THEN Start ELSE Claude!ReadRow(h[i - 1], rows[i])]
  <2>1. h = k
      OBVIOUS
  <2>2. IsReading(h, rows, 0)
      BY <2>1 DEF IsReading
  <2> QED
      BY <2>2
<1>2. ASSUME NEW i \in 1 .. n, i - 1 \in B
      PROVE  i \in B
  <2>1. PICK h : IsReading(h, rows, i - 1)
      BY <1>2
  <2> DEFINE Next1(g, j) == IF j = 0 THEN Start ELSE Claude!ReadRow(g[j - 1], rows[j])
             k == [j \in 0 .. i |-> Next1(h, j)]
             l == [j \in 0 .. i |-> Next1(k, j)]
  <2>2. ASSUME NEW j \in 0 .. i - 1
        PROVE  h[j] = k[j]
    <3>1. h = [x \in 0 .. i - 1 |-> Next1(h, x)]
        BY <2>1 DEF IsReading
    <3> HIDE DEF Next1
    <3>2. h[j] = Next1(h, j)
        BY <3>1, Zenon
    <3>3. k[j] = Next1(h, j)
        OBVIOUS
    <3> QED
        BY <3>2, <3>3, Zenon
  <2>3. ASSUME NEW j \in 0 .. i
        PROVE  k[j] = l[j]
    <3>1. CASE j = 0
        BY <3>1
    <3>2. CASE j # 0
      <4>1. h[j - 1] = k[j - 1]
          BY <2>2, <3>2
      <4> HIDE DEF k
      <4>2. l[j] = Claude!ReadRow(k[j - 1], rows[j])
          BY <3>2
      <4>3. k[j] = Claude!ReadRow(h[j - 1], rows[j])
          BY <3>2 DEF k
      <4> QED
          BY Zenon, <4>1, <4>2, <4>3
    <3> QED
        BY <3>1, <3>2
  <2>4. k = l
    <3> HIDE DEF Next1
    <3> QED
        BY <2>3
  <2>5. IsReading(k, rows, i)
      BY <2>4 DEF IsReading
  <2> QED
      BY <2>5
<1>3. n \in B
  <2> HIDE DEF B
  <2> QED
      BY <1>1, <1>2, UpTo
<1> QED
    BY <1>3

(* The rows up to each place exist for the same reason.                      *)
LEMMA ConcatExists ==
    ASSUME NEW order, NEW n \in Nat
    PROVE  \E h : IsConcat(h, order, n)
<1> DEFINE B == {i \in 0 .. n : \E h : IsConcat(h, order, i)}
<1>1. 0 \in B
  <2> DEFINE h == [i \in 0 .. 0 |-> <<>>]
             k == [i \in 0 .. 0 |-> IF i = 0 THEN <<>> ELSE h[i - 1] \o transcripts[order[i]]]
  <2>1. h = k
      OBVIOUS
  <2>2. IsConcat(h, order, 0)
      BY <2>1 DEF IsConcat
  <2> QED
      BY <2>2
<1>2. ASSUME NEW i \in 1 .. n, i - 1 \in B
      PROVE  i \in B
  <2>1. PICK h : IsConcat(h, order, i - 1)
      BY <1>2
  <2> DEFINE Longer(g, j) == IF j = 0 THEN <<>> ELSE g[j - 1] \o transcripts[order[j]]
             k == [j \in 0 .. i |-> Longer(h, j)]
             l == [j \in 0 .. i |-> Longer(k, j)]
  <2>2. ASSUME NEW j \in 0 .. i - 1
        PROVE  h[j] = k[j]
    <3>1. h = [x \in 0 .. i - 1 |-> Longer(h, x)]
        BY <2>1 DEF IsConcat
    <3> HIDE DEF Longer
    <3>2. h[j] = Longer(h, j)
        BY <3>1, Zenon
    <3>3. k[j] = Longer(h, j)
        OBVIOUS
    <3> QED
        BY <3>2, <3>3, Zenon
  <2>3. ASSUME NEW j \in 0 .. i
        PROVE  k[j] = l[j]
    <3>1. CASE j = 0
        BY <3>1
    <3>2. CASE j # 0
      <4>1. h[j - 1] = k[j - 1]
          BY <2>2, <3>2
      <4> HIDE DEF k
      <4>2. l[j] = k[j - 1] \o transcripts[order[j]]
          BY <3>2
      <4>3. k[j] = h[j - 1] \o transcripts[order[j]]
          BY <3>2 DEF k
      <4> QED
          BY Zenon, <4>1, <4>2, <4>3
    <3> QED
        BY <3>1, <3>2
  <2>4. k = l
    <3> HIDE DEF Longer
    <3> QED
        BY <2>3
  <2>5. IsConcat(k, order, i)
      BY <2>4 DEF IsConcat
  <2> QED
      BY <2>5
<1>3. n \in B
  <2> HIDE DEF B
  <2> QED
      BY <1>1, <1>2, UpTo
<1> QED
    BY <1>3

(* In whatever order the transcripts are read, the rows that are read are    *)
(* those that were written.                                                  *)
LEMMA TranscriptRows ==
    ASSUME ClaudeInv, NEW order \in Claude!Orders
    PROVE  /\ Claude!Rows(order) \in Seq(RowsOfClaude)
           /\ {Claude!Rows(order)[j] : j \in DOMAIN Claude!Rows(order)} = Written
<1> DEFINE n == Cardinality(Transcripts)
<1>1. n \in Nat /\ Claude!Cardinality(Transcripts) = n
    BY ClaudeIs
<1>2. order \in [1 .. n -> Transcripts] /\ \A p \in Transcripts : \E i \in 1 .. n : order[i] = p
    BY <1>1 DEF Claude!Orders
<1> HIDE DEF n
<1>3. PICK h : IsConcat(h, order, n) /\ Claude!Rows(order) = h[n]
  <2>1. Claude!Rows(order) = (CHOOSE h : IsConcat(h, order, n))[n]
      BY <1>1, RowsAreConcat
  <2>2. IsConcat(CHOOSE h : IsConcat(h, order, n), order, n)
      BY <1>1, ConcatExists
  <2> QED
      BY <2>1, <2>2
<1>4. h[0] = <<>> /\ \A i \in 1 .. n : h[i] = h[i - 1] \o transcripts[order[i]]
    BY <1>1, <1>3 DEF IsConcat
<1>5. \A p \in Transcripts : transcripts[p] \in Seq(RowsOfClaude)
    BY DEF ClaudeInv
<1> DEFINE Elements(s) == {s[j] : j \in DOMAIN s}
           First(i) == UNION {Elements(transcripts[order[k]]) : k \in 1 .. i}
           B == {i \in 0 .. n : h[i] \in Seq(RowsOfClaude) /\ Elements(h[i]) = First(i)}
<1>6. 0 \in B
  <2>1. h[0] \in Seq(RowsOfClaude) /\ Elements(h[0]) = {}
      BY <1>4
  <2>2. First(0) = {}
      OBVIOUS
  <2>3. 0 \in 0 .. n
      BY <1>1
  <2> HIDE DEF Elements, First
  <2> QED
      BY <2>1, <2>2, <2>3
<1>7. ASSUME NEW i \in 1 .. n, i - 1 \in B
      PROVE  i \in B
  <2>1. order[i] \in Transcripts
      BY <1>2
  <2>2. PICK s \in Seq(RowsOfClaude) : s = h[i - 1]
      BY <1>7
  <2>3. PICK t \in Seq(RowsOfClaude) : t = transcripts[order[i]]
      BY <1>5, <2>1
  <2>4. h[i] = s \o t
      BY <1>4, <2>2, <2>3
  <2>5. Elements(s \o t) = Elements(s) \union Elements(t)
    <3>1. ASSUME NEW j \in DOMAIN (s \o t)
          PROVE  (s \o t)[j] \in Elements(s) \union Elements(t)
      <4>1. CASE j <= Len(s)
          BY <4>1
      <4>2. CASE ~(j <= Len(s))
        <5>1. j - Len(s) \in DOMAIN t /\ (s \o t)[j] = t[j - Len(s)]
            BY <4>2
        <5> QED
            BY <5>1
      <4> QED
          BY <4>1, <4>2
    <3>2. ASSUME NEW j \in DOMAIN s
          PROVE  s[j] \in Elements(s \o t)
      <4>1. j \in DOMAIN (s \o t) /\ (s \o t)[j] = s[j]
          OBVIOUS
      <4> QED
          BY <4>1
    <3>3. ASSUME NEW j \in DOMAIN t
          PROVE  t[j] \in Elements(s \o t)
      <4>1. j + Len(s) \in DOMAIN (s \o t) /\ (s \o t)[j + Len(s)] = t[j]
          OBVIOUS
      <4> QED
          BY <4>1
    <3> QED
        BY <3>1, <3>2, <3>3
  <2> HIDE DEF Elements
  <2>6. First(i) = First(i - 1) \union Elements(transcripts[order[i]])
    <3>1. 1 .. i = (1 .. i - 1) \union {i}
        OBVIOUS
    <3> QED
        BY <3>1
  <2>7. h[i] \in Seq(RowsOfClaude)
      BY <2>4
  <2>8. Elements(h[i - 1]) = First(i - 1)
      BY <1>7
  <2> HIDE DEF First
  <2>9. Elements(h[i]) = First(i)
      BY Zenon, <2>2, <2>3, <2>4, <2>5, <2>6, <2>8
  <2> QED
      BY <2>7, <2>9
<1>8. n \in B
  <2> HIDE DEF B
  <2> QED
      BY <1>1, <1>6, <1>7, UpTo
<1>9. First(n) = Written
  <2>1. Written = UNION {Elements(transcripts[p]) : p \in Transcripts}
      BY Zenon DEF Written
  <2> HIDE DEF Elements
  <2> QED
      BY <1>2, <2>1
<1> QED
    BY <1>3, <1>8, <1>9

-----------------------------------------------------------------------------
Observed == [id : Messages, at : Nat, tokens : [in : Nat, out : Nat, write : Nat, long : Nat]]

(* What is known after the first n rows: of each message one variant that    *)
(* was read, and none that was read is more complete.                        *)
IsKnown(st, rows, n) ==
    /\ st \in [obs : SUBSET Observed, bad : Nat]
    /\ IsFiniteSet(st.obs)
    /\ \A o, p \in st.obs : o.id = p.id => o = p
    /\ \A o \in st.obs : \E j \in 1 .. n : o.id = rows[j].msg /\ Claude!Total(o.tokens) = Claude!Sum(rows[j].tokens)
    /\ \A j \in 1 .. n :
         \/ st.bad > 0
         \/ \E o \in st.obs : o.id = rows[j].msg /\ Claude!Sum(rows[j].tokens) <= Claude!Total(o.tokens)

(* A score is as large as another only if the total is.                      *)
LEMMA ScoresCompare ==
    ASSUME NEW o \in Observed, NEW p \in Observed
    PROVE  IF Claude!Less(Claude!Score(o), Claude!Score(p)) THEN Claude!Total(o.tokens) <= Claude!Total(p.tokens)
           ELSE Claude!Total(p.tokens) <= Claude!Total(o.tokens)
<1>1. Claude!Total(o.tokens) \in Nat /\ Claude!Total(p.tokens) \in Nat
    BY DEF Observed, Claude!Total
<1>2. /\ DOMAIN Claude!Score(o) = 1 .. 3
      /\ Claude!Score(o)[1] = Claude!Total(o.tokens) /\ Claude!Score(p)[1] = Claude!Total(p.tokens)
    BY DEF Claude!Score
<1>3. CASE Claude!Less(Claude!Score(o), Claude!Score(p))
  <2>1. PICK i \in 1 .. 3 : /\ Claude!Score(o)[i] < Claude!Score(p)[i]
                            /\ \A j \in 1 .. i - 1 : Claude!Score(o)[j] = Claude!Score(p)[j]
      BY <1>2, <1>3 DEF Claude!Less
  <2>2. CASE i = 1
      BY <1>1, <1>2, <1>3, <2>1, <2>2
  <2>3. CASE i # 1
    <3>1. 1 \in 1 .. i - 1
        BY <2>3
    <3> QED
        BY <1>1, <1>2, <1>3, <2>1, <3>1
  <2> QED
      BY <2>2, <2>3
<1>4. CASE ~Claude!Less(Claude!Score(o), Claude!Score(p))
  <2>1. ~(Claude!Total(o.tokens) < Claude!Total(p.tokens))
    <3>1. 1 \in DOMAIN Claude!Score(o) /\ 1 .. 1 - 1 = {}
        BY <1>2
    <3> QED
        BY <1>2, <1>4, <3>1 DEF Claude!Less
  <2> QED
      BY <1>1, <1>4, <2>1
<1> QED
    BY <1>3, <1>4

(* The tokens of a row are a number. *)
LEMMA CountersSum ==
    ASSUME NEW r \in RowsOfClaude
    PROVE  Claude!Sum(r.tokens) \in Nat
<1>1. /\ r.tokens.in \in Nat /\ r.tokens.write \in Nat /\ r.tokens.out \in Nat
    BY DEF RowsOfClaude, Counters
<1>2. PICK a, b, c \in Nat : r.tokens.in = a /\ r.tokens.write = b /\ r.tokens.out = c
    BY <1>1
<1>3. Claude!Sum(r.tokens) = a + b + c
    BY <1>2 DEF Claude!Sum
<1> QED
    BY <1>3

(* One more row. *)
LEMMA ReadKeeps ==
    ASSUME NEW rows \in Seq(RowsOfClaude), NEW n \in 1 .. Len(rows), NEW st, IsKnown(st, rows, n - 1)
    PROVE  IsKnown(Claude!ReadRow(st, rows[n]), rows, n)
<1> DEFINE r == rows[n]
           new == [id |-> r.msg, at |-> r.at, tokens |-> Claude!Tokens(r)]
           same == {o \in st.obs : o.id = r.msg}
           to == Claude!ReadRow(st, r)
<1>1. r \in RowsOfClaude
    OBVIOUS
<1>2. new \in Observed /\ new.id = r.msg /\ Claude!Total(new.tokens) = Claude!Sum(r.tokens)
  <2>1. /\ r.msg \in Messages /\ r.at \in Nat
        /\ r.tokens.in \in Nat /\ r.tokens.write \in Nat /\ r.tokens.out \in Nat
      BY <1>1 DEF RowsOfClaude, Counters
  <2>2. Claude!Tokens(r) \in [in : Nat, out : Nat, write : Nat, long : Nat]
      BY <2>1 DEF Claude!Tokens
  <2>3. Claude!Total(Claude!Tokens(r)) = Claude!Sum(r.tokens)
      BY <2>1 DEF Claude!Tokens, Claude!Total, Claude!Sum
  <2> QED
      BY <2>1, <2>2, <2>3 DEF Observed
<1>3. Claude!Sum(r.tokens) \in Nat
    BY <1>1, CountersSum
<1>4. PICK obs \in SUBSET Observed, bad \in Nat : st = [obs |-> obs, bad |-> bad]
    BY DEF IsKnown
<1>5. /\ st.obs = obs /\ st.bad = bad /\ IsFiniteSet(obs)
      /\ \A o, p \in obs : o.id = p.id => o = p
      /\ \A o \in obs : \E j \in 1 .. n - 1 : o.id = rows[j].msg /\ Claude!Total(o.tokens) = Claude!Sum(rows[j].tokens)
      /\ \A j \in 1 .. n - 1 :
           \/ bad > 0
           \/ \E o \in obs : o.id = rows[j].msg /\ Claude!Sum(rows[j].tokens) <= Claude!Total(o.tokens)
    BY <1>4 DEF IsKnown
<1>6. /\ r.damaged => to.obs = obs /\ to.bad = bad + 1 /\ to = [obs |-> to.obs, bad |-> to.bad]
      /\ ~r.damaged => /\ to.obs = IF \E o \in same : ~Claude!Less(Claude!Score(o), Claude!Score(new)) THEN obs
                                   ELSE (obs \ same) \union {new}
                       /\ to.bad \in {bad, bad + 1}
                       /\ to = [obs |-> to.obs, bad |-> to.bad]
    BY <1>4 DEF Claude!ReadRow
<1>7. \A o \in Observed : Claude!Total(o.tokens) \in Nat
    BY DEF Observed, Claude!Total
<1>8. \A o \in same : IF Claude!Less(Claude!Score(o), Claude!Score(new))
                      THEN Claude!Total(o.tokens) <= Claude!Sum(r.tokens)
                      ELSE Claude!Sum(r.tokens) <= Claude!Total(o.tokens)
  <2>1. \A o \in same : o \in Observed
      BY <1>5
  <2> HIDE DEF new, same
  <2> QED
      BY <1>2, <2>1, ScoresCompare
<1>9. (1 .. n) = (1 .. n - 1) \union {n}
    OBVIOUS
<1>10. CASE r.damaged
  <2>1. to.obs = obs /\ to.bad = bad + 1 /\ to \in [obs : SUBSET Observed, bad : Nat]
    <3> HIDE DEF to
    <3> QED
        BY <1>6, <1>10
  <2> HIDE DEF to
  <2>2. to.bad > 0
      BY <2>1
  <2>3. \A o \in to.obs : \E j \in 1 .. n : o.id = rows[j].msg /\ Claude!Total(o.tokens) = Claude!Sum(rows[j].tokens)
      BY <1>5, <1>9, <2>1
  <2>4. IsKnown(to, rows, n)
      BY <1>5, <2>1, <2>2, <2>3 DEF IsKnown
  <2> QED
      BY <2>4 DEF to
<1>11. CASE ~r.damaged /\ \E o \in same : ~Claude!Less(Claude!Score(o), Claude!Score(new))
  <2>1. to.obs = obs /\ to.bad \in {bad, bad + 1} /\ to \in [obs : SUBSET Observed, bad : Nat]
    <3> HIDE DEF to
    <3> QED
        BY <1>6, <1>11
  <2> HIDE DEF to
  <2>2. \E o \in obs : o.id = rows[n].msg /\ Claude!Sum(rows[n].tokens) <= Claude!Total(o.tokens)
    <3> HIDE DEF new
    <3> QED
        BY <1>5, <1>8, <1>11
  <2>3. \A j \in 1 .. n :
           \/ to.bad > 0
           \/ \E o \in obs : o.id = rows[j].msg /\ Claude!Sum(rows[j].tokens) <= Claude!Total(o.tokens)
      BY <1>5, <1>9, <2>1, <2>2
  <2>4. \A o \in obs : \E j \in 1 .. n : o.id = rows[j].msg /\ Claude!Total(o.tokens) = Claude!Sum(rows[j].tokens)
      BY <1>5, <1>9
  <2>5. IsKnown(to, rows, n)
      BY <1>5, <2>1, <2>3, <2>4 DEF IsKnown
  <2> QED
      BY <2>5 DEF to
<1>12. CASE ~r.damaged /\ \A o \in same : Claude!Less(Claude!Score(o), Claude!Score(new))
  <2>1. /\ to.obs = (obs \ same) \union {new} /\ to.bad \in {bad, bad + 1}
        /\ to \in [obs : SUBSET Observed, bad : Nat]
    <3> HIDE DEF to, new, same
    <3>1. to.obs = (obs \ same) \union {new} /\ to.bad \in {bad, bad + 1} /\ to = [obs |-> to.obs, bad |-> to.bad]
        BY <1>6, <1>12
    <3> QED
        BY <1>2, <3>1
  <2>2. same = {o \in obs : o.id = r.msg}
      BY <1>5
  <2> HIDE DEF to, same, new
  <2>3. IsFiniteSet(to.obs)
    <3>1. IsFiniteSet(obs \ same)
        BY <1>5, FS_Subset
    <3>2. IsFiniteSet((obs \ same) \union {new})
        BY <3>1, FS_AddElement
    <3> QED
        BY <2>1, <3>2, Zenon
  <2>4. \A o, p \in to.obs : o.id = p.id => o = p
      BY <1>2, <1>5, <2>1, <2>2
  <2>5. \A o \in to.obs : \E j \in 1 .. n : o.id = rows[j].msg /\ Claude!Total(o.tokens) = Claude!Sum(rows[j].tokens)
      BY <1>2, <1>5, <1>9, <2>1
  <2>6. ASSUME NEW j \in 1 .. n, ~(to.bad > 0)
        PROVE  \E o \in to.obs : o.id = rows[j].msg /\ Claude!Sum(rows[j].tokens) <= Claude!Total(o.tokens)
    <3>1. CASE j = n
        BY <1>2, <1>3, <2>1, <3>1
    <3>2. CASE j \in 1 .. n - 1
      <4>1. PICK o \in obs : o.id = rows[j].msg /\ Claude!Sum(rows[j].tokens) <= Claude!Total(o.tokens)
          BY <1>5, <2>1, <2>6, <3>2
      <4>2. CASE o \notin same
          BY <2>1, <4>1, <4>2
      <4>3. CASE o \in same
        <5>1. Claude!Total(o.tokens) <= Claude!Sum(r.tokens)
            BY <1>8, <1>12, <4>3
        <5>2. rows[j] \in RowsOfClaude
            BY <3>2
        <5>3. Claude!Sum(rows[j].tokens) \in Nat
            BY <5>2, CountersSum
        <5>4. Claude!Sum(rows[j].tokens) <= Claude!Total(new.tokens)
            BY <1>2, <1>3, <1>7, <4>1, <5>1, <5>3
        <5> QED
            BY <1>2, <2>1, <2>2, <4>1, <4>3, <5>4
      <4> QED
          BY <4>2, <4>3
    <3> QED
        BY <1>9, <3>1, <3>2
  <2>7. IsKnown(to, rows, n)
      BY <2>1, <2>3, <2>4, <2>5, <2>6 DEF IsKnown
  <2> QED
      BY <2>7 DEF to
<1> QED
    BY <1>10, <1>11, <1>12

(* All the rows that are read, up to the limit. *)
LEMMA AllKnown ==
    ASSUME NEW rows \in Seq(RowsOfClaude), NEW n \in 0 .. Len(rows)
    PROVE  IsKnown(Claude!After(rows, n), rows, n)
<1>0. n \in Nat
    OBVIOUS
<1>1. PICK h : IsReading(h, rows, n) /\ Claude!After(rows, n) = h[n]
  <2>1. IsReading(CHOOSE h : IsReading(h, rows, n), rows, n)
      BY <1>0, ReadingExists
  <2> QED
      BY <2>1, AfterIsReading
<1>2. h[0] = [obs |-> {}, bad |-> 0] /\ \A i \in 1 .. n : h[i] = Claude!ReadRow(h[i - 1], rows[i])
  <2> DEFINE Next1(j) == IF j = 0 THEN [obs |-> {}, bad |-> 0] ELSE Claude!ReadRow(h[j - 1], rows[j])
  <2>1. h = [j \in 0 .. n |-> Next1(j)]
      BY Zenon, <1>1 DEF IsReading
  <2>2. Next1(0) = [obs |-> {}, bad |-> 0] /\ \A i \in 1 .. n : Next1(i) = Claude!ReadRow(h[i - 1], rows[i])
      OBVIOUS
  <2> HIDE DEF Next1
  <2>3. \A i \in 0 .. n : h[i] = Next1(i)
      BY Zenon, <2>1
  <2>4. 0 \in 0 .. n /\ \A i \in 1 .. n : i \in 0 .. n
      BY <1>0
  <2> QED
      BY Zenon, <2>2, <2>3, <2>4
<1> DEFINE B == {i \in 0 .. n : IsKnown(h[i], rows, i)}
<1>3. 0 \in B
  <2>1. IsFiniteSet({})
      BY FS_EmptySet
  <2>2. IsKnown([obs |-> {}, bad |-> 0], rows, 0)
      BY <2>1 DEF IsKnown
  <2> QED
      BY <1>2, <2>2
<1>4. ASSUME NEW i \in 1 .. n, i - 1 \in B
      PROVE  i \in B
  <2>1. i \in 1 .. Len(rows) /\ IsKnown(h[i - 1], rows, i - 1)
      BY <1>4
  <2>2. IsKnown(Claude!ReadRow(h[i - 1], rows[i]), rows, i)
      BY <2>1, ReadKeeps
  <2> QED
      BY <1>2, <2>2
<1>5. n \in B
  <2> HIDE DEF B
  <2> QED
      BY <1>3, <1>4, UpTo
<1> QED
    BY <1>1, <1>5

(* So the scan is exact, or too small and marked. *)
LEMMA ScanIsExact == ClaudeInv => Claude!ClaudeExact
<1> SUFFICES ASSUME ClaudeInv, NEW order \in Claude!Orders
             PROVE  LET s == Claude!Scan(order) IN s.total <= Claude!Used /\ (s.partial \/ s.total = Claude!Used)
    BY DEF Claude!ClaudeExact
<1>1. PICK rows \in Seq(RowsOfClaude) : rows = Claude!Rows(order) /\ {rows[j] : j \in DOMAIN rows} = Written
    BY TranscriptRows
<1> DEFINE truncated == Len(rows) > ClaudeRecords
           n == IF truncated THEN ClaudeRecords ELSE Len(rows)
<1>2. n \in 0 .. Len(rows) /\ (truncated \/ n = Len(rows))
    BY ClaudeIs
<1> HIDE DEF n
<1>3. PICK st : st = Claude!After(rows, n) /\ IsKnown(st, rows, n)
    BY <1>2, AllKnown
<1> DEFINE size == [o \in st.obs |-> Claude!Total(o.tokens)]
           id == [o \in st.obs |-> o.id]
           of == [m \in Messages |-> {o \in st.obs : o.id = m}]
           read == [m \in Messages |-> SumFunctionOnSet(size, of[m])]
           true == [m \in Messages |-> Claude!Sum(counters[m])]
           partial == truncated \/ st.bad > 0
           s == Claude!Scan(order)
<1>4. s.total = SumFunctionOnSet(size, st.obs) /\ s.partial = partial
  <2>1. n = IF Len(Claude!Rows(order)) > ClaudeRecords THEN ClaudeRecords ELSE Len(Claude!Rows(order))
      BY <1>1 DEF n
  <2>2. s.total = Claude!SumFunctionOnSet(size, st.obs) /\ s.partial = partial
      BY <1>1, <1>3, <2>1 DEF Claude!Scan
  <2> QED
      BY <2>2, ClaudeSum
<1>5. Claude!Used = SumFunctionOnSet(true, Messages)
    BY ClaudeSum DEF Claude!Used
<1>6. /\ st.obs \subseteq Observed /\ IsFiniteSet(st.obs) /\ st.bad \in Nat
      /\ \A o, p \in st.obs : o.id = p.id => o = p
    BY <1>3 DEF IsKnown
<1>7. \A o \in st.obs : size[o] \in Nat /\ o.id \in Messages
    BY <1>6 DEF Observed, Claude!Total
<1>8. \A m \in Messages : true[m] \in Nat
    BY DEF ClaudeInv, Counters, Claude!Sum
<1>9. \A j \in 1 .. n : rows[j] \in Written
    BY <1>1, <1>2
<1>10. \A o \in st.obs : size[o] <= true[o.id]
  <2> TAKE o \in st.obs
  <2>1. PICK j \in 1 .. n : o.id = rows[j].msg /\ Claude!Total(o.tokens) = Claude!Sum(rows[j].tokens)
      BY <1>3 DEF IsKnown
  <2>2. Claude!Sum(rows[j].tokens) <= Claude!Sum(counters[rows[j].msg])
      BY <1>9 DEF ClaudeInv
  <2> QED
      BY <1>7, <2>1, <2>2
<1>11. \A m \in Messages : /\ read[m] \in Int /\ read[m] <= true[m]
                           /\ partial \/ read[m] = true[m]
  <2> TAKE m \in Messages
  <2>1. of[m] = {o \in st.obs : o.id = m} /\ read[m] = SumFunctionOnSet(size, of[m])
      OBVIOUS
  <2>2. CASE of[m] = {}
    <3>1. read[m] = 0
        BY <2>1, <2>2, SumEmpty, Zenon
    <3>2. ASSUME ~partial
          PROVE  true[m] = 0
      <4>1. CASE Claude!Sum(counters[m]) = 0
          BY <4>1
      <4>2. CASE \E r \in Written : r.msg = m /\ Claude!Sum(r.tokens) = Claude!Sum(counters[m])
        <5>1. PICK j \in 1 .. n : rows[j].msg = m
            BY <1>1, <1>2, <3>2, <4>2
        <5>2. \E o \in st.obs : o.id = m
            BY <1>3, <1>6, <3>2, <5>1 DEF IsKnown
        <5> QED
            BY <2>1, <2>2, <5>2
      <4> QED
          BY <4>1, <4>2 DEF ClaudeInv
    <3> HIDE DEF read, true, of, partial
    <3> QED
        BY <1>8, <3>1, <3>2
  <2>3. CASE of[m] # {}
    <3>1. PICK o \in st.obs : o.id = m /\ of[m] = {o}
        BY <1>6, <2>1, <2>3
    <3>2. read[m] = size[o]
      <4> HIDE DEF size, of, read
      <4>1. size[o] \in Int
          BY <1>7, <3>1
      <4>2. read[m] = SumFunctionOnSet(size, {o})
          BY Zenon, <2>1, <3>1
      <4> QED
          BY <4>1, <4>2, SumSingle
    <3>3. ASSUME ~partial
          PROVE  true[m] <= size[o]
      <4>1. CASE Claude!Sum(counters[m]) = 0
          BY <1>7, <4>1
      <4>2. CASE \E r \in Written : r.msg = m /\ Claude!Sum(r.tokens) = Claude!Sum(counters[m])
        <5>1. PICK j \in 1 .. n : rows[j].msg = m /\ Claude!Sum(rows[j].tokens) = Claude!Sum(counters[m])
            BY <1>1, <1>2, <3>3, <4>2
        <5>2. PICK p \in st.obs : p.id = m /\ Claude!Sum(rows[j].tokens) <= Claude!Total(p.tokens)
            BY <1>3, <1>6, <3>3, <5>1 DEF IsKnown
        <5>3. p = o
            BY <1>6, <3>1, <5>2
        <5> QED
            BY <5>1, <5>2, <5>3
      <4> QED
          BY <4>1, <4>2 DEF ClaudeInv
    <3>4. size[o] \in Nat /\ size[o] <= true[m]
        BY <1>7, <1>10, <3>1
    <3> HIDE DEF read, true, of, partial, size
    <3> QED
        BY <1>8, <3>2, <3>3, <3>4
  <2> QED
      BY <2>2, <2>3
<1>12. SumFunctionOnSet(read, Messages) = SumFunctionOnSet(size, st.obs)
  <2>1. IsDivided(st.obs, id, Messages, of)
      BY <1>7 DEF IsDivided
  <2>2. AreSums(read, Messages, size, of)
      BY DEF AreSums
  <2>3. \A o \in st.obs : size[o] \in Int
    <3> HIDE DEF size
    <3> QED
        BY <1>7
  <2> HIDE DEF read, size, of, id
  <2> QED
      BY <1>6, <2>1, <2>2, <2>3, ClaudeIs, SumPartition
<1>13. SumFunctionOnSet(read, Messages) <= SumFunctionOnSet(true, Messages)
  <2> HIDE DEF read, true, partial
  <2> QED
      BY <1>8, <1>11, ClaudeIs, SumMono
<1>14. partial \/ SumFunctionOnSet(read, Messages) = SumFunctionOnSet(true, Messages)
  <2> HIDE DEF read, true, partial
  <2> QED
      BY <1>8, <1>11, ClaudeIs, SumEqual
<1> QED
    BY <1>4, <1>5, <1>12, <1>13, <1>14, Zenon

-----------------------------------------------------------------------------
(* Rows that are added, copied or damaged. *)
LEMMA WrittenAfter ==
    ASSUME NEW old, NEW new
    PROVE  Written' = UNION {{transcripts'[p][i] : i \in DOMAIN transcripts'[p]} : p \in Transcripts}
BY DEF Written

(* A response begins or is streamed on, in one more row with the counters so *)
(* far (Stream).                                                             *)
LEMMA StreamKeeps ==
    ASSUME ClaudeInv, NEW p \in Transcripts, NEW m \in Messages, NEW step \in Steps,
           NEW form \in Claude!Forms, Claude!Stream(p, m, step, form)
    PROVE  ClaudeInv'
<1> DEFINE total == Claude!Plus(counters[m], step)
           row == [msg |-> m, at |-> claudeClock, form |-> form, damaged |-> FALSE, tokens |-> total]
<1>1. /\ transcripts \in [Transcripts -> Seq(RowsOfClaude)]
      /\ counters \in [Messages -> Counters]
      /\ claudeClock \in Nat
    BY DEF ClaudeInv
<1>2. /\ total \in Counters
      /\ Claude!Sum(counters[m]) <= Claude!Sum(total)
      /\ \A k \in Messages : Claude!Sum(counters[k]) \in Nat
      /\ Claude!Sum(total) \in Nat
  <2>1. PICK a \in Nat, b \in Nat, c \in Nat : counters[m] = [in |-> a, write |-> b, out |-> c]
      BY <1>1 DEF Counters
  <2>2. PICK x \in Nat, y \in Nat, z \in Nat : step = [in |-> x, write |-> y, out |-> z]
      BY ClaudeIs
  <2>3. total = [in |-> a + x, write |-> b + y, out |-> c + z]
      BY <2>1, <2>2 DEF Claude!Plus
  <2>4. total \in Counters /\ Claude!Sum(counters[m]) = a + b + c /\ Claude!Sum(total) = a + x + b + y + c + z
    <3> HIDE DEF total
    <3> QED
        BY <2>1, <2>3 DEF Claude!Sum, Counters
  <2>5. \A k \in Messages : Claude!Sum(counters[k]) \in Nat
      BY <1>1 DEF Counters, Claude!Sum
  <2> HIDE DEF total
  <2> QED
      BY <2>4, <2>5
<1>3. /\ counters' = [counters EXCEPT ![m] = total]
      /\ transcripts' = [transcripts EXCEPT ![p] = Append(@, row)]
      /\ claudeClock' = claudeClock + 1
    BY <1>1 DEF Claude!Stream
<1>4. row \in RowsOfClaude
    BY <1>1, <1>2 DEF RowsOfClaude
<1>5. row.msg = m /\ row.tokens = total
    OBVIOUS
<1> HIDE DEF row, total
<1>6. transcripts' \in [Transcripts -> Seq(RowsOfClaude)] /\ counters' \in [Messages -> Counters] /\ claudeClock' \in Nat
    BY <1>1, <1>2, <1>3, <1>4
<1>7. Written' = Written \union {row}
  <2> DEFINE Elements(s) == {s[j] : j \in DOMAIN s}
  <2>1. Elements(transcripts'[p]) = Elements(transcripts[p]) \union {row}
    <3>1. PICK s \in Seq(RowsOfClaude) : s = transcripts[p]
        BY <1>1
    <3>2. transcripts'[p] = Append(s, row)
        BY <1>1, <1>3, <3>1
    <3>3. /\ DOMAIN Append(s, row) = DOMAIN s \union {Len(s) + 1}
          /\ \A j \in DOMAIN s : Append(s, row)[j] = s[j]
          /\ Append(s, row)[Len(s) + 1] = row
        OBVIOUS
    <3>4. Elements(Append(s, row)) = Elements(s) \union {row}
        BY <3>3
    <3> QED
        BY <3>1, <3>2, <3>4, Zenon
  <2>2. \A q \in Transcripts : q # p => transcripts'[q] = transcripts[q]
      BY <1>1, <1>3
  <2>3. /\ Written = UNION {Elements(transcripts[q]) : q \in Transcripts}
        /\ Written' = UNION {Elements(transcripts'[q]) : q \in Transcripts}
      BY Zenon DEF Written
  <2> HIDE DEF Elements
  <2> QED
      BY <2>1, <2>2, <2>3
<1>8. /\ \A r \in Written : r.msg \in Messages /\ Claude!Sum(r.tokens) \in Nat
      /\ \A r \in Written : Claude!Sum(r.tokens) <= Claude!Sum(counters[r.msg])
  <2>1. \A r \in Written : r \in RowsOfClaude
      BY <1>1 DEF Written
  <2> QED
      BY <2>1 DEF ClaudeInv, RowsOfClaude, Counters, Claude!Sum
<1>9. /\ \A k \in Messages : counters'[k] = IF k = m THEN total ELSE counters[k]
    BY <1>1, <1>3
<1>10. \A r \in Written' : Claude!Sum(r.tokens) <= Claude!Sum(counters'[r.msg])
    BY <1>2, <1>5, <1>7, <1>8, <1>9
<1>11. \A k \in Messages :
         \/ Claude!Sum(counters'[k]) = 0
         \/ \E r \in Written' : r.msg = k /\ Claude!Sum(r.tokens) = Claude!Sum(counters'[k])
  <2> TAKE k \in Messages
  <2>1. CASE k = m
      BY <1>5, <1>7, <1>9, <2>1
  <2>2. CASE k # m
      BY <1>7, <1>9, <2>2 DEF ClaudeInv
  <2> QED
      BY <2>1, <2>2
<1> QED
    BY <1>6, <1>10, <1>11 DEF ClaudeInv

(* Rows of the same messages with the same counters. *)
LEMMA SameRowsKeep ==
    ASSUME ClaudeInv, transcripts' \in [Transcripts -> Seq(RowsOfClaude)], UNCHANGED <<counters, claudeClock>>,
           \A r \in Written' : \E s \in Written : s.msg = r.msg /\ s.tokens = r.tokens,
           \A s \in Written : \E r \in Written' : s.msg = r.msg /\ s.tokens = r.tokens
    PROVE  ClaudeInv'
<1>1. \A r \in Written' : Claude!Sum(r.tokens) <= Claude!Sum(counters[r.msg])
  <2> TAKE r \in Written'
  <2>1. PICK s \in Written : s.msg = r.msg /\ s.tokens = r.tokens
      OBVIOUS
  <2>2. Claude!Sum(s.tokens) <= Claude!Sum(counters[s.msg])
      BY DEF ClaudeInv
  <2> QED
      BY <2>1, <2>2, Zenon
<1>2. \A m \in Messages :
         \/ Claude!Sum(counters[m]) = 0
         \/ \E r \in Written' : r.msg = m /\ Claude!Sum(r.tokens) = Claude!Sum(counters[m])
  <2> TAKE m \in Messages
  <2>1. CASE \E s \in Written : s.msg = m /\ Claude!Sum(s.tokens) = Claude!Sum(counters[m])
    <3>1. PICK s \in Written : s.msg = m /\ Claude!Sum(s.tokens) = Claude!Sum(counters[m])
        BY <2>1
    <3>2. PICK r \in Written' : s.msg = r.msg /\ s.tokens = r.tokens
        OBVIOUS
    <3> QED
        BY <3>1, <3>2, Zenon
  <2> QED
      BY <2>1 DEF ClaudeInv
<1> QED
    BY <1>1, <1>2 DEF ClaudeInv

(* A transcript begins with the rows of another one (Branch).                *)
LEMMA BranchKeeps ==
    ASSUME ClaudeInv, NEW p \in Transcripts, NEW q \in Transcripts, NEW n, Claude!Branch(p, q, n)
    PROVE  ClaudeInv'
<1>1. transcripts \in [Transcripts -> Seq(RowsOfClaude)]
    BY DEF ClaudeInv
<1>2. PICK s \in Seq(RowsOfClaude) : s = transcripts[p]
    BY <1>1
<1>3. /\ n \in 1 .. Len(s) /\ transcripts[q] = <<>>
      /\ transcripts' = [transcripts EXCEPT ![q] = SubSeq(s, 1, n)]
      /\ UNCHANGED <<counters, claudeClock>>
    BY <1>2 DEF Claude!Branch
<1>4. /\ SubSeq(s, 1, n) \in Seq(RowsOfClaude) /\ DOMAIN SubSeq(s, 1, n) = 1 .. n
      /\ \A j \in 1 .. n : SubSeq(s, 1, n)[j] = s[j] /\ j \in DOMAIN s
    BY <1>3
<1>5. transcripts' \in [Transcripts -> Seq(RowsOfClaude)]
    BY <1>1, <1>3, <1>4
<1>6. transcripts'[q] = SubSeq(s, 1, n) /\ \A x \in Transcripts : x # q => transcripts'[x] = transcripts[x]
    BY <1>1, <1>3
<1>7. DOMAIN transcripts[q] = {}
    BY <1>3
<1>8. Written' \subseteq Written
  <2>1. ASSUME NEW x \in Transcripts, NEW j \in DOMAIN transcripts'[x]
        PROVE  transcripts'[x][j] \in Written
    <3>1. CASE x = q
      <4>1. j \in DOMAIN transcripts[p] /\ transcripts'[x][j] = transcripts[p][j]
          BY <1>2, <1>4, <1>6, <2>1, <3>1
      <4> QED
          BY <4>1 DEF Written
    <3>2. CASE x # q
        BY <1>6, <2>1, <3>2 DEF Written
    <3> QED
        BY <3>1, <3>2
  <2> QED
      BY <2>1 DEF Written
<1>9. Written \subseteq Written'
    BY <1>6, <1>7 DEF Written
<1> QED
    BY <1>3, <1>5, <1>8, <1>9, SameRowsKeep

(* A row is destroyed (Damage): its tokens are still those of the message.   *)
LEMMA DamageKeeps ==
    ASSUME ClaudeInv, NEW p \in Transcripts, NEW i, Claude!Damage(p, i)
    PROVE  ClaudeInv'
<1>1. transcripts \in [Transcripts -> Seq(RowsOfClaude)]
    BY DEF ClaudeInv
<1>2. PICK s \in Seq(RowsOfClaude) : s = transcripts[p]
    BY <1>1
<1> DEFINE row == [s[i] EXCEPT !.damaged = TRUE]
           to == [s EXCEPT ![i] = row]
<1>3. /\ i \in DOMAIN s
      /\ transcripts' = [transcripts EXCEPT ![p] = to]
      /\ UNCHANGED <<counters, claudeClock>>
    BY <1>2 DEF Claude!Damage
<1>4. row \in RowsOfClaude /\ row.msg = s[i].msg /\ row.tokens = s[i].tokens
  <2>1. s[i] \in RowsOfClaude
      BY <1>3
  <2> QED
      BY <2>1 DEF RowsOfClaude
<1> HIDE DEF row
<1>5. to \in Seq(RowsOfClaude) /\ DOMAIN to = DOMAIN s /\ \A j \in DOMAIN s : to[j] = IF j = i THEN row ELSE s[j]
    BY <1>3, <1>4
<1> HIDE DEF to
<1>6. transcripts' \in [Transcripts -> Seq(RowsOfClaude)]
    BY <1>1, <1>3, <1>5
<1>7. transcripts'[p] = to /\ \A x \in Transcripts : x # p => transcripts'[x] = transcripts[x]
    BY <1>1, <1>3
<1>8. \A r \in Written' : \E u \in Written : u.msg = r.msg /\ u.tokens = r.tokens
  <2>1. ASSUME NEW q \in Transcripts, NEW j \in DOMAIN transcripts'[q]
        PROVE  \E u \in Written : u.msg = transcripts'[q][j].msg /\ u.tokens = transcripts'[q][j].tokens
    <3>1. j \in DOMAIN transcripts[q] /\ transcripts[q][j] \in Written
        BY <1>2, <1>5, <1>7, <2>1 DEF Written
    <3>2. \/ transcripts'[q][j] = transcripts[q][j]
          \/ transcripts'[q][j] = row /\ transcripts[q][j] = s[i]
        BY <1>2, <1>5, <1>7, <2>1, <3>1
    <3> QED
        BY <1>4, <3>1, <3>2
  <2> QED
      BY <2>1 DEF Written
<1>9. \A u \in Written : \E r \in Written' : u.msg = r.msg /\ u.tokens = r.tokens
  <2>1. ASSUME NEW q \in Transcripts, NEW j \in DOMAIN transcripts[q]
        PROVE  \E r \in Written' : transcripts[q][j].msg = r.msg /\ transcripts[q][j].tokens = r.tokens
    <3>1. j \in DOMAIN transcripts'[q] /\ transcripts'[q][j] \in Written'
        BY <1>2, <1>5, <1>7, <2>1 DEF Written
    <3>2. \/ transcripts'[q][j] = transcripts[q][j]
          \/ transcripts'[q][j] = row /\ transcripts[q][j] = s[i]
        BY <1>2, <1>5, <1>7, <2>1, <3>1
    <3> QED
        BY <1>4, <3>1, <3>2
  <2> QED
      BY <2>1 DEF Written
<1> QED
    BY <1>3, <1>6, <1>8, <1>9, SameRowsKeep

(* Every step keeps the invariant. *)
LEMMA ClaudeStep == ClaudeInv /\ [Claude!Next]_claudeVars => ClaudeInv'
<1> SUFFICES ASSUME ClaudeInv, [Claude!Next]_claudeVars
             PROVE  ClaudeInv'
    OBVIOUS
<1>1. ASSUME NEW p \in Transcripts, NEW m \in Messages, NEW step \in Steps,
             NEW form \in Claude!Forms, Claude!Stream(p, m, step, form)
      PROVE  ClaudeInv'
    BY <1>1, StreamKeeps
<1>2. ASSUME NEW p \in Transcripts, NEW q \in Transcripts, NEW n, Claude!Branch(p, q, n)
      PROVE  ClaudeInv'
    BY <1>2, BranchKeeps
<1>3. ASSUME NEW p \in Transcripts, NEW i, Claude!Damage(p, i)
      PROVE  ClaudeInv'
    BY <1>3, DamageKeeps
<1>4. CASE UNCHANGED claudeVars
    BY <1>4 DEF claudeVars, ClaudeInv, Written
<1> QED
    BY <1>1, <1>2, <1>3, <1>4 DEF Claude!Next

(* It starts with no transcript.                                             *)
LEMMA ClaudeBegin == Claude!Init => ClaudeInv
<1> SUFFICES ASSUME Claude!Init
             PROVE  ClaudeInv
    OBVIOUS
<1>1. /\ transcripts = [p \in Transcripts |-> <<>>]
      /\ counters = [m \in Messages |-> Claude!Nothing]
      /\ claudeClock = 1
    BY DEF Claude!Init
<1>2. Claude!Nothing \in Counters /\ Claude!Sum(Claude!Nothing) = 0
    BY DEF Claude!Nothing, Claude!Sum, Counters
<1>3. Written = {}
    BY <1>1 DEF Written
<1>4. transcripts \in [Transcripts -> Seq(RowsOfClaude)]
    BY <1>1
<1> QED
    BY <1>1, <1>2, <1>3, <1>4 DEF ClaudeInv

(* Only the steps of this part change any of it. *)
LEMMA ClaudeRun == [PollingNext]_pollingVars => [Claude!Next]_claudeVars
BY DEF PollingNext, pollingVars

(* The inductive invariant ClaudeInv holds always: whatever the client       *)
(* streams, repeats, resumes and destroys, and however the scans cut it off. *)
THEOREM ClaudeInvariant == PollingSpec => []ClaudeInv
<1>1. PollingInit => ClaudeInv
    BY ClaudeBegin DEF PollingInit
<1> QED
    BY <1>1, ClaudeRun, ClaudeStep, PTL DEF PollingSpec

(* A scan of Claude's transcripts never reports more than was used, and a    *)
(* total that is not marked as partial is exact (scan_claude_usage).         *)
THEOREM ClaudeExactCorrect == PollingSpec => []Claude!ClaudeExact
BY ClaudeInvariant, ScanIsExact, PTL

-----------------------------------------------------------------------------
(* The logs of the clients, Codex and Claude: no total is more than what was *)
(* used, none that is not marked as partial is less, and copies add nothing  *)
(* (scan_codex_usage, scan_claude_usage).                                    *)
THEOREM LogsAreExactCorrect == PollingSpec => []LogsAreExact
<1>1. Codex!CodexExact /\ Codex!CodexCopiesAddNothing /\ Claude!ClaudeExact => LogsAreExact
    BY DEF LogsAreExact
<1> QED
    BY <1>1, CodexExactCorrect, CopiesAddNothingCorrect, ClaudeExactCorrect, PTL

=============================================================================
