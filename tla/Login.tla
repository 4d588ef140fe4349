-------------------------------- MODULE Login --------------------------------
(***************************************************************************)
(* The launcher up to the moment the game runs: choosing a server, logging *)
(* in to BeamMP with or without the token cache, writing the connect file  *)
(* and starting the game, which reads it.                                  *)
(*                                                                         *)
(* Several launchers of one account share both files.  A std::ofstream     *)
(* truncates the file when it is opened and writes it when it is closed:   *)
(* between the two a launcher can be killed, and another one can do the    *)
(* same.  The BeamMP auth server, the master servers and the game are      *)
(* external.                                                               *)
(***************************************************************************)
EXTENDS Naturals, FiniteSets

CONSTANTS
    Launchers, Users,
    NovaServers, BeamServers,
    Nobody,  \* no key, no server
    TTL,     \* CACHE_TTL
    MaxTime  \* BOUND on the clock

ASSUME LoginAssumption == TTL \in Nat /\ MaxTime \in Nat

Servers == NovaServers \cup BeamServers

\* A file that is not there, was only opened, or was written by two at once.
FileStates == {"none", "empty", "corrupt"}

\* A server is of one kind, and is not one of the other values beside it.
ASSUME ServersAssumption ==
    /\ NovaServers \cap BeamServers = {}
    /\ Nobody \notin Users \cup Servers
    /\ Servers \cap (FileStates \cup {"off", "starting", "alone"}) = {}

NoEntry(state) == [state |-> state, user |-> Nobody, key |-> Nobody, saved_at |-> 0]

VARIABLES
    now,          \* the system clock
    cache,        \* beammp_token.json, an entry or not: see NoEntry
    connectFile,  \* novaMP_connect.json: a server, or "none", "empty", "corrupt"
    launcher,     \* where a launcher stands
    user, typed,  \* who logs in, and whether a password was typed
    server,       \* the server that was selected
    key, age,     \* m_private_key, by its owner, and how old it was when taken
    stamp,        \* saved_at of the cache entry being written
    game,         \* the game a launcher started: the server it joined, or "off",
                  \* "starting", "alone" when there was nothing to read
    raced         \* history: launchers whose connect file another one touched

loginVars == <<user, typed, server, key, age, stamp>>
startVars == <<now, cache, connectFile, launcher, loginVars, game, raced>>

LoginInit ==
    /\ now = 0 /\ cache = NoEntry("none") /\ connectFile = "none"
    /\ launcher = [l \in Launchers |-> "begin"]
    /\ user = [l \in Launchers |-> Nobody] /\ typed = [l \in Launchers |-> FALSE]
    /\ server = [l \in Launchers |-> Nobody]
    /\ key = [l \in Launchers |-> Nobody] /\ age = [l \in Launchers |-> 0]
    /\ stamp = [l \in Launchers |-> 0]
    /\ game = [l \in Launchers |-> "off"] /\ raced = {}

Tick ==
    /\ now < MaxTime /\ now' = now + 1
    /\ UNCHANGED <<cache, connectFile, launcher, loginVars, game, raced>>

At(l, here, next) == launcher[l] = here /\ launcher' = [launcher EXCEPT ![l] = next]

\* The process is killed; a game it started lives on.
Killed(l) ==
    /\ launcher[l] \notin {"begin", "play", "exited"}
    /\ launcher' = [launcher EXCEPT ![l] = "exited"]
    /\ UNCHANGED <<now, cache, connectFile, loginVars, game, raced>>

\* What a file holds after a writer that opened it earlier has written: its own
\* content if the file was empty, else that may have the tail of another one.
Written(empty, content, corrupt) == IF empty THEN {content} ELSE {content, corrupt}

-----------------------------------------------------------------------------
(* Choosing a server.                                                      *)

\* Username and password; installMod goes wrong without consequences.
Prompt(l) ==
    /\ At(l, "begin", "browse")
    /\ \E u \in Users, t \in BOOLEAN :
         user' = [user EXCEPT ![l] = u] /\ typed' = [typed EXCEPT ![l] = t]
    /\ UNCHANGED <<now, cache, connectFile, server, key, age, stamp, game, raced>>

\* fetchNovaMP and fetchBeamMP may fail, also half way: what was read is kept.
NovaLists == SUBSET NovaServers
BeamLists == SUBSET BeamServers

Fetched == {nova \cup beam : nova \in NovaLists, beam \in BeamLists}

\* runConsoleUI: one of the servers that pass the filter, or none.  A launcher
\* with a server on its command line skips the lists.
Select(l) ==
    \/ /\ \E servers \in Fetched, filter \in {Servers, NovaServers, BeamServers} :
            \E s \in servers \cap filter :
              /\ server' = [server EXCEPT ![l] = s]
              /\ At(l, "browse", IF s \in NovaServers THEN "open_connect"
                                 ELSE IF typed[l] THEN "live" ELSE "cached")
       /\ UNCHANGED <<now, cache, connectFile, user, typed, key, age, stamp, game, raced>>
    \/ /\ At(l, "browse", "exited")
       /\ UNCHANGED <<now, cache, connectFile, loginVars, game, raced>>

-----------------------------------------------------------------------------
(* BeamMPAuth.                                                             *)

IsEntry == cache.state = "entry"

\* MUTANT: the cache of any user will do.
AnyUser(l) == IsEntry

OfThisUser(l) == IsEntry /\ cache.user = user[l]

\* MUTANT: entries do not expire.
NeverExpired == TRUE

NotExpired == ~(now - cache.saved_at > TTL)

\* tryCache(): a file that is not JSON is no entry.
CacheValid(l) == OfThisUser(l) /\ NotExpired

TakeCached(l) ==
    /\ key' = [key EXCEPT ![l] = cache.key]
    /\ age' = [age EXCEPT ![l] = now - cache.saved_at]

\* No password: the cache first, then a prompt for the password.
LoadCached(l) ==
    /\ IF CacheValid(l) THEN At(l, "cached", "open_connect") /\ TakeCached(l)
                        ELSE At(l, "cached", "live") /\ UNCHANGED <<key, age>>
    /\ UNCHANGED <<now, cache, connectFile, user, typed, server, stamp, game, raced>>

\* tryLiveAuth: the server issues a key ...
Accepted(l) ==
    /\ At(l, "live", "open_cache")
    /\ key' = [key EXCEPT ![l] = user[l]] /\ age' = [age EXCEPT ![l] = 0]
    /\ UNCHANGED <<now, cache, connectFile, user, typed, server, stamp, game, raced>>

\* MUTANT: the launcher goes on without a key.
GoesOnWithoutKey == "open_connect"

\* runBeamMP returns.
AfterFailedLogin == "exited"

\* ... or cannot be reached, answers nonsense, or says no: the cache is used
\* whatever the reason.
NotAccepted(l) ==
    /\ IF CacheValid(l) THEN At(l, "live", "open_connect") /\ TakeCached(l)
                        ELSE At(l, "live", AfterFailedLogin) /\ UNCHANGED <<key, age>>
    /\ UNCHANGED <<now, cache, connectFile, user, typed, server, stamp, game, raced>>

\* saveCache: opening truncates; a file that cannot be opened is left alone.
OpenCache(l) ==
    /\ \/ At(l, "open_cache", "write_cache") /\ cache' = NoEntry("empty")
       \/ At(l, "open_cache", "open_connect") /\ UNCHANGED cache
    /\ stamp' = [stamp EXCEPT ![l] = now]
    /\ UNCHANGED <<now, connectFile, user, typed, server, key, age, game, raced>>

WriteCache(l) ==
    /\ At(l, "write_cache", "open_connect")
    /\ cache' \in Written(cache.state = "empty",
                         [state |-> "entry", user |-> user[l], key |-> key[l],
                          saved_at |-> stamp[l]],
                         NoEntry("corrupt"))
    /\ UNCHANGED <<now, connectFile, loginVars, game, raced>>

-----------------------------------------------------------------------------
(* launchGame.                                                             *)

\* Launchers whose game may still read the connect file.
Concerned == {l \in Launchers : launcher[l] \in {"write_connect", "exec"}
                                  \/ game[l] = "starting"}

\* MUTANT: the game is started although the file was not written.
StartsAnyway == "exec"

AfterFailedOpen == "play"

\* writeConnectConfig; the callers go on to connect in any case.
OpenConnect(l) ==
    /\ \/ /\ At(l, "open_connect", "write_connect")
          /\ connectFile' = "empty"
          /\ raced' = raced \cup (Concerned \ {l})
       \/ /\ At(l, "open_connect", AfterFailedOpen)
          /\ UNCHANGED <<connectFile, raced>>
    /\ UNCHANGED <<now, cache, loginVars, game>>

WriteConnect(l) ==
    /\ At(l, "write_connect", "exec")
    /\ connectFile' \in Written(connectFile = "empty", server[l], "corrupt")
    /\ raced' = raced \cup (Concerned \ {l})
    /\ UNCHANGED <<now, cache, loginVars, game>>

\* The game is not there, fork() fails, or it starts.
Exec(l) ==
    /\ At(l, "exec", "play")
    /\ \/ game' = [game EXCEPT ![l] = "starting"]
       \/ UNCHANGED game
    /\ UNCHANGED <<now, cache, connectFile, loginVars, raced>>

\* loadConnectConfig, in the game
GameReads(l) ==
    /\ game[l] = "starting"
    /\ game' = [game EXCEPT ![l] = IF connectFile \in Servers THEN connectFile ELSE "alone"]
    /\ UNCHANGED <<now, cache, connectFile, launcher, loginVars, raced>>

LoginNext ==
    \/ Tick
    \/ \E l \in Launchers :
         \/ Prompt(l) \/ Select(l) \/ Killed(l)
         \/ LoadCached(l) \/ Accepted(l) \/ NotAccepted(l)
         \/ OpenCache(l) \/ WriteCache(l)
         \/ OpenConnect(l) \/ WriteConnect(l) \/ Exec(l) \/ GameReads(l)

-----------------------------------------------------------------------------
(* Properties.                                                             *)

CacheEntry == [state : {"entry"}, user : Users, key : Users, saved_at : 0 .. MaxTime]

\* The values of the variables; who has a BeamMP server to join has a key.
LoginTypeOK ==
    /\ now \in 0 .. MaxTime
    /\ cache \in CacheEntry \cup {NoEntry(s) : s \in FileStates}
    /\ connectFile \in Servers \cup FileStates
    /\ launcher \in [Launchers -> {"begin", "browse", "cached", "live", "open_cache",
                                   "write_cache", "open_connect", "write_connect",
                                   "exec", "play", "exited"}]
    /\ user \in [Launchers -> Users \cup {Nobody}] /\ typed \in [Launchers -> BOOLEAN]
    /\ server \in [Launchers -> Servers \cup {Nobody}]
    /\ key \in [Launchers -> Users \cup {Nobody}]
    /\ age \in [Launchers -> 0 .. MaxTime] /\ stamp \in [Launchers -> 0 .. MaxTime]
    /\ game \in [Launchers -> Servers \cup {"off", "starting", "alone"}]
    /\ raced \subseteq Launchers
    /\ \A l \in Launchers :
         launcher[l] \in {"open_connect", "write_connect", "exec", "play"}
           => (server[l] \in BeamServers <=> key[l] # Nobody)

\* Launchers of different users share the cache: whatever they and a kill left
\* in the file, nobody plays with the key of another user.
KeyBelongsToUser == \A l \in Launchers : key[l] # Nobody => key[l] = user[l]

\* A key from the cache is no older than the cache allows when it is taken,
\* also where the login server could not be asked.
CachedKeyFresh == \A l \in Launchers : key[l] # Nobody => age[l] <= TTL

\* A game joins the server its player selected and never the one of an earlier
\* launch, unless another launcher wrote the file in the meantime.
GameJoinsSelected ==
    \A l \in Launchers :
      game[l] \in Servers /\ l \notin raced => game[l] = server[l]

=============================================================================
