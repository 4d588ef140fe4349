----------------------------- MODULE LoginProofs -----------------------------
(***************************************************************************)
(* Theorems about the launcher up to the moment the game runs, for every   *)
(* number of launchers, users and servers: however launchers of different  *)
(* users share the token cache and the connect file, and wherever they are *)
(* killed.                                                                 *)
(***************************************************************************)
EXTENDS ClientLauncher, TLAPS

-----------------------------------------------------------------------------
(* The inductive invariant.                                                *)

BeforeLogin == {"begin", "browse", "cached", "live"}
BeforeGame ==
    BeforeLogin \cup {"open_cache", "write_cache", "open_connect", "write_connect", "exec"}

\* What a launcher knows where it stands: only BeamMP servers need a login, and
\* only a login gives a key.
ProgressInv ==
    \A l \in Launchers :
      /\ launcher[l] \in BeforeLogin => key[l] = Nobody
      /\ launcher[l] # "begin" => user[l] \in Users
      /\ launcher[l] \in {"cached", "live", "open_cache", "write_cache"} =>
           server[l] \in BeamServers
      /\ launcher[l] \in {"open_connect", "write_connect"} => server[l] \in Servers
      /\ launcher[l] \in {"open_cache", "write_cache"} => key[l] # Nobody
      /\ launcher[l] \in BeforeGame => game[l] = "off"

\* An entry holds the key of the user it names and was saved in the past.
CacheInv ==
    /\ IsEntry => cache.key = cache.user /\ cache.saved_at <= now
    /\ \A l \in Launchers : stamp[l] <= now

\* While a launch is under way and no other launcher touched the connect file,
\* it is empty until it is written, and names the server from then on.
FileInv ==
    \A l \in Launchers \ raced :
      /\ launcher[l] = "write_connect" => connectFile = "empty"
      /\ launcher[l] = "exec" \/ game[l] = "starting" => connectFile = server[l]

LoginInv ==
    /\ LoginTypeOK /\ ProgressInv /\ CacheInv /\ FileInv
    /\ KeyBelongsToUser /\ CachedKeyFresh /\ GameJoinsSelected

-----------------------------------------------------------------------------
(* The invariant is inductive.                                             *)

\* At the start there are no files, no keys and no games.
LEMMA LoginInvInit == Init => LoginInv
  BY LoginAssumption, ServersAssumption
  DEF Init, LoginInit, LoginInv, LoginTypeOK, ProgressInv, CacheInv, FileInv, KeyBelongsToUser,
      CachedKeyFresh, GameJoinsSelected, BeforeLogin, BeforeGame, IsEntry, NoEntry, FileStates,
      CacheEntry

\* The user is asked before there is a key.
LEMMA PromptStep == ASSUME LoginInv, NEW l \in Launchers, Prompt(l) PROVE LoginInv'
<1> USE LoginAssumption, ServersAssumption, Prompt(l)
    DEF LoginInv, LoginTypeOK, ProgressInv, loginVars, Servers, BeforeLogin, BeforeGame,
        IsEntry, NoEntry, FileStates, Prompt, At
<1>1. LoginTypeOK'
  BY DEF CacheInv, CacheEntry, KeyBelongsToUser, CachedKeyFresh, Concerned
<1>2. (ProgressInv /\ CacheInv /\ KeyBelongsToUser /\ CachedKeyFresh)'
  BY DEF CacheInv, CacheEntry, KeyBelongsToUser, CachedKeyFresh
<1>3. (FileInv /\ GameJoinsSelected)'
  BY DEF FileInv, GameJoinsSelected, Concerned
<1> QED
  BY <1>1, <1>2, <1>3

\* A NovaMP server needs no login, a BeamMP server comes before any key.
LEMMA SelectStep == ASSUME LoginInv, NEW l \in Launchers, Select(l) PROVE LoginInv'
<1> USE LoginAssumption, ServersAssumption, Select(l)
    DEF LoginInv, LoginTypeOK, ProgressInv, loginVars, Servers, BeforeLogin, BeforeGame,
        IsEntry, NoEntry, FileStates, Select, At, Fetched, NovaLists, BeamLists
<1>1. LoginTypeOK'
  BY DEF CacheInv, CacheEntry, KeyBelongsToUser, CachedKeyFresh, Concerned
<1>2. (ProgressInv /\ CacheInv /\ KeyBelongsToUser /\ CachedKeyFresh)'
  BY DEF CacheInv, CacheEntry, KeyBelongsToUser, CachedKeyFresh
<1>3. (FileInv /\ GameJoinsSelected)'
  BY DEF FileInv, GameJoinsSelected, Concerned
<1> QED
  BY <1>1, <1>2, <1>3

\* A launcher that was killed keeps no place, its game keeps what it will read.
LEMMA KilledStep == ASSUME LoginInv, NEW l \in Launchers, Killed(l) PROVE LoginInv'
<1> USE LoginAssumption, ServersAssumption, Killed(l)
    DEF LoginInv, LoginTypeOK, ProgressInv, loginVars, Servers, BeforeLogin, BeforeGame,
        IsEntry, NoEntry, FileStates, Killed
<1>1. LoginTypeOK'
  BY DEF CacheInv, CacheEntry, KeyBelongsToUser, CachedKeyFresh, Concerned
<1>2. (ProgressInv /\ CacheInv /\ KeyBelongsToUser /\ CachedKeyFresh)'
  BY DEF CacheInv, CacheEntry, KeyBelongsToUser, CachedKeyFresh
<1>3. (FileInv /\ GameJoinsSelected)'
  BY DEF FileInv, GameJoinsSelected, Concerned
<1> QED
  BY <1>1, <1>2, <1>3

\* The cache is used for the user it names, while it is fresh.
LEMMA LoadCachedStep == ASSUME LoginInv, NEW l \in Launchers, LoadCached(l) PROVE LoginInv'
<1> USE LoginAssumption, ServersAssumption, LoadCached(l)
    DEF LoginInv, LoginTypeOK, ProgressInv, loginVars, Servers, BeforeLogin, BeforeGame,
        IsEntry, NoEntry, FileStates, LoadCached, At, TakeCached, CacheValid, OfThisUser, NotExpired
<1>1. LoginTypeOK'
  BY DEF CacheInv, CacheEntry, KeyBelongsToUser, CachedKeyFresh, Concerned
<1>2. (ProgressInv /\ CacheInv /\ KeyBelongsToUser /\ CachedKeyFresh)'
  BY DEF CacheInv, CacheEntry, KeyBelongsToUser, CachedKeyFresh
<1>3. (FileInv /\ GameJoinsSelected)'
  BY DEF FileInv, GameJoinsSelected, Concerned
<1> QED
  BY <1>1, <1>2, <1>3

\* A new key is the user's and has no age.
LEMMA AcceptedStep == ASSUME LoginInv, NEW l \in Launchers, Accepted(l) PROVE LoginInv'
<1> USE LoginAssumption, ServersAssumption, Accepted(l)
    DEF LoginInv, LoginTypeOK, ProgressInv, loginVars, Servers, BeforeLogin, BeforeGame,
        IsEntry, NoEntry, FileStates, Accepted, At
<1>1. LoginTypeOK'
  BY DEF CacheInv, CacheEntry, KeyBelongsToUser, CachedKeyFresh, Concerned
<1>2. (ProgressInv /\ CacheInv /\ KeyBelongsToUser /\ CachedKeyFresh)'
  BY DEF CacheInv, CacheEntry, KeyBelongsToUser, CachedKeyFresh
<1>3. (FileInv /\ GameJoinsSelected)'
  BY DEF FileInv, GameJoinsSelected, Concerned
<1> QED
  BY <1>1, <1>2, <1>3

\* The fallback passes the same tests as the cache itself.
LEMMA NotAcceptedStep == ASSUME LoginInv, NEW l \in Launchers, NotAccepted(l) PROVE LoginInv'
<1> USE LoginAssumption, ServersAssumption, NotAccepted(l)
    DEF LoginInv, LoginTypeOK, ProgressInv, loginVars, Servers, BeforeLogin, BeforeGame,
        IsEntry, NoEntry, FileStates, NotAccepted, At, TakeCached, CacheValid, OfThisUser, NotExpired, AfterFailedLogin
<1>1. LoginTypeOK'
  BY DEF CacheInv, CacheEntry, KeyBelongsToUser, CachedKeyFresh, Concerned
<1>2. (ProgressInv /\ CacheInv /\ KeyBelongsToUser /\ CachedKeyFresh)'
  BY DEF CacheInv, CacheEntry, KeyBelongsToUser, CachedKeyFresh
<1>3. (FileInv /\ GameJoinsSelected)'
  BY DEF FileInv, GameJoinsSelected, Concerned
<1> QED
  BY <1>1, <1>2, <1>3

\* Opening leaves no entry, and stamps the one to come.
LEMMA OpenCacheStep == ASSUME LoginInv, NEW l \in Launchers, OpenCache(l) PROVE LoginInv'
<1> USE LoginAssumption, ServersAssumption, OpenCache(l)
    DEF LoginInv, LoginTypeOK, ProgressInv, loginVars, Servers, BeforeLogin, BeforeGame,
        IsEntry, NoEntry, FileStates, OpenCache, At
<1>1. LoginTypeOK'
  BY DEF CacheInv, CacheEntry, KeyBelongsToUser, CachedKeyFresh, Concerned
<1>2. (ProgressInv /\ CacheInv /\ KeyBelongsToUser /\ CachedKeyFresh)'
  BY DEF CacheInv, CacheEntry, KeyBelongsToUser, CachedKeyFresh
<1>3. (FileInv /\ GameJoinsSelected)'
  BY DEF FileInv, GameJoinsSelected, Concerned
<1> QED
  BY <1>1, <1>2, <1>3

\* A write leaves this user's entry, or none.
LEMMA WriteCacheStep == ASSUME LoginInv, NEW l \in Launchers, WriteCache(l) PROVE LoginInv'
<1> USE LoginAssumption, ServersAssumption, WriteCache(l)
    DEF LoginInv, LoginTypeOK, ProgressInv, loginVars, Servers, BeforeLogin, BeforeGame,
        IsEntry, NoEntry, FileStates, WriteCache, At, Written
<1>1. LoginTypeOK'
  BY DEF CacheInv, CacheEntry, KeyBelongsToUser, CachedKeyFresh, Concerned
<1>2. (ProgressInv /\ CacheInv /\ KeyBelongsToUser /\ CachedKeyFresh)'
  BY DEF CacheInv, CacheEntry, KeyBelongsToUser, CachedKeyFresh
<1>3. (FileInv /\ GameJoinsSelected)'
  BY DEF FileInv, GameJoinsSelected, Concerned
<1> QED
  BY <1>1, <1>2, <1>3

\* Opening empties the file and marks every launch it concerns.
LEMMA OpenConnectStep == ASSUME LoginInv, NEW l \in Launchers, OpenConnect(l) PROVE LoginInv'
<1> USE LoginAssumption, ServersAssumption, OpenConnect(l)
    DEF LoginInv, LoginTypeOK, ProgressInv, loginVars, Servers, BeforeLogin, BeforeGame,
        IsEntry, NoEntry, FileStates, OpenConnect, At, AfterFailedOpen
<1>1. LoginTypeOK'
  BY DEF CacheInv, CacheEntry, KeyBelongsToUser, CachedKeyFresh, Concerned
<1>2. (ProgressInv /\ CacheInv /\ KeyBelongsToUser /\ CachedKeyFresh)'
  BY DEF CacheInv, CacheEntry, KeyBelongsToUser, CachedKeyFresh
<1>3. (FileInv /\ GameJoinsSelected)'
  BY DEF FileInv, GameJoinsSelected, Concerned
<1> QED
  BY <1>1, <1>2, <1>3

\* Only a file that nobody else touched was still empty.
LEMMA WriteConnectStep == ASSUME LoginInv, NEW l \in Launchers, WriteConnect(l) PROVE LoginInv'
<1> USE LoginAssumption, ServersAssumption, WriteConnect(l)
    DEF LoginInv, LoginTypeOK, ProgressInv, loginVars, Servers, BeforeLogin, BeforeGame,
        IsEntry, NoEntry, FileStates, WriteConnect, At, Written
<1>1. LoginTypeOK'
  <2>1. connectFile' \in Servers \cup FileStates /\ raced' \subseteq Launchers
    BY DEF Concerned
  <2> QED
    BY <2>1
<1>2. (ProgressInv /\ CacheInv /\ KeyBelongsToUser /\ CachedKeyFresh)'
  BY DEF CacheInv, CacheEntry, KeyBelongsToUser, CachedKeyFresh
<1>3. (FileInv /\ GameJoinsSelected)'
  BY DEF FileInv, GameJoinsSelected, Concerned
<1> QED
  BY <1>1, <1>2, <1>3

\* A game that starts has not read yet.
LEMMA ExecStep == ASSUME LoginInv, NEW l \in Launchers, Exec(l) PROVE LoginInv'
<1> USE LoginAssumption, ServersAssumption, Exec(l)
    DEF LoginInv, LoginTypeOK, ProgressInv, loginVars, Servers, BeforeLogin, BeforeGame,
        IsEntry, NoEntry, FileStates, Exec, At
<1>1. LoginTypeOK'
  BY DEF CacheInv, CacheEntry, KeyBelongsToUser, CachedKeyFresh, Concerned
<1>2. (ProgressInv /\ CacheInv /\ KeyBelongsToUser /\ CachedKeyFresh)'
  BY DEF CacheInv, CacheEntry, KeyBelongsToUser, CachedKeyFresh
<1>3. (FileInv /\ GameJoinsSelected)'
  BY DEF FileInv, GameJoinsSelected, Concerned
<1> QED
  BY <1>1, <1>2, <1>3

\* The game joins what the file says.
LEMMA GameReadsStep == ASSUME LoginInv, NEW l \in Launchers, GameReads(l) PROVE LoginInv'
<1> USE LoginAssumption, ServersAssumption, GameReads(l)
    DEF LoginInv, LoginTypeOK, ProgressInv, loginVars, Servers, BeforeLogin, BeforeGame,
        IsEntry, NoEntry, FileStates, GameReads
<1>1. LoginTypeOK'
  BY DEF CacheInv, CacheEntry, KeyBelongsToUser, CachedKeyFresh, Concerned
<1>2. (ProgressInv /\ CacheInv /\ KeyBelongsToUser /\ CachedKeyFresh)'
  BY DEF CacheInv, CacheEntry, KeyBelongsToUser, CachedKeyFresh
<1>3. (FileInv /\ GameJoinsSelected)'
  BY DEF FileInv, GameJoinsSelected, Concerned
<1> QED
  BY <1>1, <1>2, <1>3

\* Time passes for the cache only.
LEMMA TickStep == ASSUME LoginInv, Tick PROVE LoginInv'
  BY LoginAssumption
  DEF Tick, LoginInv, LoginTypeOK, ProgressInv, CacheInv, FileInv, KeyBelongsToUser, CachedKeyFresh,
      GameJoinsSelected, CacheEntry, NoEntry, FileStates, IsEntry, loginVars

\* Every step of every launcher, and every step of its connection, keeps it.
LEMMA LoginInvNext == LoginInv /\ [Next]_vars => LoginInv'
<1> SUFFICES ASSUME LoginInv, [Next]_vars PROVE LoginInv'
  OBVIOUS
<1>1. CASE LoginNext
  BY <1>1, TickStep, PromptStep, SelectStep, KilledStep, LoadCachedStep, AcceptedStep,
     NotAcceptedStep, OpenCacheStep, WriteCacheStep, OpenConnectStep, WriteConnectStep, ExecStep,
     GameReadsStep
  DEF LoginNext
<1>2. CASE UNCHANGED startVars
  BY <1>2
  DEF startVars, loginVars, LoginInv, LoginTypeOK, ProgressInv, CacheInv, FileInv, IsEntry,
      KeyBelongsToUser, CachedKeyFresh, GameJoinsSelected
<1> QED
  BY <1>1, <1>2 DEF Next, vars

\* The invariant holds in every reachable state.
THEOREM LoginInvariant == Spec => []LoginInv
  BY LoginInvInit, LoginInvNext, PTL DEF Spec

-----------------------------------------------------------------------------
(* What follows from it.                                                   *)

\* Nobody plays with the key of another user, whatever launchers of different
\* users and a kill left in the cache file.
THEOREM KeysBelongToUsers == Spec => []KeyBelongsToUser
<1>1. LoginInv => KeyBelongsToUser
  BY DEF LoginInv
<1> QED
  BY <1>1, LoginInvariant, PTL

\* A key from the cache is within CACHE_TTL when it is taken, also where the
\* cache is the fallback of a login that failed.
THEOREM CachedKeysAreFresh == Spec => []CachedKeyFresh
<1>1. LoginInv => CachedKeyFresh
  BY DEF LoginInv
<1> QED
  BY <1>1, LoginInvariant, PTL

\* A game joins the server its player selected, unless another launcher wrote
\* the connect file in the meantime.
THEOREM GamesJoinSelected == Spec => []GameJoinsSelected
<1>1. LoginInv => GameJoinsSelected
  BY DEF LoginInv
<1> QED
  BY <1>1, LoginInvariant, PTL

=============================================================================
