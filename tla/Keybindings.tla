----------------------------- MODULE Keybindings -----------------------------
(***************************************************************************)
(* The keys of a page (keybindings.cc): bindings and shell hooks read from *)
(* the user's file, the commands the code registers with a default key and *)
(* default aliases, and what a key runs.                                   *)
(*                                                                         *)
(* The bindings are a std::map; an alias has no function but a pointer to  *)
(* the key of its command, a node of the map.  A binding of the user       *)
(* erases the default one of its key, and with it what others point to.    *)
(***************************************************************************)
EXTENDS Integers, Sequences, SequencesExt, FiniteSets

CONSTANTS
  Command,      \* names of the commands the code registers
  Registered,   \* the order they are registered in: name, key and aliases
  RunHook,      \* the name under which shell hooks are registered, last
  KeyCode,      \* keys
  Unbound,      \* no key (Key (), UnboundKey)
  MaxLines      \* bound on the lines of the user's file

ASSUME RegisteredAssumption ==
  /\ Registered \in Seq([name : Command, key : KeyCode \cup {Unbound}, aliases : Seq(KeyCode)])
  /\ RunHook \notin Command /\ MaxLines \in Nat
  /\ KeyCode \subseteq Nat /\ Unbound \in Nat \ KeyCode

VARIABLES
  user_bindings,      \* lines "name=key" of the file, in order
  user_run_bindings,  \* keys of the lines "run(..)=key"
  lines,              \* lines read
  to_register,        \* what is still to be registered
  user_bindings_loaded,  \* the file has been read
  keys,               \* the map: key to entry
  refused             \* duplicatekey_error was thrown
keyVars == <<user_bindings, user_run_bindings, lines, to_register, user_bindings_loaded,
             keys, refused>>

\* How an entry leads to a function: the key of its master, or
Own == -1      \* its own one
Null == -2     \* NULL, with no master to go to
Freed == -3    \* the pointer of an alias whose master was erased

KeysInit ==
  /\ user_bindings = <<>> /\ user_run_bindings = <<>> /\ lines = 0
  /\ to_register = <<>> /\ user_bindings_loaded = FALSE /\ keys = <<>> /\ refused = FALSE

\* A line names a command and a key or no key, is a hook, or is skipped.
LoadLine ==
  /\ ~user_bindings_loaded /\ lines < MaxLines /\ lines' = lines + 1
  /\ \/ \E n \in Command, k \in KeyCode \cup {Unbound} :
          /\ user_bindings' = Append(user_bindings, [name |-> n, key |-> k])
          /\ UNCHANGED user_run_bindings
     \/ \E k \in KeyCode :
          /\ user_run_bindings' = Append(user_run_bindings, k)
          /\ UNCHANGED user_bindings
     \/ UNCHANGED <<user_bindings, user_run_bindings>>
  /\ UNCHANGED <<to_register, user_bindings_loaded, keys, refused>>

\* register_run registers a hook for each of its lines, each of them user
\* defined and under the same name.
Hooks == [i \in DOMAIN user_run_bindings |->
            [name |-> RunHook, key |-> user_run_bindings[i], aliases |-> <<>>]]
StartRegistering ==
  /\ ~user_bindings_loaded /\ user_bindings_loaded' = TRUE
  /\ to_register' = Registered \o Hooks
  /\ UNCHANGED <<user_bindings, user_run_bindings, lines, keys, refused>>

-----------------------------------------------------------------------------
(* register_key.                                                           *)

Entry(name, how, user) == [name |-> name, how |-> how, user |-> user]
Put(t, k, e) == [x \in DOMAIN t \cup {k} |-> IF x = k THEN e ELSE t[x]]

\* Without the entry of k; aliases that point to it are left with a pointer
\* to a node that is gone.
Erased(t, k) ==
  [x \in DOMAIN t \ {k} |-> IF t[x].how = k THEN [t[x] EXCEPT !.how = Freed] ELSE t[x]]

\* The state of one registration: the map, whether the command has a key, and
\* whether an error was thrown.
Step(t, has_master, error) == [t |-> t, has_master |-> has_master, error |-> error]

\* Bug variant: std::map::insert keeps what is there.
AddMasterInserts(t, k, e) ==
  IF k \notin DOMAIN t THEN Step(Put(t, k, e), TRUE, FALSE) ELSE Step(t, FALSE, FALSE)

AddMaster(t, k, e) ==
  IF k \notin DOMAIN t THEN Step(Put(t, k, e), TRUE, FALSE)
  ELSE IF t[k].user = e.user THEN Step(t, FALSE, TRUE)
  ELSE IF e.user THEN Step(Put(Erased(t, k), k, e), TRUE, FALSE)
  ELSE Step(t, FALSE, FALSE)

\* A free key becomes an alias of k, or the first key of a command that did
\* not get k, without a function.  In place of a default the user's alias
\* puts the command at k once more.
AddAlias(s, ka, k, e) ==
  IF s.error THEN s
  ELSE IF ka \notin DOMAIN s.t
    THEN Step(Put(s.t, ka, [e EXCEPT !.how = IF s.has_master THEN k ELSE Null]), TRUE, FALSE)
  ELSE IF ~s.t[ka].user /\ e.user
    THEN LET t == Erased(s.t, ka)
         IN  Step(IF k \in DOMAIN t THEN t ELSE Put(t, k, e), TRUE, FALSE)
  ELSE Step(s.t, s.has_master, s.t[ka].user /\ e.user)

\* The bindings of a command, the first for its master key and others for
\* aliases: the lines of the user's file with its name, or the default ones.
Mine(name) == {i \in DOMAIN user_bindings : user_bindings[i].name = name}
Defined(name) == Mine(name) # {}
Defaults(b) ==
  [i \in 1 .. Len(b.aliases) + 1 |->
     [name |-> b.name, key |-> IF i = 1 THEN b.key ELSE b.aliases[i - 1]]]

RegisterKey ==
  /\ to_register # <<>> /\ ~refused
  /\ to_register' = Tail(to_register)
  /\ LET b == Head(to_register)
         bindings == IF Defined(b.name) THEN user_bindings ELSE Defaults(b)
         first == IF Defined(b.name) THEN Min(Mine(b.name)) ELSE 1
         k == bindings[first].key
         e == Entry(b.name, Own, Defined(b.name) \/ b.name = RunHook)
         twice == b.name # RunHook /\ \E x \in DOMAIN keys : keys[x].name = b.name
         added[i \in first .. Len(bindings)] ==
           IF i = first THEN AddMaster(keys, k, e)
           ELSE IF bindings[i].name = b.name THEN AddAlias(added[i - 1], bindings[i].key, k, e)
           ELSE added[i - 1]
         all == added[Len(bindings)]
     IN  IF k = Unbound THEN UNCHANGED <<keys, refused>>
         ELSE /\ refused' = (twice \/ all.error)
              /\ keys' = IF twice THEN keys ELSE all.t
  /\ UNCHANGED <<user_bindings, user_run_bindings, lines, user_bindings_loaded>>

KeysNext == LoadLine \/ StartRegistering \/ RegisterKey
KeysSpec == KeysInit /\ [][KeysNext]_keyVars

-----------------------------------------------------------------------------
\* handle: key k runs the function of command n.
Runs(k, n) ==
  \/ keys[k].how = Own /\ keys[k].name = n
  \/ keys[k].how \in DOMAIN keys /\ keys[keys[k].how].how = Own /\ keys[keys[k].how].name = n

\* Keys that the user's file gives to something.
UserKeys == {user_bindings[i].key : i \in DOMAIN user_bindings} \cup ToSet(user_run_bindings)
\* Commands that are not in the file and whose default key it gives away.
Robbed ==
  {Registered[i].name : i \in {j \in DOMAIN Registered :
                                 /\ ~Defined(Registered[j].name)
                                 /\ Registered[j].key \in UserKeys}}

\* Type invariant.
KeysTypeOK ==
  /\ DOMAIN keys \subseteq KeyCode \cup {Unbound} /\ refused \in BOOLEAN
  /\ \A k \in DOMAIN keys : /\ keys[k].name \in Command \cup {RunHook}
                            /\ keys[k].how \in DOMAIN keys \cup {Own, Null, Freed}

\* Default keys and aliases of commands registered before the j-th one that
\* are not in the file.
DefaultsBefore(j) ==
  UNION {{Registered[i].key} \cup ToSet(Registered[i].aliases) :
           i \in {h \in DOMAIN Registered : h < j /\ ~Defined(Registered[h].name)}}

\* Once everything is registered every key that the file gives to a command,
\* on its first line or on a further one, runs that command; every key of a
\* shell hook runs a hook; and each key runs the command it is listed under
\* (register_key, handle).  The code breaks this in three cases, which are left
\* out by name: a first line without a key drops the command with all its lines;
\* a further line whose key is a default one of a command registered before
\* takes the key away from it and gives it to nobody; and the default aliases
\* of a command whose default key the user gave to another are left without a
\* function, or point to the wrong command or to freed memory.
KeysRunTheirCommand ==
  user_bindings_loaded /\ to_register = <<>> /\ ~refused =>
    /\ \A j \in DOMAIN Registered : \A i \in Mine(Registered[j].name) :
         LET n == Registered[j].name
             k == user_bindings[i].key
             first == Min(Mine(n))
         IN  Unbound \notin {k, user_bindings[first].key} =>
               \/ k \in DOMAIN keys /\ Runs(k, n)
               \/ i # first /\ k \in DefaultsBefore(j)
    /\ \A k \in ToSet(user_run_bindings) : k \in DOMAIN keys /\ Runs(k, RunHook)
    /\ \A k \in DOMAIN keys : Runs(k, keys[k].name) \/ keys[k].name \in Robbed

=============================================================================
