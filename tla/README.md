# Verification of stonesh

stonesh is the login shell of an SSH bastion host. A user's `sshd` starts it, it
reads what the user asks for, decides from three files (or a directory) whether
the user may have it, and replaces itself by `ssh` (a *bastioned* session, on
the bastion) or by `nc` (a *proxied* one, end to end). Everything it promises is
about that decision: which host, which user, which mode, from where, by which
version of the rules.

This directory holds TLA+ models of that decision and of the readers under it,
the TLC runs that check them on small instances, and TLAPS proofs of the main
results for every instance. Paths below are relative to the repository.

## The system

| Part | State | Operations | Hard to get right |
|---|---|---|---|
| `stonesh.c` main | options, host, proxy flag, entry, verdict, exit status | login, options, parse of `-c`, prompt, lookup, authorization, country, exec, one exit label | the mode is judged twice by two comparisons; one `goto clean_exit` from a dozen places; files replaced between reads; a prompt loop |
| `auth.c` auth_user | none | dispatch on `auth_type` | three return values, two of them meaning yes to the caller |
| `auth_local.c` get_auth_file | `auth`, `can_proxy`, two strtok/fgets loops | scan of users.lst | a flag carried between entries and lines; comparisons by the length of one side; lines longer than the buffer |
| `hosts.c` gethostentry | one static entry | scan of hosts.lst | names compared by length and content, defaults before trimming |
| `readconf.c` | the global `Options` | read, parse, default, free | one bad line of many; first line wins; error paths; `auth_type` derived from other options |
| `geoip.c` | a country list, strtok's position in it | country check | the list is cut, shifted and rewritten in place while it is read; the verdict overwrites the one before it |
| `auth_ldap.c` | connection, filter, result | bind, search, count | no timeout, one exit label that reads what may not be assigned, messages of any kind, a directory that changes |
| `contrib/pam_script_ses_*` | a directory per user | create or refresh at login, remove after the last logout | concurrent sessions of one user, no lock; sessions and scripts that are killed |
| `util.c` | none | trim, strtoupper | they write where the caller is still reading |
| `log.c`, `stonewho`, `stonesh.pl` | none | formatting, listing | nothing to check at this level |

main calls the readers once each, in order: `read_config_file`, `gethostentry`,
`auth_user` (which calls `get_auth_file` or `get_auth_ldap`),
`is_from_valid_country`. They share the global `options`; `gethostentry` returns
a pointer to a static structure that main keeps and the later calls modify
(`trim(host)`, strtok of the country list). There are no threads. What runs
beside one run of stonesh is the administrator who edits the files, the
directory server, the user at the prompt, and signals.

What makes each part correct:

- **main**: no connection without a clearance of the user for that host in a
  mode, and of the client's country for that entry, each by the rules at that
  moment; the host dialled is the host asked for, or what the cut at its first
  dot makes of it; every run ends or waits for somebody.
- **get_auth_file**: the answer is what the file as a whole says, whatever the
  order of lines and entries; a `+` counts for its own entry only; where names
  cannot be confused the answer is the manual's.
- **gethostentry**: exactly the entry of the first line with exactly that name.
- **get_auth_ldap**: a yes is the directory's, for this user, this host and, in
  proxy mode, this tag, at some moment of the call; whatever the server and the
  network do instead is a no; only a silent server holds the call.
- **is_from_valid_country**: rewriting the list while reading it, it finds a code
  exactly when some field of the list as it was has it; no answer of the
  databases is a no.
- **session scripts**: the directory goes with the last session, and a session
  inside misses nothing but what another login is still to make.
- **read_config_file**: a file is accepted whole or refused whole; the first
  line to name an option decides it; what main uses is set; the authorization
  type is the file's.

## The modules

| Module | Models | Checked by | Proofs |
|---|---|---|---|
| `Names`, `UsersFile`, `HostsFile`, `Directory`, `Clients` | the data: names, the two list files, the directory, users, addresses; what a file or the directory *says*, as operators | with the rest | with the rest |
| `Call` | a call of a reader as its caller sees it: one step, one permitted answer | as a property of `AuthLocal` and `HostsLookup` | as a theorem of both |
| `AuthLocal` | `get_auth_file` | `MCAuthLocal` | `AuthLocal_proofs` |
| `HostsLookup` | `gethostentry` | `MCHostsLookup` | `HostsLookup_proofs` |
| `ReadConf` | `read_config_file` and all it calls | `MCReadConf` | `ReadConf_proofs` |
| `LdapClearance` | the abstract promise of one question to the directory | as a property of `AuthLdap` | as a theorem of `AuthLdap` |
| `AuthLdap` | `get_auth_ldap`, its helpers, the server and the network | `MCAuthLdap` | `AuthLdap_proofs` |
| `CountryCheck` | `is_from_valid_country`, `trim`, `strtoupper`, the list in memory | `MCCountryCheck` | `CountryCheck_proofs` |
| `Chroot` | the two session scripts, for the sessions of one user | `MCChroot` | `Chroot_proofs` |
| `HostName` | a host name as text, and what the cut at stonesh.c:236-240 leaves of it | with `Stonesh` | with `Stonesh` |
| `Bastion` | the abstract promise of one run | as a property of `Stonesh` | as a theorem of `Stonesh` |
| `Stonesh` | `main`, `auth_user`, `catch_signal` | `MCStonesh` | `Stonesh_proofs` |

The models compose in two layers. `Stonesh` takes each reader by what it can
return, in one step; the reader's own module shows that its loops return just
that.

| `Stonesh` takes | by | which is justified by |
|---|---|---|
| `get_auth_file` | a member of `FileAnswers` | `AuthLocal` implements `Call` with `FileAnswers` for what is permitted (`AnswersOnce`) |
| `gethostentry` | a member of `EntriesFor`, or NULL | `HostsLookup` implements `Call` with `EntriesFor` and NULL (`AnswersOnce`) |
| `get_auth_ldap` | a member of `DirectoryAnswers`, or a fault | `AuthLdap` implements `LdapClearance` (`YesIsTheDirectorys`): a yes needs `DirectoryGrants` at a moment of the call, the moment `Stonesh` takes for its step |
| `is_from_valid_country` | yes or no by list and country | `ListDecides` |
| `read_config_file` | an `Options` record, or `BadConfig` | `AllOrNothing`, `UsableOptions`, `AuthTypeFromFile` |

The first three answer sets are operators of the data modules, written once and
used on both sides, so that the two layers cannot drift apart. `Chroot` stands beside: it is about the directory a
run of stonesh finds itself in.

### Names and lines

The code compares names in three ways: whole (hosts.lst), by
`strncasecmp(asked, field, strlen(asked))` (users.lst) and by
`strncmp(cval, host, strlen(cval))` (main). To the readers a name is an abstract
value, and the second is a relation, `Begins`, that the constants give:
reflexive, transitive, otherwise arbitrary. `Stonesh` is the one module that
takes names apart: there a name is a sequence of characters (`HostName`), the
third comparison is `Starts`, defined on the characters, and `Cut` is what strtok
and strncpy leave of a name in its buffer. The two overlap there when a dot
comes first, which C leaves undefined; `Cut` is the copy from front to back.

A line is what one `fgets` returns, already split at its colons. A line of
users.lst longer than the buffer is `Visible` as its first `LineCap` entries; the
cut is taken to fall between two entries. Its tail is the next line `fgets`
returns. Without a colon it grants nothing and is not written; with one (a
further field, or a comment, that has one) it is read for whatever user its text
begins with, and a file that has such a tail is modelled with that line in it.
`trim` is not modelled as such; what it makes of a blank port field (`PortOf`) is.

### AuthLocal

`pc` is the loop the code is in: `"read"` at the `fgets` of line 60, `"entry"`
at the strtok loop of line 78. `can_proxy` and `auth` are the code's flags,
`entry` the position of strtok. `ReadLine` is one turn of the outer loop up to
the inner one; `EntryMatches` is the `break` at line 90, which leaves
`can_proxy` as it is; `EntryDiffers` is the end of a turn, which resets it.
A file that cannot be opened, or a NULL argument, answers 0 (`OpenFails`).

### HostsLookup

One action per line (`Skip`, `Found`), `NotOpened` for every early NULL,
`NotFound` at the end of the file. `he` is the static structure.

### ReadConf

One action per line of the file and kind of line; `Counted` is the caller's
`bad_options++` and `break`. `Reject` and `Accept` are the two ends of the
function. Where the code hands NULL to `strdup` or a pointer into the line
buffer to `free`, the behaviour is undefined: the first ends the process
(`Crash`), the second does so or returns the error (`EndOfLine`). The text of a
line is abstract: whether its keyword is known, whether its argument is missing
(NULL or empty), what `strcmp` and `atoi` make of it, whether text follows.

### AuthLdap and LdapClearance

`pc` is the stretch of `get_auth_ldap` that is next: the uri, the base, the
filter, `ldap_initialize` and the bind, the wait for the bind, the wait for the
search, and `clean`, the exit label at line 328. `uri`, `base`, `filter`, `ld` are
the local pointers; the last two start as `Uninit`, and `CleanReturn` may fault
where they still are. The filter is the triple of user, host and tag it is built
from, and `Satisfies` says which entries the two formats of `auth_ldap.h` match.

The server is external: it answers an operation with any message that operation
can have, an entry only if the directory as it is now has one, and never needs to
answer; `Lose` breaks the connection, `Modify` changes the directory, both at any
moment. `ldap_result` hands over the first message of the operation it is asked
for. When it fails after the search, the code counts entries all the same, and
the pointer may still be to the message freed at line 298: `SearchFails` counts
none, or faults.

`LdapClearance` is the promise: found by the directory as it is, lost at any
moment, answered yes only if found (or if LDAP is off), no or a fault at any time.

### CountryCheck

`list` is the memory of the entry's country field, one character per position,
`country` and `save` are positions in it: the token strtok returned last and
the place it goes on from. `Strtok` writes the NUL over the delimiter, `trim` the
NULs over trailing blanks and then moves the rest to the front, `strtoupper`
rewrites letters, `Same` compares by `strlen` and content. `given` keeps the list
as it was before the call, for the properties only. Lists have no `#`: the line
was trimmed before it was split, and the comment branch of `trim` has nothing to
do. An address is its family, its network, and whether it is written as
`inet_pton` reads it, because `getafbyaddr` accepts more with `inet_aton`:
127.1 is an IPv4 address and is not local. A database that does not open makes
`FailOnError` possible for any address.

### Chroot

One user's directory is `exists` and `parts`: the groups of commands of
`pam_script_ses_open` that make something (`dirs`, `apps`, `devices`, `lib64`,
`accounts`, `links`) and the files every login copies (`config`). Each is one
action of a session, in the order of the script, and is skipped where what it
needs is missing, because no command is checked. `Count` is the pipeline of
`lsof` and `grep` with the test, `Remove` one part of what `rm -rf` takes away
(the directories only after what lies in them, `Contents`; anything else at any time),
`RemoveRoot` its last step, which fails when something was made meanwhile.
`Killed` ends a session or its script at any point without the closing script.
`Enter` and `Leave` are sshd's. `cut` and `raced` are history, and say under which
condition the scripts do keep their promise: `cut`, that something was killed, and
no removal has begun since nor has the directory been gone with nobody there;
`raced`, that a removal met a login, and no removal has begun since that met none.

### Stonesh and Bastion

`pc` names the stretch of main that is next: `config` (line 117), `parse` (152),
`prompt` (208), `fqdn` (237), `lookup` (246), `auth` (260), `country` (271),
`connect` (306), `clean` (375), and the ends `running` (execvp succeeded),
`exited`, `crashed`. One action is the stretch up to the next read of a file, so
that `Edit` can fall between any two of them. `OutOfMemory` is any failing
`malloc`, `NoPasswd` a missing password entry, `catch_signal` a signal at any
step. `hostent` starts as `Uninit`, because the C variable has no value, and
`CleanExit`/`CleanExitUninit` are the two things reading it can do.

The words of a command are what strtok finds between blanks, and `rest` is
whether anything follows the first and the blank that ended it: a second blank
alone makes `args` a string of blanks, which counts as a command to run and spares
the run the test for a terminal. `CutName` is the
copy of the first label to the front of the buffer; it brings no NUL, so that of
".web" it makes "webb" (`Cut`).

`JudgedMode` is the second parse of the command (lines 264-268): strtok has cut
`cval` behind its first word and left leading blanks in it, and what remains is
compared with the host already cut at its first dot. `proxy` is the first parse
(line 177) and decides which program runs.

An LDAP directory says yes only when it has an entry for the user, the host of
the entry and, where proxy mode needs it, the service tag (`ServiceTag`); it may
say no or never answer (`AuthorizeLDAP` is an action of the environment, without
fairness), and the call may fault (`LDAPFaults`). The country check may say no to
any client whose country has to be looked up. `LaunchIsWarranted` says in terms of
`Stonesh` alone what `Bastion` promises: of each thing that runs, which versions of
the files let it. `AUTH_ERROR` is in `by_auth_type`;
that no option record reaches it is part of what is proved.

`Bastion` says what a run promises in seven actions: adopt a policy, find an
entry, clear the user for it, clear the country, connect, or refuse at any
point; the rules may change at every step. `Stonesh` implements it under the
mapping at the end of the module: `cleared` is what `pc` and `auth` amount to,
`link` is `argv` once the program runs, `mode` counts only while the clearance
does.

## The runs

All bounds are in the MC modules and .cfg files. Deadlock is checked in every
run; the ends of a run have an explicit stuttering action.

| Run | Instance | Shows |
|---|---|---|
| `auth_local` | two users and two hosts, one name of each beginning the other; all files of one line of up to three entries, of two lines of up to two, and of a line of three followed by a short one; buffer of two entries; all requests | `IInv`, `ScanDecides`, `AgreesWithManual`, `AnswersOnce`, `Advances`, `Terminates` |
| `hosts_lookup` | two host names, one beginning the other; all files of up to three lines with and without port, countries, blank port | `IInv`, `LookupDecides`, `AnswersOnce` |
| `read_conf` | all files of two lines over five options of the three kinds with every argument and garbage; all files of three lines over three options | `IInv`, `AllOrNothing`, `FirstWins`, `UsableOptions`, `AuthTypeFromFile`, `Advances`, `Terminates` |
| `ldap` | two users, two hosts, one service tag; four directories, swapped at any moment; requests with and without a tag, with an empty host or tag; libldap with and without a default base | `IInv`, `YesIsTheDirectorys`, `OnlyTheServerHolds` |
| `country` | all lists of up to five characters out of a letter in both cases, another letter, comma and blank; two codes that share a letter; an address of each kind | `IInv`, `ListDecides`, `Advances`, `Terminates` |
| `chroot` | three sessions, interchangeable | `IInv`, `LastOneCleansUp`, `InsideIsComplete` |
| `stonesh` | one user, five hosts and the proxy keyword (which begins a host's name), a host named by the keyword, a host with a dot, a name that begins with a dot and the host the cut makes of it, a name of dots only; configurations of each authorization type, users.lst, hosts.lst and the directory in several versions, swapped at any moment; clients in and out of the listed country, local, unknown | `IInv`, `ModeAgrees`, `DialsWhatWasAsked`, `LaunchIsWarranted`, `RefinesBastion`, `RunEnds` |

Why these are enough: the readers look at one line, or one entry, at a time and
carry two flags, so two lines of two entries contain every pair that could
disturb each other, and the third entry is the one beyond the buffer; the proofs
then remove the bounds. In `Stonesh` every branch of main is taken by some
request, and two versions of a file suffice for it to change between two reads.
`AuthLdap` puts one question, and its directories differ in exactly what a filter
can tell. Five characters hold two fields with blanks and either case, or a code,
an empty field and another code. Two sessions make every race of a count, a
removal and a login; the third is the one that finds what the two have left.

### Where the code and what is written about it differ

Each of these runs checks one sentence of the manual or of a comment and ends in
a counterexample; the sentence is quoted at the property.

| Run | Property | In short |
|---|---|---|
| `unlisted_user` | `UnlistedUserDenied` | a user is found in any line whose name begins with theirs |
| `proxy_disabled` | `ProxyOnlyWhenEnabled` | the mode used is not always the mode authorized |
| `no_host` | `QuitsWithoutHost` | end of file at the prompt does not end the run |
| `bad_config` | `RefusedConfigExits` | the exit path reads `hostent` before it is assigned |
| `chroot_last` | `RemovedAfterTheLast` | the directory can be removed under a session that has just entered it |

The models show five more such places, which no run is spent on: in users.lst an
earlier entry that begins with the host's name decides for the whole line, `+` or
not (`DecidingEntry`, against users.lst.pod:11); a port field of blanks becomes
an empty port and not 22 (`PortOf`, against hosts.lst.pod:11); a string option
with nothing after it ends the process in `strdup` before the reader reports it
(`StrdupNull`, against the comment at readconf.c:196); with allowFQDN off a
bastioned request that gives the full name is authorized as a proxied one
(`JudgedMode`, against stonesh.conf.pod:19); and with allowFQDN off a name that
begins with a dot is looked up and dialled as its first label and the characters
the copy has left behind it (`Cut`, against "use only the hostname of the
requested destination", stonesh.conf.pod:19), which `DialsTheHost` proves of
every such name.

### Fairness

`AuthLocal`, `ReadConf` and `CountryCheck` assume weak fairness of the call's own
steps: the process is scheduled and `fgets` on a regular file returns. `Stonesh` assumes
weak fairness of `Main`, the steps main takes by itself; the administrator, the
user at the prompt, the directory, signals and memory failures are under no
fairness. `RunEnds` therefore allows a run to stay at the prompt or with the
directory, and nowhere else. `AuthLdap` assumes weak fairness of `Client`, the
steps `get_auth_ldap` takes by itself, and none of the server or the network.
`HostsLookup` and `Chroot` have no liveness property and assume no fairness.

## What is proved

TLAPS checks these for every value of the constants under the assumptions named
in the modules (`NamesAssumption`, `LineCapAssumption`, `FilesAssumption`,
`PortsAssumption`, `HostsFilesAssumption`, `ArgsAssumption`,
`ClientsAssumption`, `HostNameAssumption`, `StoneshAssumption`,
`DirectoryAssumption`, `LdapAssumption`, `CountryAssumption`). They say that
markers are not values, that `Begins` is reflexive and transitive, that the names
of `Stonesh` are texts of at least one character, closed under the cut, with
`Starts` within `Begins`, that the files considered are sequences of lines, that a country list ends in its only NUL and that `toupper`
makes no blank or comma: nothing about their length or content. `Chroot` needs no
assumption: `Sessions` is any set.

- `AuthLocal_proofs`: `ScanInvariant`, `ScanIsCorrect`, `PlainFilesAsDocumented`,
  `ScanIsOneStep`, `ScanAdvances`.
  `ScanDecides` is not inductive; `IInv` adds that no line behind the scan
  grants, that no entry before the current one matches, and that `can_proxy` is 0
  whenever `auth` is: the `break` that skips the reset either grants or leaves a
  flag that was never set. On plain files a list's deciding entry is the
  only one that permits (`PlainLine`), which gives the manual's reading; a list the
  buffer has cut is the beginning of the one written (`VisibleBegins`), so that it
  permits no more. To the
  caller the scan is one step of `Call`: it returns once (`ReturnsLast`), and what
  it returns is permitted by the invariant. It makes at most two steps and
  `LineCap + 1` for each line, because no line shows more than the buffer holds
  (`VisibleFits`).
- `HostsLookup_proofs`: `LookupInvariant`, `LookupIsCorrect`, `LookupIsOneStep`. No
  line behind the scan has the name, and one name has one entry (`OneEntry`); so
  the lookup, too, is one step of `Call` (`PermittedEntry`).
- `ReadConf_proofs`: `ReaderInvariant`, `TakesAllOrNothing`, `FirstLineWins`,
  `AuthTypeIsFromFile`, `OptionsAreUsable`, `ReaderAdvances`. `SoundLine` and `LineSets` say what
  any one line does; the invariant `Settled` says it of all lines read; `Inv`
  carries it past the return as `Accepted`.
- `Stonesh_proofs`: `MainInvariant`, `DialsTheHost`, `ModesAgree`,
  `NoLaunchWithoutWarrant`, and `Refinement`, that `Spec` implies `Bastion`. The invariant says what main has
  settled at each point (`Progress`), that the host is still the one asked for
  (`HostIsAsked`) and that what runs was built from the entry
  (`LaunchIsTheEntry`). `CutBeginsWithHostname` is what the cut leaves of any name:
  its hostname, and nothing behind it exactly when no dot comes first. Each action then maps to a step of `Bastion` or to none:
  a wandering step moves nothing `Bastion` sees (`Wanders`), every way out is a
  refusal (`GivesUp`), and five actions are its five real steps. A second
  invariant, `Warranted`, carries from `lookup` to `running` that some hosts.lst had
  the entry, some users.lst or directory let the user in, and the country is in the
  entry's list: `IInv` alone forgets the versions the clearances were given by.
- `AuthLdap_proofs`: `ExchangeInvariant`, and `DirectoryDecides`, that `Spec`
  implies `LdapClearance`. The invariant is that what is on the wire belongs to
  the operation the client waits for (`InStep`); then a message that counts is an
  entry the server sent for this very filter, and the filter is the request
  (`FilterIsRequest`).
- `CountryCheck_proofs`: `CheckInvariant`, `ListIsDecisive`, `CheckAdvances`. The invariant has
  three parts: what lies ahead of strtok is still the list as given and no
  occurrence of the code lies behind (`Ahead`), the token at hand is a whole field
  (`AtHand`), and it holds that field as far as the work on it has come (`Worked`).
  The heart is `ListedWithin`: a code listed at the token at hand is all of the
  token but for its blanks. `StrtokGoesOn` is what the loop's end rests on: strtok
  goes on behind what it returned, and never behind the last character of the list.
- `Chroot_proofs`: `ScriptsInvariant`, `NothingStays`, `NothingMissing`. `SeenTo`
  says who will remove the directory, `Undisturbed` that a removal that met no login
  has the directory to itself, and `Orderly` what holds while, besides, nothing was
  killed; of a directory in use what is missing is then what some login is still
  to make (`MissingIsToCome`). `ScriptUndisturbed` is the heart: a removal that begins alone makes good
  whatever came before it.

Only model-checked: the liveness properties (`Terminates`, `RunEnds`,
`OnlyTheServerHolds`), and every counterexample above. That a fair call goes on
until it ends is a fact about `ENABLED`, which the prover does not have. Of
`Terminates` the rest is proved: `Advances` says that every step there is brings the
end nearer, by a number that starts at the size of the input and is never negative
(`StepsLeft`), so that what stays with TLC is only that some step can be taken
wherever a call has not ended. `RunEnds` and `OnlyTheServerHolds` have no such
number: a prompt and a server may keep a run waiting for as long as they like.

## Not modelled

- The two command lines built for the log (stonesh.c:147-170, 346-363): character
  counts without control flow. Each of n arguments but the first adds two quotes
  and a blank, and the whole one NUL, to a buffer with four bytes more for each.
- What a signal handler does inside the C library (stonesh.c:407-418):
  `catch_signal` ends the run at any step of the model, and the re-entrance of
  `malloc` and `syslog` is not the program's own state.
- The tail of a hosts.lst line longer than the buffer is a line of the model like
  any other; that it was a tail is not kept.
- A run of `Stonesh` with the readers' own steps in place of their results. The
  theorems on `Call` say that it would show main nothing new, as long as a file is
  not replaced while a reader is inside it. On disk the readers hold it open; in
  the chroot `cp` truncates it, which `Chroot` shows as the `config` part missing
  while a login copies, and what `Stonesh` is proved of holds for that version of
  the file as for any.
- `is_private` and `is_private6` of `geoip.c`, called from lines that are commented
  out, and `strtolower`, which has no caller.
- What the scripts' files hold, their owners and modes, and where `cd` at
  pam_script_ses_open:158 leaves a script whose directory has gone: the link made
  then is outside the directory the model is about.
- `log.c`, `stonewho`, `stonesh.pl`, the tests and the build files: no state whose
  order matters.
