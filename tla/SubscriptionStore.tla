-------------------------- MODULE SubscriptionStore --------------------------
(***************************************************************************)
(* The subscriptions of the app (services/SubscriptionService.ets): a list *)
(* of profiles, one of which is active, and a file for each.               *)
(*                                                                         *)
(* Every page has a SubscriptionService with a list of its own, which it   *)
(* reads from the preferences once and saves as a whole after each change. *)
(* The page of the list (SubscriptionPage) lives as long as the UI; what   *)
(* Home and the proxy page create for a moment is modelled as one other    *)
(* instance.  Nothing holds a lock while a download or a save is awaited;  *)
(* isLoading only disables the confirm button of the dialog.               *)
(*                                                                         *)
(* A subscription is a record [id, active].  Its metadata is left out: what *)
(* is counted in a file may or may not differ from what the list says.  An *)
(* answer without content, or with an error status, is not an error of the *)
(* download and writes no file.  The files of the providers which a profile *)
(* names are one file.                                                      *)
(*                                                                         *)
(* Whatever fails in the preferences is logged and swallowed: the caller   *)
(* goes on as if the list had been loaded or saved.                        *)
(***************************************************************************)
EXTENDS Integers, FiniteSets, SequencesExt

CONSTANTS
  MaxId,  \* subscriptions that are ever added
  Job     \* places for calls of the list page that are pending at once

ASSUME BoundsAssumption == MaxId \in Nat \ {0}

Id == 1 .. MaxId

VARIABLES
  list,      \* subscriptions: the list of the page's instance
  jobs,      \* its pending calls, [op, id, active, busy]
  loading,   \* isLoading
  cards,     \* the ids of the cards shown
  other,     \* the other instance, [at, list]
  cache,     \* the preferences in the memory of the process
  disk,      \* the preferences on disk
  files,     \* the files that exist
  used,      \* the ids generated so far are 1 .. used
  slips,     \* history: which of the races below have happened
  missed,    \* history: what has failed and was not made good since
  strays     \* history: the files that were left to nobody

pageVars == <<list, jobs, loading, cards>>
storedVars == <<cache, disk, missed>>
vars == <<list, jobs, loading, cards, other, cache, disk, files, used, slips, missed, strays>>

Sub(id, active) == [id |-> id, active |-> active]

Ids(subs) == {subs[i].id : i \in DOMAIN subs}

Actives(subs) == {i \in DOMAIN subs : subs[i].active}

Profile(id) == <<id, "profile">>
Providers(id) == <<id, "providers">>

\* The files of subscriptions that are not among those.
Unowned(written, ids) == {f \in written : f[1] \notin ids}

-----------------------------------------------------------------------------
(* The calls of the list page *)

NoJob == [op |-> "idle", id |-> 1, active |-> FALSE, busy |-> FALSE]

Begin(j, op, id, active) ==
  jobs' = [jobs EXCEPT ![j] = [op |-> op, id |-> id, active |-> active, busy |-> TRUE]]

\* saveSubscriptions: the whole list goes into the preferences at once, and to
\* the disk while the caller waits.  If there is no store, or putting the list
\* there throws, the caller goes on all the same.  A store that could not be
\* opened is one that fails every time.  busy tells whether the caller will
\* clear isLoading.
Save(j, busy) ==
  \/ /\ cache' = list' /\ missed' = missed \ {"load", "put"}
     /\ jobs' = [jobs EXCEPT ![j] = [NoJob EXCEPT !.op = "save", !.busy = busy]]
  \/ /\ missed' = missed \cup {"put"} /\ UNCHANGED cache
     /\ jobs' = [jobs EXCEPT ![j] = [NoJob EXCEPT !.op = "saved", !.busy = busy]]

\* addSubscription up to the download.  Whether the new one is active is
\* decided here.
StartAdd(j) ==
  /\ jobs[j].op = "idle" /\ ~ loading /\ used < MaxId
  /\ used' = used + 1 /\ loading' = TRUE
  /\ Begin(j, "add", used + 1, list = <<>>)
  /\ slips' = IF \E k \in Job : jobs[k].op = "add" THEN slips \cup {"overlap"} ELSE slips
  /\ UNCHANGED <<list, cards, other, storedVars, files, strays>>

\* materializeRemoteProviders: the files of the providers are downloaded and
\* written before that of the profile.
FetchedProviders(j) ==
  /\ jobs[j].op \in {"add", "update"}
  /\ files' = files \cup {Providers(jobs[j].id)}
  /\ strays' = IF jobs[j].op = "add" THEN strays
               ELSE strays \cup Unowned({Providers(jobs[j].id)}, Ids(list))
  /\ UNCHANGED <<pageVars, other, storedVars, used, slips>>

\* Mutant of FetchedAdd: the list is not saved.
FetchedAddUnsaved(j) ==
  /\ jobs[j].op = "add"
  /\ files' \in {files, files \cup {Profile(jobs[j].id)}}
  /\ list' = Append(list, Sub(jobs[j].id, jobs[j].active))
  /\ jobs' = [jobs EXCEPT ![j] = [NoJob EXCEPT !.op = "saved", !.busy = TRUE]]
  /\ slips' = IF list = <<>> /\ ~ jobs[j].active THEN slips \cup {"emptied"} ELSE slips
  /\ UNCHANGED <<loading, cards, other, storedVars, used, strays>>

\* The download ends and the subscription joins the list.
FetchedAdd(j) ==
  /\ jobs[j].op = "add"
  /\ files' \in {files, files \cup {Profile(jobs[j].id)}}
  /\ list' = Append(list, Sub(jobs[j].id, jobs[j].active))
  /\ Save(j, TRUE)
  /\ slips' = IF list = <<>> /\ ~ jobs[j].active THEN slips \cup {"emptied"} ELSE slips
  /\ UNCHANGED <<loading, cards, other, disk, used, strays>>

\* updateSubscription of a card; nothing happens if its subscription is gone.
StartUpdate(j, id) ==
  /\ jobs[j].op = "idle" /\ id \in cards
  /\ IF id \in Ids(list)
     THEN loading' = TRUE /\ Begin(j, "update", id, FALSE) /\ UNCHANGED cards
     ELSE loading' = FALSE /\ cards' = Ids(list) /\ UNCHANGED jobs
  /\ UNCHANGED <<list, other, storedVars, files, used, slips, strays>>

\* The file is written whether or not the list still has the subscription.
FetchedUpdate(j) ==
  /\ jobs[j].op = "update"
  /\ \/ UNCHANGED <<files, strays>>
     \/ /\ files' = files \cup {Profile(jobs[j].id)}
        /\ strays' = strays \cup Unowned({Profile(jobs[j].id)}, Ids(list))
  /\ list' = list /\ Save(j, TRUE)
  /\ UNCHANGED <<loading, cards, other, disk, used, slips>>

\* The call is given up: the request throws, or the file cannot be written, or
\* what comes after it throws, when it has been created or emptied.  Nothing
\* removes the files of an add that is given up.
FetchFails(j) ==
  /\ jobs[j].op \in {"add", "update"}
  /\ files' \in {files, files \cup {Profile(jobs[j].id)}}
  /\ strays' = strays \cup {f \in Unowned(files', Ids(list)) : f[1] = jobs[j].id}
  /\ jobs' = [jobs EXCEPT ![j] = NoJob] /\ loading' = FALSE
  /\ UNCHANGED <<list, cards, other, storedVars, used, slips>>

\* Where a subscription is in the list.
At(id) == SelectInSeq(list, LAMBDA s : s.id = id)

\* Mutant of Without: the first of those left becomes active in any case.
WithoutPromotes(id) ==
  LET left == RemoveAt(list, At(id))
  IN IF left # <<>> THEN [left EXCEPT ![1].active = TRUE] ELSE left

\* Mutant of Without: nothing becomes active.
WithoutHeir(id) == RemoveAt(list, At(id))

\* The list without a subscription, the only one with its id: if that was
\* active, the first of those left becomes active.
Without(id) ==
  LET left == RemoveAt(list, At(id))
  IN IF list[At(id)].active /\ left # <<>> THEN [left EXCEPT ![1].active = TRUE] ELSE left

\* Mutant of Delete: the file stays.
DeleteKeepsFile(j, id) ==
  /\ jobs[j].op = "idle" /\ id \in cards
  /\ IF id \in Ids(list)
     THEN /\ strays' = strays \cup ({Providers(id)} \cap files)
          /\ list' = Without(id) /\ Save(j, FALSE) /\ UNCHANGED cards
     ELSE cards' = Ids(list) /\ UNCHANGED <<list, jobs, cache, missed, strays>>
  /\ UNCHANGED <<loading, other, disk, files, used, slips>>

\* deleteSubscription: the file of the profile is unlinked, or cannot be, those
\* of its providers stay.
Delete(j, id) ==
  /\ jobs[j].op = "idle" /\ id \in cards
  /\ IF id \in Ids(list)
     THEN /\ files' \in {files \ {Profile(id)}, files}
          /\ strays' = strays \cup {f \in files' : f[1] = id}
          /\ list' = Without(id) /\ Save(j, FALSE) /\ UNCHANGED cards
     ELSE cards' = Ids(list) /\ UNCHANGED <<list, jobs, cache, missed, files, strays>>
  /\ UNCHANGED <<loading, other, disk, used, slips>>

\* setActive: the card of a subscription that is gone makes all inactive.
SetActive(j, id) ==
  /\ jobs[j].op = "idle" /\ id \in cards
  /\ list' = [i \in DOMAIN list |-> [list[i] EXCEPT !.active = (list[i].id = id)]]
  /\ Save(j, FALSE)
  /\ slips' = IF id \in Ids(list) THEN slips ELSE slips \cup {"gone card"}
  /\ UNCHANGED <<loading, cards, other, disk, files, used, strays>>

\* editSubscription: a name and an address, which are left out, and a save.
Edit(j, id) ==
  /\ jobs[j].op = "idle" /\ ~ loading /\ id \in cards
  /\ list' = list
  /\ IF id \in Ids(list)
     THEN loading' = TRUE /\ Save(j, TRUE) /\ UNCHANGED cards
     ELSE cards' = Ids(list) /\ UNCHANGED <<loading, jobs, cache, missed>>
  /\ UNCHANGED <<other, disk, files, used, slips, strays>>

\* The preferences are flushed: what they hold now, whoever has put it there.
\* That they could not be is not told either.
FlushStore ==
  \/ disk' = cache /\ missed' = missed \ {"flush"}
  \/ missed' = missed \cup {"flush"} /\ UNCHANGED disk

Flush(j) ==
  /\ jobs[j].op = "save"
  /\ FlushStore
  /\ jobs' = [jobs EXCEPT ![j].op = "saved"]
  /\ UNCHANGED <<list, loading, cards, other, cache, files, used, slips, strays>>

\* refreshList, and the end of the call.
Refresh(j) ==
  /\ jobs[j].op = "saved"
  /\ cards' = Ids(list)
  /\ loading' = (loading /\ ~ jobs[j].busy)
  /\ jobs' = [jobs EXCEPT ![j] = NoJob]
  /\ UNCHANGED <<list, other, storedVars, files, used, slips, strays>>

-----------------------------------------------------------------------------
(* The other instance: init, the active subscription, its file if missing *)

NoOther == [at |-> "none", list |-> <<>>]

\* It saves its whole list; what the page has changed since it was read is
\* undone.
Undone == IF other.list \in {list, cache} THEN {} ELSE {"undone"}

\* loadSubscriptions asks for the stored list.  An instance that is not given it
\* has no subscription and does nothing.
OtherReads ==
  /\ other.at = "none"
  /\ other' = [at |-> "read", list |-> cache]
  /\ UNCHANGED <<pageVars, storedVars, files, used, slips, strays>>

\* ... recounts what it is given, and saves it if that of a file has changed.
\* If it cannot, it goes on as if nothing had changed.
OtherLoads ==
  /\ other.at = "read"
  /\ \/ other' = [other EXCEPT !.at = "loaded"] /\ UNCHANGED <<cache, slips>>
     \/ /\ \E id \in Ids(other.list) : Profile(id) \in files
        /\ other' = [other EXCEPT !.at = "recounted"]
        /\ cache' = other.list /\ slips' = slips \cup Undone
  /\ UNCHANGED <<pageVars, disk, files, used, missed, strays>>

\* getActiveSubscription
ActiveId == other.list[Min(Actives(other.list))].id

\* Home connects and the file of the active subscription is missing.
OtherFetches ==
  /\ other.at = "loaded" /\ Actives(other.list) # {} /\ Profile(ActiveId) \notin files
  /\ other' = [other EXCEPT !.at = "fetching"]
  /\ UNCHANGED <<pageVars, storedVars, files, used, slips, strays>>

\* The download writes a file, to whoever it belongs.
OtherWrites(f) ==
  /\ files' = files \cup {f}
  /\ strays' = strays \cup Unowned({f}, Ids(list))

OtherProviders ==
  /\ other.at = "fetching"
  /\ OtherWrites(Providers(ActiveId))
  /\ UNCHANGED <<pageVars, other, storedVars, used, slips>>

\* The download ends and the list is saved, or cannot be.
OtherFetched ==
  /\ other.at = "fetching"
  /\ OtherWrites(Profile(ActiveId)) \/ UNCHANGED <<files, strays>>
  /\ \/ /\ other' = [other EXCEPT !.at = "fetched"]
        /\ cache' = other.list /\ slips' = slips \cup Undone
     \/ other' = NoOther /\ UNCHANGED <<cache, slips>>
  /\ UNCHANGED <<pageVars, disk, used, missed>>

OtherFlushes ==
  /\ other.at \in {"recounted", "fetched"}
  /\ FlushStore
  /\ other' = IF other.at = "recounted" THEN [other EXCEPT !.at = "loaded"] ELSE NoOther
  /\ UNCHANGED <<pageVars, cache, files, used, slips, strays>>

\* The instance has done what it was created for, or its download fails: what
\* comes after the file was opened may.
OtherEnds ==
  /\ other.at \in {"loaded", "fetching"}
  /\ \/ UNCHANGED <<files, strays>>
     \/ other.at = "fetching" /\ OtherWrites(Profile(ActiveId))
  /\ other' = NoOther
  /\ UNCHANGED <<pageVars, storedVars, used, slips>>

-----------------------------------------------------------------------------
\* The UI is killed and started again.  Its list page loads what is on disk
\* before the user does anything; if it cannot open the preferences or parse
\* what they hold, it goes on with an empty list.
Restart ==
  /\ \/ list' = disk /\ missed' = {}
     \/ list' = <<>> /\ missed' = {"load"}
  /\ cache' = disk /\ UNCHANGED disk
  /\ cards' = Ids(list') /\ loading' = FALSE
  /\ jobs' = [j \in Job |-> NoJob] /\ other' = NoOther
  /\ strays' = strays \cup Unowned(files, Ids(list'))
  /\ UNCHANGED <<files, used, slips>>

Init ==
  /\ list = <<>> /\ cache = <<>> /\ disk = <<>> /\ cards = {}
  /\ jobs = [j \in Job |-> NoJob] /\ loading = FALSE
  /\ other = NoOther
  /\ files = {} /\ used = 0 /\ slips = {} /\ missed = {} /\ strays = {}

Next ==
  \/ \E j \in Job :
       \/ StartAdd(j) \/ FetchFails(j) \/ Flush(j) \/ Refresh(j)
       \/ FetchedProviders(j) \/ FetchedAdd(j) \/ FetchedUpdate(j)
       \/ \E id \in Id : StartUpdate(j, id) \/ Delete(j, id) \/ SetActive(j, id) \/ Edit(j, id)
  \/ OtherReads \/ OtherLoads \/ OtherFetches \/ OtherProviders \/ OtherFetched
  \/ OtherFlushes \/ OtherEnds
  \/ Restart

Spec == Init /\ [][Next]_vars

-----------------------------------------------------------------------------
Lists == {list, cache, disk, other.list}

\* At most one subscription is active, in memory and on disk, unless two adds
\* have overlapped: whether the new one is active is decided before its
\* download (SubscriptionService.ets:94), and the button that starts an add is
\* enabled again when any of several pending calls ends.
OneActive == "overlap" \notin slips => \A subs \in Lists : Cardinality(Actives(subs)) <= 1

\* A list that is not empty has an active subscription, whatever is added,
\* deleted, chosen or saved in between, with two exceptions: an add that began
\* on a list that is empty when it ends, and a tap on the card of a
\* subscription that is already deleted.
SomeActive ==
  slips \cap {"emptied", "gone card"} = {} => \A subs \in Lists : subs = <<>> \/ Actives(subs) # {}

Quiet == (\A j \in Job : jobs[j].op \notin {"save", "saved"}) /\ other.at \notin {"recounted", "fetched"}

\* When no save is on its way, the cards show the list of the page; the
\* preferences hold that list, with the same subscription active, unless the
\* other instance has saved a list that it had read before a change, or the page
\* could not load or save its list and has not saved it since; and the disk
\* holds what the preferences hold, unless the last flush has failed.
QuietIsStored ==
  Quiet => /\ cards = Ids(list)
           /\ "undone" \notin slips /\ missed \cap {"load", "put"} = {} => cache = list
           /\ "flush" \notin missed => disk = cache

\* A file has its subscription in the list, or is of one that is being added,
\* unless it was left to nobody: by an add that was given up after it had
\* written, by a download that ended after the deletion, by a deletion that
\* leaves the files of the providers and, if it fails, that of the profile, or
\* by a kill of the UI after which the list no longer has the subscription.
FilesOwned ==
  \A f \in files \ strays :
    f[1] \in Ids(list) \/ \E j \in Job : jobs[j].op = "add" /\ jobs[j].id = f[1]
=============================================================================
