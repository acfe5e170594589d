------------------------------ MODULE Downloads ------------------------------
(***************************************************************************)
(* The list of downloads of the desktop application                        *)
(* (workspace_desktop/src/main/downloadsManager.ts): the downloads that    *)
(* Electron reports, the update of the application, and what the user      *)
(* clears or cancels.                                                      *)
(*                                                                         *)
(* The handlers wait only for the save dialog and for the thumbnail of an  *)
(* image that is complete. Two downloads may have the same file name,      *)
(* which is the key of the list. The saved list equals the one in memory,  *)
(* as every change saves it (JsonFile is the module about the file).       *)
(***************************************************************************)
EXTENDS Integers, FiniteSets, FiniteSetsExt

CONSTANTS
    Files,      \* file names
    Update,     \* APP_UPDATE_KEY
    MaxItems,   \* DOWNLOADS_DROPDOWN_MAX_ITEMS
    MaxStarted, \* bound: downloads
    MaxUpdates, \* bound: events of the updater
    MaxRestarts \* bound: restarts of the application

ASSUME DownloadsAssumption ==
    /\ Update \notin Files /\ MaxItems \in Nat \ {0}
    /\ MaxStarted \in Nat /\ MaxUpdates \in Nat /\ MaxRestarts \in Nat

Item == 1..MaxStarted
Key == Files \cup {Update}

VARIABLES
    items,      \* Electron's items: their file and what has become of them
    started,    \* number of items, and their addedAt
    downloads,  \* this.downloads
    progressing,    \* progressingItems
    saving,     \* items whose thumbnail is being made
    isOpen, timer,  \* the dropdown and its autoCloseTimeout
    updates, restarts,
    dropped     \* history: files with an end that was not recorded

downloadsVars == <<items, started, downloads, progressing, saving, isOpen, timer,
                   updates, restarts, dropped>>

NoItem == [file |-> Update, st |-> "none"]

DownloadsInit ==
    /\ items = [i \in Item |-> NoItem] /\ started = 0
    /\ downloads = {} /\ progressing = {} /\ saving = {}
    /\ isOpen = FALSE /\ timer = FALSE /\ updates = 0 /\ restarts = 0 /\ dropped = {}

---------------------------------------------------------------------------
(* The list: a set of entries, of which no two have the same key *)

Entry(key, st, at) == [key |-> key, st |-> st, at |-> at]
Without(d, key) == {e \in d : e.key # key}
Put(d, e) == Without(d, e.key) \cup {e}
Find(key) == CHOOSE e \in downloads : e.key = key
Has(key) == \E e \in downloads : e.key = key

\* checkIfMaxFilesReached removes one of the oldest entries. An update that has not
\* progressed yet was added at time 0.
Trimmed(d) ==
    IF Cardinality(d) <= MaxItems THEN {d}
    ELSE {d \ {e} : e \in {x \in d : \A y \in d : x.at <= y.at}}

Upsert(i, st) == downloads' \in Trimmed(Put(downloads, Entry(items[i].file, st, i)))

\* progressingItems is a map from files to items.
Progresses(i) == {j \in progressing : items[j].file # items[i].file} \cup {i}
Forget(i) == {j \in progressing : items[j].file # items[i].file}

Running(i) == items[i].st = "live"
OpenDropdown == isOpen' = TRUE /\ UNCHANGED timer
CloseDropdown == isOpen' = FALSE /\ timer' = FALSE

---------------------------------------------------------------------------
(* Electron's events *)

\* will-download for a file that has been chosen; the choice is made in Choose.
NewDownload(i) ==
    /\ items[i].st = "chosen"
    /\ items' = [items EXCEPT ![i].st = "live"]
    /\ Upsert(i, "progressing") /\ progressing' = Progresses(i)
    /\ OpenDropdown
    /\ UNCHANGED <<started, saving, updates, restarts, dropped>>

\* The save dialog, or the file name that is taken without it, and downloadURL.
Choose(f) ==
    /\ started < MaxStarted /\ started' = started + 1
    /\ items' = [items EXCEPT ![started + 1] = [file |-> f, st |-> "chosen"]]
    /\ UNCHANGED <<downloads, progressing, saving, isOpen, timer, updates, restarts, dropped>>

\* updatedEventController: an interrupted item may go on later.
Updated(i, st) ==
    /\ Running(i) /\ Upsert(i, st)
    /\ progressing' = IF st = "interrupted" THEN Forget(i) ELSE progressing
    /\ UNCHANGED <<items, started, saving, isOpen, timer, updates, restarts, dropped>>

\* The rest of doneEventController after the entry has been formatted.
Recorded(i, st) ==
    /\ Upsert(i, st) /\ progressing' = Forget(i)
    /\ isOpen' = isOpen
    /\ timer' = (timer \/ \A e \in downloads' : e.st # "progressing")

\* A complete download in a closed dropdown is announced first, which gives up when the
\* view or the server of the download is gone.
Done(i, st) ==
    /\ Running(i) /\ items' = [items EXCEPT ![i].st = "ended"]
    /\ \/ Recorded(i, st) /\ UNCHANGED <<saving, dropped>>
       \/ /\ st = "completed" /\ saving' = saving \cup {i}
          /\ UNCHANGED <<downloads, progressing, isOpen, timer, dropped>>
       \/ /\ st = "completed" /\ ~isOpen /\ dropped' = dropped \cup {items[i].file}
          /\ UNCHANGED <<downloads, progressing, saving, isOpen, timer>>
    /\ UNCHANGED <<started, updates, restarts>>

ThumbnailMade(i) ==
    /\ i \in saving /\ saving' = saving \ {i} /\ Recorded(i, "completed")
    /\ UNCHANGED <<items, started, updates, restarts, dropped>>

---------------------------------------------------------------------------
(* The user *)

Listed(d) == downloads' = d /\ UNCHANGED <<items, started, saving, updates, restarts, dropped>>
CloseIfEmpty(d) == IF d = {} THEN CloseDropdown ELSE UNCHANGED <<isOpen, timer>>

ClearAll ==
    /\ downloads # {} /\ Listed({e \in downloads : e.key = Update}) /\ CloseDropdown
    /\ UNCHANGED progressing

ClearFile(f) ==
    /\ Has(f) /\ Listed(Without(downloads, f)) /\ CloseIfEmpty(Without(downloads, f))
    /\ UNCHANGED progressing

\* Electron reports the end of the item as it reports others.
CancelDownload(i) ==
    /\ i \in progressing /\ Has(items[i].file)
    /\ progressing' = Forget(i) /\ Listed(downloads) /\ UNCHANGED <<isOpen, timer>>

CancelUpdate ==
    /\ Has(Update) /\ Listed(Put(downloads, [Find(Update) EXCEPT !.st = "cancelled"]))
    /\ UNCHANGED <<progressing, isOpen, timer>>

\* openFile or showFileInFolder of a file that is no more.
MarkDeleted(f) ==
    /\ Has(f) /\ Find(f).st = "completed"
    /\ Listed(Put(downloads, [Find(f) EXCEPT !.st = "deleted"]))
    /\ UNCHANGED <<progressing, isOpen, timer>>

Toggle == isOpen' = ~isOpen /\ timer' = (timer /\ isOpen') /\ Listed(downloads) /\ UNCHANGED progressing
AutoClose == timer /\ CloseDropdown /\ Listed(downloads) /\ UNCHANGED progressing

---------------------------------------------------------------------------
(* The updater, and restarts *)

UpdateEvent ==
    /\ updates < MaxUpdates /\ updates' = updates + 1
    /\ UNCHANGED <<items, started, progressing, saving, restarts, dropped>>

UpdateAvailable ==
    UpdateEvent /\ downloads' = Put(downloads, Entry(Update, "available", 0)) /\ OpenDropdown

\* Mutant of UpdateProgress: every progress renews the time.
UpdateProgressAnew ==
    /\ UpdateEvent /\ UNCHANGED <<isOpen, timer>>
    /\ LET at == IF Has(Update) /\ Find(Update).at > 0 THEN Find(Update).at + 1 ELSE started + 1
       IN downloads' = Put(downloads, Entry(Update, "progressing", at))

\* The time of the first progress counts as later than that of any download so far.
UpdateProgress ==
    /\ UpdateEvent /\ UNCHANGED <<isOpen, timer>>
    /\ LET at == IF Has(Update) /\ Find(Update).at > 0 THEN Find(Update).at ELSE started + 1
       IN downloads' = Put(downloads, Entry(Update, "progressing", at))

\* The handler fails when the entry is not there any more.
UpdateDownloaded ==
    /\ UpdateEvent /\ Has(Update) /\ OpenDropdown
    /\ downloads' = Put(downloads, [Find(Update) EXCEPT !.st = "completed"])

NoUpdate ==
    /\ UpdateEvent /\ downloads' = Without(downloads, Update)
    /\ CloseIfEmpty(Without(downloads, Update))

\* Mutant of Restart: the list is taken as it was saved.
RestartAsItWas ==
    /\ restarts < MaxRestarts /\ restarts' = restarts + 1
    /\ items' = [i \in Item |-> IF items[i].st = "none" THEN items[i] ELSE [items[i] EXCEPT !.st = "ended"]]
    /\ progressing' = {} /\ saving' = {} /\ isOpen' = FALSE /\ timer' = FALSE /\ dropped' = {}
    /\ UNCHANGED <<downloads, started, updates>>

\* checkForDeletedFiles of the next start; Electron's items are gone.
Restart ==
    /\ restarts < MaxRestarts /\ restarts' = restarts + 1
    /\ items' = [i \in Item |-> IF items[i].st = "none" THEN items[i] ELSE [items[i] EXCEPT !.st = "ended"]]
    /\ progressing' = {} /\ saving' = {} /\ isOpen' = FALSE /\ timer' = FALSE /\ dropped' = {}
    /\ \E lost \in SUBSET {e.key : e \in {x \in downloads : x.st = "completed"}}, upgraded \in BOOLEAN :
        downloads' = {IF e.key = Update THEN e
                      ELSE IF e.key \in lost THEN [e EXCEPT !.st = "deleted"]
                      ELSE IF e.st = "progressing" THEN [e EXCEPT !.st = "interrupted"]
                      ELSE e : e \in IF upgraded THEN Without(downloads, Update) ELSE downloads}
    /\ UNCHANGED <<started, updates>>

---------------------------------------------------------------------------
DownloadsNext ==
    \/ \E i \in Item :
        \/ NewDownload(i) \/ ThumbnailMade(i) \/ CancelDownload(i)
        \/ \E st \in {"progressing", "interrupted"} : Updated(i, st)
        \/ \E st \in {"completed", "cancelled", "interrupted"} : Done(i, st)
    \/ \E f \in Files : Choose(f) \/ ClearFile(f) \/ MarkDeleted(f)
    \/ ClearAll \/ CancelUpdate \/ Toggle \/ AutoClose
    \/ UpdateAvailable \/ UpdateProgress \/ UpdateDownloaded \/ NoUpdate \/ Restart

DownloadsSpec == DownloadsInit /\ [][DownloadsNext]_downloadsVars

---------------------------------------------------------------------------
(* Properties *)

\* The maps and flags of the manager have their types.
DownloadsTypeOK ==
    /\ items \in [Item -> [file : Key, st : {"none", "chosen", "live", "ended"}]]
    /\ started \in 0..MaxStarted /\ progressing \subseteq Item /\ saving \subseteq Item
    /\ downloads \subseteq [key : Key, at : 0..MaxStarted + 1,
            st : {"progressing", "interrupted", "completed", "cancelled", "deleted", "available"}]
    /\ isOpen \in BOOLEAN /\ timer \in BOOLEAN /\ dropped \subseteq Files

\* A download that is listed as progressing is going on, or its thumbnail is being made:
\* no order of updates, ends, cancellations, clearings and restarts leaves an entry that
\* progresses for ever, except for a download that completed after its view or its server
\* had gone (updatedEventController, doneEventController, checkForDeletedFiles).
ProgressIsReal ==
    \A f \in Files \ dropped :
        Has(f) /\ Find(f).st = "progressing" =>
            \E i \in Item : items[i].file = f /\ (Running(i) \/ i \in saving)
=============================================================================
