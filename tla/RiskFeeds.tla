------------------------------ MODULE RiskFeeds ------------------------------
(* One category list of the DNS risk service: two index files ("slots"), of *)
(* which a row of the alerts database names the active one.  A refresh      *)
(* rebuilds the other file, syncs it, and only then publishes it in the row *)
(* and in memory; a conditional download keeps the active one.  The process *)
(* may die between any two steps.  A list is the version of it upstream     *)
(* had; the five categories are independent and refreshed in turn by one    *)
(* thread.  A published row is durable before the next refresh of the same  *)
(* list, hours later.                                                       *)
EXTENDS Integers

CONSTANTS
    MaxVersions,  \* versions upstream publishes
    Entries,      \* version -> how many entries it has
    MaxCrashes

Versions == 1..MaxVersions

ASSUME FeedAssumption ==
    MaxVersions \in Nat \ {0} /\ MaxCrashes \in Nat /\ Entries \in [Versions -> Nat]

NoList == 0
Partial == -1

VARIABLES
    upstream,   \* the version upstream serves now
    files,      \* slot -> the version its file indexes, Partial or NoList
    row,        \* [slot, version, etag]: the category's row; version = entries > 0
    feed,       \* [loaded, slot, version, etag, confirmed]: the list in memory
    refresh,    \* [at, slot, version, etag]: the refresh under way
    crashes

feedVars == <<upstream, files, row, feed, refresh, crashes>>

NoRow == [slot |-> 0, version |-> NoList, etag |-> NoList]
NoRefresh == [at |-> "idle", slot |-> 0, version |-> NoList, etag |-> NoList]
Unloaded(slot) == [loaded |-> FALSE, slot |-> slot, version |-> NoList,
                   etag |-> NoList, confirmed |-> NoList]

FeedInit ==
    /\ upstream = 1 /\ files = [s \in {0, 1} |-> NoList]
    /\ row = NoRow /\ feed = Unloaded(0) /\ refresh = NoRefresh /\ crashes = 0

UpstreamPublishes ==
    /\ upstream < MaxVersions /\ upstream' = upstream + 1
    /\ UNCHANGED <<files, row, feed, refresh, crashes>>

\* refresh_feed asks for the list, conditionally when it has one loaded and
\* knows its tag.  Unchanged: the list is confirmed.  Otherwise the answer's
\* body is built into the other slot; its tag may be missing.
Download ==
    /\ refresh.at = "idle"
    /\ \/ /\ feed.loaded /\ feed.etag = upstream
          /\ row' = row
          /\ feed' = [feed EXCEPT !.confirmed = upstream]
          /\ UNCHANGED <<refresh, files>>
       \/ /\ ~(feed.loaded /\ feed.etag = upstream)
          /\ \E tag \in {NoList, upstream} :
               refresh' = [at |-> "build", slot |-> 1 - feed.slot,
                           version |-> upstream, etag |-> tag]
          /\ UNCHANGED <<row, feed, files>>
    /\ UNCHANGED <<upstream, crashes>>

\* build_feed removes the slot's old file and fills a new one...
RemoveOldIndex ==
    /\ refresh.at = "build"
    /\ files' = [files EXCEPT ![refresh.slot] = Partial]
    /\ refresh' = [refresh EXCEPT !.at = "fill"]
    /\ UNCHANGED <<upstream, row, feed, crashes>>

\* "Refuse catastrophic upstream truncation": under half of what is in use.
Truncated(version) ==
    /\ feed.loaded /\ Entries[feed.version] > 100
    /\ Entries[version] < Entries[feed.version] \div 2

\* ...which is complete and synced, or rejected (a bad body, too large, shut
\* down, storage pressure, a list that shrank) and removed.
build_feed ==
    /\ refresh.at = "fill"
    /\ \/ /\ ~Truncated(refresh.version)
          /\ files' = [files EXCEPT ![refresh.slot] = refresh.version]
          /\ refresh' = [refresh EXCEPT !.at = "publish"]
       \/ /\ files' = [files EXCEPT ![refresh.slot] = NoList]
          /\ refresh' = NoRefresh
    /\ UNCHANGED <<upstream, row, feed, crashes>>

\* The row names the new slot, and the list in memory becomes the new one; a
\* failed write removes the new file instead.
PublishRow ==
    /\ refresh.at = "publish"
    /\ \/ /\ row' = [slot |-> refresh.slot, version |-> refresh.version, etag |-> refresh.etag]
          /\ refresh' = [refresh EXCEPT !.at = "swap"]
          /\ UNCHANGED files
       \/ /\ files' = [files EXCEPT ![refresh.slot] = NoList]
          /\ refresh' = NoRefresh /\ UNCHANGED row
    /\ UNCHANGED <<upstream, feed, crashes>>

\* Mutant: the tag is the one upstream shows when the list is swapped in.
SwapLateTag ==
    /\ refresh.at = "swap"
    /\ feed' = [loaded |-> TRUE, slot |-> refresh.slot, version |-> refresh.version,
                etag |-> upstream, confirmed |-> refresh.version]
    /\ refresh' = NoRefresh
    /\ UNCHANGED <<upstream, files, row, crashes>>

SwapFeed ==
    /\ refresh.at = "swap"
    /\ feed' = [loaded |-> TRUE, slot |-> refresh.slot, version |-> refresh.version,
                etag |-> refresh.etag, confirmed |-> refresh.version]
    /\ refresh' = NoRefresh
    /\ UNCHANGED <<upstream, files, row, crashes>>

\* Service::open after a restart: the row's file is opened when the row has
\* entries; a file that does not open leaves the list unloaded and untagged.
OpenService ==
    /\ crashes < MaxCrashes /\ crashes' = crashes + 1
    /\ refresh' = NoRefresh
    /\ feed' = IF row.version = NoList THEN Unloaded(0)
               ELSE IF files[row.slot] \in Versions
               THEN [loaded |-> TRUE, slot |-> row.slot, version |-> files[row.slot],
                     etag |-> row.etag, confirmed |-> row.version]
               ELSE Unloaded(row.slot)
    /\ UNCHANGED <<upstream, files, row>>

\* The saved file is lost to a disk error while the service is down.
IndexLost ==
    /\ crashes < MaxCrashes /\ crashes' = crashes + 1
    /\ row.version # NoList /\ refresh.at = "idle"
    /\ files' = [files EXCEPT ![row.slot] = NoList]
    /\ feed' = Unloaded(row.slot)
    /\ UNCHANGED <<upstream, row, refresh>>

FeedNext ==
    \/ UpstreamPublishes \/ Download \/ RemoveOldIndex \/ build_feed
    \/ PublishRow \/ SwapFeed \/ OpenService \/ IndexLost

\* A refresh that was begun runs to its end, for better or worse.
RefreshStep == RemoveOldIndex \/ build_feed \/ PublishRow \/ SwapFeed

FeedSpec == FeedInit /\ [][FeedNext]_feedVars /\ WF_feedVars(RefreshStep)

-----------------------------------------------------------------------------
(* Properties.                                                              *)

FeedTypeOK ==
    /\ upstream \in Versions /\ files \in [{0, 1} -> Versions \cup {NoList, Partial}]
    /\ row \in [slot : {0, 1}, version : 0..MaxVersions, etag : 0..MaxVersions]
    /\ feed.slot \in {0, 1} /\ feed.loaded \in BOOLEAN
    /\ refresh.at \in {"idle", "build", "fill", "publish", "swap"}

\* "The active index is never removed when validation or storage checks
\* fail": whenever a list is loaded, the slot the row names holds exactly the
\* version in use (or the one just published), so a death at any step leaves
\* a complete list to open.
ActiveIndexWhole ==
    feed.loaded => /\ files[row.slot] = row.version /\ row.version # NoList
                   /\ files[feed.slot] = feed.version

\* The list in use is the one upstream had when it was last reported up to
\* date: an unchanged answer never confirms another version's index, also
\* after a lost file, a missing tag or a death between row and memory.
ReportedIsServed == feed.loaded => feed.version = feed.confirmed

\* What is outside the program's power: upstream answers again and again, and not
\* every body, disk and database write fails.
UpstreamAnswers ==
    /\ SF_feedVars(Download)
    /\ SF_feedVars(build_feed /\ refresh'.at = "publish")
    /\ SF_feedVars(PublishRow /\ refresh'.at = "swap")

\* If upstream keeps answering, the list it settles on is in use from some time
\* on, after any failed refresh and restart; the one list that is kept out for
\* good is the one refresh_feed refuses every time, with under half the entries of
\* the list in use.
ListArrives ==
    UpstreamAnswers =>
      ((upstream = MaxVersions) ~> [](feed.version = MaxVersions \/ Truncated(MaxVersions)))

\* The index a risk list is served from is always whole, and it is the version last
\* reported up to date, over failed downloads, failed publications and restarts.
FeedSound ==
  /\ FeedTypeOK /\ ActiveIndexWhole /\ ReportedIsServed
=============================================================================
