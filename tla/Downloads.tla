------------------------------ MODULE Downloads ------------------------------
(***************************************************************************)
(* What update.rs does before it touches a file: it asks GitHub for the    *)
(* releases, selects one, follows redirects to its checksums and to its    *)
(* binary, reads each response within a limit, and verifies the binary.    *)
(* Installing what is verified here is SelfUpdate.tla.                     *)
(*                                                                         *)
(* A version is a sequence of parts; a path the parts behind its slashes;  *)
(* a body a sequence of units, lines of a manifest or bytes of a binary.   *)
(***************************************************************************)
EXTENDS Integers, Sequences, SequencesExt, FiniteSets, FiniteSetsExt

CONSTANTS
    GithubOrigins, \* api.github.com and github.com, at port 443
    RunningVersions, \* the running version
    Wants,         \* selectors of requests, and AtBoot
    ReleaseLists,  \* what GitHub lists: sequences of releases
    ServerPages,   \* what a server may answer a request with
    Numbers,       \* the value of each part that parses as a number
    Canonical,     \* the parts among them without leading zeros or signs
    MaxRedirects,  \* bound: MAX_REDIRECTS
    MaxHeaders,    \* bound: MAX_HEADERS, in lines
    LimitOf        \* bound: MAX_MANIFEST, MAX_BINARY, in units

ASSUME DownloadsAssumption ==
    /\ MaxRedirects \in Nat
    /\ \A list \in ReleaseLists : Len(list) \in Nat /\ DOMAIN list = 1..Len(list)

VARIABLES
    dlPhase,   \* "select", "sums", "binary", "verified", "current", "failed"
    dlWant, dlList,
    dlPick,    \* the release selected
    dlUrl,     \* where the next request of this download goes
    dlAuth,    \* whether it carries the token
    dlVisited, \* the URLs of this download so far
    dlAsked,   \* its requests: origin and token (history)
    dlSums,    \* the manifest
    dlBinary   \* the binary

dnVars == <<dlPhase, dlWant, dlList, dlPick, dlUrl, dlAuth, dlVisited, dlAsked, dlSums,
            dlBinary>>

AtBoot == [kind |-> "boot", parts |-> <<>>, star |-> FALSE]
NoRelease == 0
PlatformAsset == "binary"
ChecksumsAsset == "checksums.txt"

-----------------------------------------------------------------------------
(* Versions and releases. *)

\* parse_semver.
Semver(v) == Len(v) = 3 /\ Range(v) \subseteq Canonical

\* The order of [u64; 3].
Above(v, w) ==
    \E i \in 1 .. 3 :
        Numbers[v[i]] > Numbers[w[i]] /\ \A j \in 1 .. i - 1 : Numbers[v[j]] = Numbers[w[j]]

\* A prefix is compared as numbers, a whole version as text.
VersionMatches(v, want) ==
    \/ want.kind = "latest"
    \/ /\ want.kind = "version" /\ Len(want.parts) \in {1, 2}
       /\ \A i \in DOMAIN want.parts :
             want.parts[i] \in DOMAIN Numbers /\ Numbers[want.parts[i]] = Numbers[v[i]]
    \/ want.kind = "version" /\ Len(want.parts) = 3 /\ ~want.star /\ want.parts = v

\* json_asset_url: a well-formed list with the name once.
AssetsNamed(r, name) == {i \in DOMAIN r.assets : r.assets[i].name = name}
HasAsset(r, name) == r.wellFormed /\ Cardinality(AssetsNamed(r, name)) = 1
AssetUrl(r, name) == r.assets[CHOOSE i \in AssetsNamed(r, name) : TRUE].url

Stable(r) == ~r.prerelease /\ ~r.draft

\* The releases of a list that select_release weighs.
Candidates(list, want) ==
    {i \in DOMAIN list :
        /\ Stable(list[i]) /\ Semver(list[i].version)
        /\ VersionMatches(list[i].version, want)
        /\ HasAsset(list[i], PlatformAsset) /\ HasAsset(list[i], ChecksumsAsset)}

\* Mutant: the first release that will do.
FirstListed(list, want) ==
    IF Candidates(list, want) = {} THEN NoRelease ELSE Min(Candidates(list, want))

\* The first of the highest; none when a stable release of the list has no tag.
SelectRelease(list, want) ==
    LET best == {i \in Candidates(list, want) :
                    \A j \in Candidates(list, want) :
                        ~Above(list[j].version, list[i].version)}
    IN IF best = {} \/ \E i \in DOMAIN list : Stable(list[i]) /\ list[i].version = <<>>
       THEN NoRelease ELSE Min(best)

Newer(v) == Semver(v) /\ Above(v, RunningVersions)

\* The latest release must be newer, and have both assets.
LatestOf(list) ==
    IF Newer(list[1].version)
       /\ HasAsset(list[1], PlatformAsset) /\ HasAsset(list[1], ChecksumsAsset)
    THEN 1 ELSE NoRelease

-----------------------------------------------------------------------------
(* Redirects. *)

SameOrigin(u, w) == u.origin = w.origin

\* Mutant: whatever is at GitHub gets the token.
AuthAtGithub(auth, url, next) == next.origin \in GithubOrigins

\* Once stripped, the token stays stripped, even on a return to GitHub.
AuthAfter(auth, url, next) == auth /\ SameOrigin(url, next)

\* Dot segments; a path that ended in one keeps its last slash.
Undotted(path) ==
    LET kept == FoldLeft(LAMBDA done, part :
                    IF part = "." THEN done
                    ELSE IF part = ".." THEN (IF done = <<>> THEN <<>> ELSE Front(done))
                    ELSE Append(done, part), <<>>, path)
    IN IF kept = <<>> THEN <<"">>
       ELSE IF Last(path) \in {".", ".."} /\ Last(kept) # "" THEN Append(kept, "") ELSE kept

\* redirect: where a location leads from url.
Redirected(url, l) ==
    LET to(path, query) == [origin |-> url.origin, path |-> Undotted(path), query |-> query]
    IN CASE l.kind = "https" -> [origin |-> l.origin, path |-> l.path, query |-> l.query]
         [] l.kind = "empty" -> to(url.path, url.query)
         [] l.kind = "query" -> to(url.path, l.query)
         [] l.kind = "rooted" -> to(l.path, l.query)
         [] l.kind = "relative" -> to(Front(url.path) \o l.path, l.query)

\* A location with another scheme, or an authority that does not parse.
Followable(l) == l.kind # "scheme" /\ (l.kind = "https" => l.origin # "invalid")

-----------------------------------------------------------------------------
(* Responses: a status line, header lines, and a body as the server framed *)
(* it, of which "arrived" units came before the connection ended.          *)

CountOf(a, name) == Cardinality({i \in DOMAIN a.lines : a.lines[i].name = name})
ValueOf(a, name) == a.lines[CHOOSE i \in DOMAIN a.lines : a.lines[i].name = name].value

\* Three lines' worth for each chunk: its size and its ending.
HeadersFit(a) == Len(a.lines) + 2 + 3 * Len(a.chunks) <= MaxHeaders

HeadersTaken(a, limit) ==
    /\ a.complete /\ HeadersFit(a)
    /\ \A i \in DOMAIN a.lines : a.lines[i].name \notin {"malformed", "gzip", "transfer"}
    /\ CountOf(a, "location") <= 1 /\ CountOf(a, "length") <= 1 /\ CountOf(a, "chunked") <= 1
    /\ CountOf(a, "length") = 1 => ValueOf(a, "length") <= limit

IsRedirect(a) == a.status = "redirect" /\ CountOf(a, "location") = 1

Sum(seq) == FoldLeft(LAMBDA x, y : x + y, 0, seq)

\* How many units of the body are read, or None.
None == -1
UnitsRead(a, limit) ==
    IF CountOf(a, "chunked") = 1
    THEN IF CountOf(a, "length") = 1 \/ ~a.lastChunk \/ Sum(a.chunks) > limit THEN None
         ELSE Sum(a.chunks)
    ELSE IF CountOf(a, "length") = 1
    THEN IF a.arrived < ValueOf(a, "length") THEN None ELSE ValueOf(a, "length")
    ELSE IF a.arrived > limit THEN None ELSE a.arrived

BodyTaken(a, limit) == a.status = "ok" /\ UnitsRead(a, limit) # None

-----------------------------------------------------------------------------

DnInit ==
    /\ dlPhase = "select"
    /\ dlWant \in Wants \cup {AtBoot} /\ dlList \in ReleaseLists
    /\ dlPick = NoRelease
    /\ dlUrl = [origin |-> "none", path |-> <<"">>, query |-> "none"]
    /\ dlAuth = FALSE /\ dlVisited = <<>> /\ dlAsked = <<>>
    /\ dlSums = <<>> /\ dlBinary = <<>>

\* follow_redirects up to its first request.
StartDownload(phase, url) ==
    /\ dlPhase' = phase
    /\ dlUrl' = url /\ dlVisited' = <<url>> /\ dlAsked' = <<>>
    /\ dlAuth' = (url.origin \in GithubOrigins)

DlEnds(phase) ==
    /\ dlPhase' = phase
    /\ UNCHANGED <<dlUrl, dlAuth, dlVisited, dlAsked>>

\* A request for exactly what runs, or a latest release that is not newer.
NothingToDo ==
    IF dlWant = AtBoot THEN dlList[1].version # <<>> /\ ~Newer(dlList[1].version)
    ELSE dlWant.kind = "version" /\ ~dlWant.star /\ dlWant.parts = RunningVersions

Choice == IF dlWant = AtBoot THEN LatestOf(dlList) ELSE SelectRelease(dlList, dlWant)

Select ==
    /\ dlPhase = "select"
    /\ \/ NothingToDo /\ DlEnds("current") /\ UNCHANGED dlPick
       \/ /\ ~NothingToDo
          /\ Choice = NoRelease \/ dlWant.kind = "empty"
          /\ DlEnds("failed") /\ UNCHANGED dlPick
       \/ /\ ~NothingToDo /\ dlWant.kind # "empty"
          /\ Choice # NoRelease
          /\ dlPick' = Choice
          /\ IF dlList[Choice].version = RunningVersions THEN DlEnds("current")
             ELSE StartDownload("sums", AssetUrl(dlList[Choice], ChecksumsAsset))
    /\ UNCHANGED <<dlWant, dlList, dlSums, dlBinary>>

Downloading == dlPhase \in {"sums", "binary"}
Asked == Append(dlAsked, [origin |-> dlUrl.origin, token |-> dlAuth])

\* A redirect that leads somewhere new, within the limit.
FollowRedirect(a) ==
    /\ Downloading
    /\ HeadersTaken(a, LimitOf[dlPhase]) /\ IsRedirect(a)
    /\ dlAsked' = Asked
    /\ LET l == ValueOf(a, "location")
           next == Redirected(dlUrl, l)
       IN IF Len(dlVisited) > MaxRedirects \/ ~Followable(l) \/ next \in Range(dlVisited)
          THEN dlPhase' = "failed" /\ UNCHANGED <<dlUrl, dlAuth, dlVisited>>
          ELSE /\ dlUrl' = next
               /\ dlAuth' = AuthAfter(dlAuth, dlUrl, next)
               /\ dlVisited' = Append(dlVisited, next)
               /\ UNCHANGED dlPhase
    /\ UNCHANGED <<dlWant, dlList, dlPick, dlSums, dlBinary>>

BodyOf(a) == SubSeq(a.body, 1, UnitsRead(a, LimitOf[dlPhase]))

ServerAnswers(a, phase) ==
    dlPhase = phase /\ HeadersTaken(a, LimitOf[phase]) /\ BodyTaken(a, LimitOf[phase])

\* The lines of the manifest for the platform's asset; find_checksum takes
\* the only one, when it is a digest and a name.
LinesFor(sums) == {i \in DOMAIN sums : sums[i].file = PlatformAsset}
HasChecksum(sums) ==
    \E i \in LinesFor(sums) : LinesFor(sums) = {i} /\ sums[i].digest # <<>> /\ ~sums[i].extra
Checksum(sums) == sums[CHOOSE i \in LinesFor(sums) : TRUE].digest

ReceiveSums(a) ==
    /\ ServerAnswers(a, "sums")
    /\ dlSums' = BodyOf(a)
    /\ IF HasChecksum(dlSums')
       THEN StartDownload("binary", AssetUrl(dlList[dlPick], PlatformAsset))
       ELSE dlPhase' = "failed" /\ dlAsked' = Asked /\ UNCHANGED <<dlUrl, dlAuth, dlVisited>>
    /\ UNCHANGED <<dlWant, dlList, dlPick, dlBinary>>

\* SHA-256, which tells all texts apart.
Sha256(units) == [i \in DOMAIN units |-> units[i].byte]

ReceiveBinary(a) ==
    /\ ServerAnswers(a, "binary")
    /\ dlBinary' = BodyOf(a)
    /\ dlPhase' = IF dlBinary' = <<>> \/ Sha256(dlBinary') # Checksum(dlSums)
                  THEN "failed" ELSE "verified"
    /\ dlAsked' = Asked
    /\ UNCHANGED <<dlWant, dlList, dlPick, dlUrl, dlAuth, dlVisited, dlSums>>

\* A response that is not taken, or a connection that fails.
DownloadFails(a) ==
    /\ Downloading
    /\ \/ ~HeadersTaken(a, LimitOf[dlPhase])
       \/ (~IsRedirect(a) /\ ~BodyTaken(a, LimitOf[dlPhase]))
    /\ dlPhase' = "failed" /\ dlAsked' = Asked
    /\ UNCHANGED <<dlWant, dlList, dlPick, dlUrl, dlAuth, dlVisited, dlSums, dlBinary>>

DnNext ==
    \/ Select
    \/ \E a \in ServerPages : FollowRedirect(a) \/ ReceiveSums(a) \/ ReceiveBinary(a) \/ DownloadFails(a)

DnSpec == DnInit /\ [][DnNext]_dnVars

-----------------------------------------------------------------------------

DnTypeOK ==
    /\ dlPhase \in {"select", "sums", "binary", "verified", "current", "failed"}
    /\ dlPick \in DOMAIN dlList \cup {NoRelease}
    /\ dlAuth \in BOOLEAN
    /\ Len(dlVisited) \in 0 .. MaxRedirects + 1

\* What is verified is a published release with its assets, higher than the
\* running one at a start and never the running one, the highest the selector
\* accepts; and its bytes are those its one manifest line names.
ReleaseVerified ==
    dlPhase = "verified" =>
        LET r == dlList[dlPick] IN
        /\ dlWant = AtBoot \/ (~r.draft /\ ~r.prerelease)
        /\ r.version # RunningVersions
        /\ IF dlWant = AtBoot THEN Above(r.version, RunningVersions)
           ELSE \A i \in DOMAIN dlList :
                   LET o == dlList[i] IN
                   (~o.draft /\ ~o.prerelease /\ Semver(o.version) /\ o.wellFormed
                    /\ VersionMatches(o.version, dlWant)
                    /\ \A name \in {PlatformAsset, ChecksumsAsset} :
                          Cardinality(AssetsNamed(o, name)) = 1)
                   => ~Above(o.version, r.version)
        /\ \E i \in DOMAIN dlSums :
              /\ dlSums[i].digest = Sha256(dlBinary)
              /\ \A j \in DOMAIN dlSums : dlSums[j].file = PlatformAsset => j = i

\* The token is sent to GitHub's own origins alone, and to none after a
\* redirect has led elsewhere.
TokenStaysHome ==
    \A i \in DOMAIN dlAsked : dlAsked[i].token =>
        \A j \in 1 .. i : dlAsked[j].origin = dlAsked[1].origin
                          /\ dlAsked[j].origin \in GithubOrigins

\* A download asks no URL twice and ends within its redirects.
RedirectsEnd ==
    /\ Len(dlAsked) <= MaxRedirects + 1
    /\ IsInjective(dlVisited)

\* A release is verified, and the token stays home on the way.
DownloadsTrusted == ReleaseVerified /\ TokenStaysHome /\ RedirectsEnd
=============================================================================
