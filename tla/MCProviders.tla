----------------------------- MODULE MCProviders -----------------------------
(***************************************************************************)
(* The four providers for TLC.  Some configurations are planned, applied   *)
(* and reconciled; those that differ from them in one field are only       *)
(* planned, at one state of the site.                                      *)
(***************************************************************************)
EXTENDS Sequences, Texts, RepositoryPath, Providers

VARIABLE called \* whether what is planned is also executed

mcvars == <<called, vars>>

-----------------------------------------------------------------------------
(* A text of every peculiarity that any check of any provider looks for.   *)
Peculiarities ==
    {"empty", "blank", "long", "space", "outer space", "control", "slash", "backslash", "punctuation",
     "upper case", "lower case", "leading -", "leading digit", "trailing /", "trailing .", "dots",
     "dots only", "@{", ".lock", "no scheme", "no slash", "no @", "angle", "one part", "relative",
     "http", "other scheme", "user info", "query", "fragment", "semantic version", "not semantic",
     "scoped", "two slashes", "empty scope", "device", "drive", "wildcard", "exe", "msi", "java",
     "not of the release"}

AnyText == {Ordinary} \union {{p} : p \in Peculiarities}

AnyPath ==
    {PathOf(parts) : parts \in UNION {[1..n -> {"a", "", ".", ".."}] : n \in 0..3}} \union
    {[PathOf(<<"a">>) EXCEPT !.absolute = TRUE], [PathOf(<<"a">>) EXCEPT !.odd = TRUE]}

-----------------------------------------------------------------------------
NoRequest == [repository |-> Absent, api |-> Absent, title |-> Absent, allowInsecureHTTP |-> FALSE]
OneRequest == [NoRequest EXCEPT !.repository = Ordinary]
NoCommit == [message |-> Absent, email |-> Absent]

Formula ==
    [type |-> "formula", words |-> Ordinary, url |-> Ordinary, name |-> Ordinary, binary |-> Ordinary,
     kind |-> "", source |-> Absent, license |-> Absent, layout |-> "", java |-> ""]
JVMFormula == [Formula EXCEPT !.layout = "jvm-distribution", !.java = "21"]
Cask == [Formula EXCEPT !.type = "cask", !.binary = Absent, !.kind = "app", !.source = Ordinary,
                        !.license = Absent]

Direct ==
    [artifact |-> Ordinary, algorithm |-> "sha256", repository |-> Ordinary, branch |-> Absent,
     path |-> PathOf(<<"a">>), mode |-> "direct", updateBranch |-> Absent, credential |-> Absent,
     commit |-> NoCommit, pullRequest |-> NoRequest, manifest |-> Formula]
ByPullRequest ==
    [Direct EXCEPT !.mode = "pull-request", !.credential = Ordinary, !.pullRequest = OneRequest]

OtherManifests(m) ==
    {[m EXCEPT !.words = t] : t \in AnyText} \union {[m EXCEPT !.url = t] : t \in AnyText} \union
    {[m EXCEPT !.name = t] : t \in AnyText} \union {[m EXCEPT !.binary = t] : t \in AnyText} \union
    {[m EXCEPT !.source = t] : t \in AnyText} \union
    {[m EXCEPT !.kind = k] : k \in {"", "app", "pkg", "binary", "other"}} \union
    {[m EXCEPT !.java = j] : j \in {"", "8", "11", "17", "21", "25", "12"}}

OtherHomebrew(c) ==
    {[c EXCEPT !.artifact = t] : t \in AnyText} \union {[c EXCEPT !.repository = t] : t \in AnyText} \union
    {[c EXCEPT !.branch = t] : t \in AnyText} \union {[c EXCEPT !.updateBranch = t] : t \in AnyText} \union
    {[c EXCEPT !.credential = t] : t \in AnyText} \union
    {[c EXCEPT !.algorithm = "sha512"]} \union {[c EXCEPT !.path = p] : p \in AnyPath} \union
    {[c EXCEPT !.commit.message = t] : t \in AnyText} \union {[c EXCEPT !.commit.email = t] : t \in AnyText} \union
    {[c EXCEPT !.pullRequest = r] : r \in
        {[OneRequest EXCEPT !.repository = t] : t \in AnyText} \union
        {[OneRequest EXCEPT !.api = t, !.allowInsecureHTTP = b] : t \in AnyText, b \in BOOLEAN} \union
        {[OneRequest EXCEPT !.title = t] : t \in AnyText}} \union
    {[c EXCEPT !.manifest = m] : m \in UNION {OtherManifests(m) : m \in {Formula, JVMFormula, Cask}}}

HomebrewBases == {Direct, ByPullRequest}
MCHomebrewConfigurations == HomebrewBases \union UNION {OtherHomebrew(c) : c \in HomebrewBases}

-----------------------------------------------------------------------------
Nested(parts) == [path |-> parts, alias |-> Absent]
Member(parts) == [path |-> parts, kind |-> "file"]
NoArchive == [regular |-> TRUE, size |-> "artifact", digest |-> "artifact", members |-> <<>>]

Plain ==
    [artifact |-> Ordinary, algorithm |-> "sha256", repository |-> Ordinary, branch |-> Absent,
     updateBranch |-> Absent, root |-> PathOf(<<"manifests">>), credential |-> Ordinary,
     manifestVersion |-> "", commit |-> NoCommit,
     pullRequest |-> [repository |-> Ordinary, headOwner |-> Absent, api |-> Absent, title |-> Absent,
                      allowInsecureHTTP |-> FALSE],
     package |-> [identifier |-> Ordinary, version |-> Ordinary, locale |-> Absent,
                  publisher |-> Ordinary, releaseNotesUrl |-> Absent],
     installer |-> [architecture |-> "x64", type |-> "exe", url |-> Ordinary, archivePath |-> Absent,
                    nestedType |-> "", nested |-> <<>>],
     archive |-> NoArchive]

Zipped ==
    [Plain EXCEPT
        !.installer.type = "zip", !.installer.archivePath = Ordinary,
        !.installer.nestedType = "portable", !.installer.nested = <<Nested(<<{"exe"}>>)>>,
        !.archive.members = <<[Member(<<Ordinary>>) EXCEPT !.kind = "directory"], Member(<<{"exe"}>>)>>]

\* files of an archive: in the right place, under another name, in the same name twice
AnyNested ==
    {<<Nested(<<t>>)>> : t \in AnyText} \union {<<>>} \union
    {<<[Nested(<<{"exe"}>>) EXCEPT !.alias = t]>> : t \in AnyText} \union
    {<<Nested(<<{"exe"}>>), Nested(<<{"exe"} \union t>>)>> : t \in {Ordinary, {"upper case"}, {"msi"}}}

AnyMembers ==
    {<<Member(<<{"exe"}>>), Member(<<t>>)>> : t \in AnyText} \union {<<>>, <<Member(<<Ordinary>>)>>} \union
    {<<Member(<<{"exe"} \union t>>)>> : t \in {Ordinary, {"upper case"}}} \union
    {<<[Member(<<{"exe"}>>) EXCEPT !.kind = k]>> : k \in {"link", "directory"}}

OtherWinget(c) ==
    {[c EXCEPT !.artifact = t] : t \in AnyText} \union {[c EXCEPT !.repository = t] : t \in AnyText} \union
    {[c EXCEPT !.branch = t] : t \in AnyText} \union {[c EXCEPT !.updateBranch = t] : t \in AnyText} \union
    {[c EXCEPT !.credential = t] : t \in AnyText} \union {[c EXCEPT !.root = p] : p \in AnyPath} \union
    {[c EXCEPT !.algorithm = "sha512"], [c EXCEPT !.manifestVersion = "1.6.0"]} \union
    {[c EXCEPT !.commit.message = t] : t \in AnyText} \union {[c EXCEPT !.commit.email = t] : t \in AnyText} \union
    {[c EXCEPT !.pullRequest.repository = t] : t \in AnyText} \union
    {[c EXCEPT !.pullRequest.headOwner = t] : t \in AnyText} \union
    {[c EXCEPT !.pullRequest.api = t, !.pullRequest.allowInsecureHTTP = b] : t \in AnyText, b \in BOOLEAN} \union
    {[c EXCEPT !.package.identifier = t] : t \in AnyText} \union
    {[c EXCEPT !.package.version = t] : t \in AnyText} \union
    {[c EXCEPT !.package.version = {"dots only"}, !.root = p] : p \in AnyPath} \union
    {[c EXCEPT !.package.locale = t] : t \in AnyText} \union
    {[c EXCEPT !.package.releaseNotesUrl = t] : t \in AnyText} \union
    {[c EXCEPT !.installer.type = k] : k \in {"msi", "portable", "zip", "other"}} \union
    {[c EXCEPT !.installer.archivePath = t] : t \in AnyText} \union
    {[c EXCEPT !.installer.nestedType = k] : k \in {"", "portable", "exe", "msi", "zip"}} \union
    {[c EXCEPT !.installer.nested = n] : n \in AnyNested} \union
    {[c EXCEPT !.archive.members = n] : n \in AnyMembers} \union
    {[c EXCEPT !.archive.digest = "other"], [c EXCEPT !.archive.regular = FALSE]}

WingetBases == {Plain, Zipped}
MCWingetConfigurations == WingetBases \union UNION {OtherWinget(c) : c \in WingetBases}

Both == [version |-> "same", installer |-> "same"]
MCTrees == {Both, [Both EXCEPT !.installer = "none"], [Both EXCEPT !.version = "different", !.installer = "none"]}

-----------------------------------------------------------------------------
Manifest(parts) ==
    [path |-> parts, small |-> TRUE, json |-> TRUE, name |-> Ordinary, version |-> Ordinary]
InPackage == Manifest(<<"package", "package.json">>)

Token ==
    [artifact |-> Ordinary, packagePath |-> Ordinary, registry |-> Ordinary, allowInsecureHTTP |-> FALSE,
     tag |-> Absent, access |-> "", mode |-> "token", credential |-> Ordinary,
     package |-> [exists |-> TRUE, size |-> "artifact", digest |-> "artifact", gzip |-> TRUE,
                  entries |-> <<InPackage>>]]

\* archives with several manifests, of which the first counts
AnyEntries ==
    {<<e, f>> : e, f \in
        {Manifest(<<"package.json">>), Manifest(<<"lib", "package.json">>),
         Manifest(<<"package", ".", "package.json">>), [InPackage EXCEPT !.small = FALSE],
         [InPackage EXCEPT !.json = FALSE]} \union
        {[InPackage EXCEPT !.name = t] : t \in AnyText \union {{"scoped", "slash"}}}} \union
    {<<[InPackage EXCEPT !.version = t]>> : t \in AnyText}

OtherNpm(c) ==
    {[c EXCEPT !.artifact = t] : t \in AnyText} \union {[c EXCEPT !.packagePath = t] : t \in AnyText} \union
    {[c EXCEPT !.registry = t, !.allowInsecureHTTP = b] : t \in AnyText, b \in BOOLEAN} \union
    {[c EXCEPT !.tag = t] : t \in AnyText} \union {[c EXCEPT !.credential = t] : t \in AnyText} \union
    {[c EXCEPT !.access = a] : a \in {"public", "restricted", "other"}} \union
    {[c EXCEPT !.mode = "other"], [c EXCEPT !.package.exists = FALSE], [c EXCEPT !.package.gzip = FALSE],
     [c EXCEPT !.package.size = "other"], [c EXCEPT !.package.digest = "other"]} \union
    {[c EXCEPT !.package.entries = e] : e \in AnyEntries}

NpmBases == {Token, [Token EXCEPT !.mode = "trusted-publishing"]}
MCNpmConfigurations == NpmBases \union OtherNpm(Token)

-----------------------------------------------------------------------------
References == {"", "malformed", "one", "two"}
Credentials == [mode : {"", "state", "legacy", "other"}, email : References, password : References,
                key : References, token : References]

State ==
    [artifact |-> Ordinary, candidate |-> Ordinary, version |-> Ordinary, url |-> Ordinary,
     platform |-> "LINUX_64", vendor |-> Absent, stateDistribution |-> "", checksums |-> <<>>,
     algorithm |-> "sha256", api |-> Absent, stateApi |-> Absent, allowInsecureHTTP |-> FALSE,
     authentication |-> [mode |-> "", email |-> "one", password |-> "two", key |-> "", token |-> ""]]
Legacy ==
    [State EXCEPT !.authentication =
        [mode |-> "", email |-> "", password |-> "", key |-> "one", token |-> "two"]]

OtherSdkman(c) ==
    {[c EXCEPT !.artifact = t] : t \in AnyText} \union {[c EXCEPT !.candidate = t] : t \in AnyText} \union
    {[c EXCEPT !.version = t] : t \in AnyText} \union {[c EXCEPT !.vendor = t] : t \in AnyText} \union
    {[c EXCEPT !.url = t, !.allowInsecureHTTP = b] : t \in AnyText, b \in BOOLEAN} \union
    {[c EXCEPT !.api = t, !.allowInsecureHTTP = b] : t \in AnyText, b \in BOOLEAN} \union
    {[c EXCEPT !.platform = p] : p \in {"", "UNIVERSAL", "LINUX_X64", "LINUX_32", "MAC_OSX", "MAC_ARM64",
                                        "WINDOWS_64", "SOLARIS"}} \union
    {[c EXCEPT !.stateDistribution = d] : d \in {"ZULU", "OTHER", "malformed"}} \union
    {[c EXCEPT !.checksums = [a \in {algorithm} |-> sum]] :
        algorithm \in {"MD5", "SHA-1", "SHA-256", "CRC"},
        sum \in {"artifact", "ARTIFACT", "other", "malformed"}} \union
    {[c EXCEPT !.algorithm = "sha512"]} \union {[c EXCEPT !.authentication = a] : a \in Credentials}

SdkmanBases == {State, Legacy, [State EXCEPT !.stateDistribution = "TEMURIN"]}
MCSdkmanConfigurations == SdkmanBases \union UNION {OtherSdkman(c) : c \in {State, Legacy}}

-----------------------------------------------------------------------------
MCMaxPushingCalls == 3  \* bound: calls of a provider that pushes to a repository

MCInit ==
    /\ Init
    /\ called = CASE Is("homebrew") -> plan \in HomebrewBases
                  [] Is("winget") -> plan \in WingetBases
                  [] Is("npm") -> plan \in NpmBases
                  [] Is("sdkman") -> plan \in SdkmanBases
    /\ Is("homebrew") /\ ~called => site.base = <<>> /\ site.update = "none"
    /\ Is("winget") /\ ~called => site.base = <<Both>> /\ site.update = "none" /\ site.synced
    /\ Is("npm") /\ ~called => site.version = "none"

MCNext ==
    /\ Next
    /\ UNCHANGED called
    /\ called \/ caller.said = "nothing"
    /\ Is("homebrew") \/ Is("winget") => caller'.calls <= MCMaxPushingCalls

MCSpec == MCInit /\ [][MCNext]_mcvars
=============================================================================
