------------------------------ MODULE MCFacade ------------------------------
EXTENDS Facade, TLC

CONSTANTS c1, c2, c3, c4, s1, s2, s3, s4, r1, r2, r0, p1, p2

\* Two threads of the server, a command line with a strict store, and one
\* with a store that has a wrong URL.
MCHome      == c1 :> "server" @@ c2 :> "server" @@ c3 :> "cli" @@ c4 :> "wrong"
MCProcessOf == s1 :> "server" @@ s2 :> "server" @@ s3 :> "cli" @@ s4 :> "wrong"
MCSize      == [i \in Ids |-> 2]
MCListing   == "s" :> <<"e">> @@ "t" :> <<"e", "d">> @@ "u" :> <<>>
MCColumns   == "d" :> <<>> @@ "e" :> <<"a">>
MCDeclares  == "q" :> <<"x">>
MCRunIds    == <<r1, r2>>
MCProfiles  == <<p1, p2>>

\* The two objects the server may make differ in nothing but their name.
Twins       == Permutations({s1, s2})

MCOps ==
    {GetEntry(r0), GetEntry(r1), Purge, SetDescription(DatasetKey("e")), List, SyncSuite("q", <<"y">>)}
MCRequests ==
    MCOps \cup {RegisterConnection("w"), SyncSuite("q", <<"x">>)}
      \cup {UpsertDataset(d, MCColumns[d]) : d \in Datasets} \cup {RecordEntry(i) : i \in Ids}
Run         == Job("run", "w", "q")
OnStore(op) == Job("store", "", op)
MCJobs ==
    c1 :> {Run, Job("discover", "w", <<"t", "u">>), Job("profile", "w", "d"), OnStore(GetEntry(r0))}
    @@ c2 :> {Job("register_connection", "w", ""), OnStore(Purge), OnStore(List),
              OnStore(SetDescription(DatasetKey("e")))}
    @@ c3 :> {Job("run_all", "w", "q"), OnStore(GetEntry(r0)), OnStore(GetEntry(r1)),
              OnStore(SyncSuite("q", <<"y">>))}
    @@ c4 :> {Run, Job("dry_run", "w", "q"), Job("test", "w", ""), Job("describe_table", "w", "d")}
=============================================================================
