----------------------------- MODULE MCBroadcast -----------------------------
EXTENDS Broadcast, TLC

\* Runs are alike.
AnyWorker == Permutations(Workers)

Entry(language, body) == [shaped |-> TRUE, language |-> language, body |-> body]
Misshapen == [shaped |-> FALSE, language |-> "en", body |-> "fine"]

\* An upload that is accepted, with a language nobody speaks and one the bot does not; and one of
\* every kind that is refused.
Uploads ==
    {<<Entry("es", "fine"), Entry("xx", "empty"), Entry("en", "fine")>>,
     <<Entry("es", "fine")>>, <<Entry("en", "long")>>, <<Entry("en", "fine"), Entry("en", "fine")>>,
     <<Misshapen, Entry("en", "fine")>>, <<>>}

\* The second recipient reads the fallback.
Tongues == [u \in Users |-> IF u = 1 THEN "es" ELSE "gl"]

=============================================================================
