---------------------------- MODULE MCFrontEnds -----------------------------
EXTENDS FrontEnds, TLC

CONSTANTS sagw, a, b

Work(lines, x, y) == sagw :> lines @@ a :> x @@ b :> y

\* An agent's calls among lines that are none, while a user waits for a document; users
\* who wait, replace and remove.
MCWorkloads == {
    Work(<<"hello", "notice", "publish", "invalid">>, <<"publish_wait">>, <<>>),
    Work(<<"unknown", "reprocess", "status">>, <<"publish_wait">>, <<>>),
    Work(<<"publish", "unpublish", "misshapen", "hello">>, <<"publish_wait">>, <<>>),
    Work(<<"unpublish">>, <<"publish_wait">>, <<"unpublish">>),
    Work(<<"unpublish">>, <<"publish_wait">>, <<"status">>),
    Work(<<>>, <<"publish_wait">>, <<"publish_wait">>) }

\* One line without an id: a publish, a status, what is misshapen.
MCIdless == {<<sagw, 3>>}
=============================================================================
