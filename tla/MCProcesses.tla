---------------------------- MODULE MCProcesses -----------------------------
EXTENDS Processes

\* initServices of the scheduler, in its order.
TwoServices == <<"broker", "store">>

\* A namespace that begins another, so that go and micro.x run together to what
\* go.micro and x do, and one that begins none.
Tenants == {<<"go">>, <<"go", "micro">>, <<"acme">>}

TwoTopics == {<<"x">>, <<"micro", "x">>}

OneQueue == {<<"q">>}
=============================================================================
