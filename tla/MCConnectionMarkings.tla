------------------------ MODULE MCConnectionMarkings ------------------------
EXTENDS ConnectionMarkings

\* One marking per question the gate asks: an ordinary connection, one that is
\* read-only, one in production.
MCConfigs ==
    {[environment |-> Development, read_only |-> FALSE],
     [environment |-> Development, read_only |-> TRUE],
     [environment |-> Production, read_only |-> FALSE]}
=============================================================================
