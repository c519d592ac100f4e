------------------------------- MODULE MCApp -------------------------------
EXTENDS AppProps

CONSTANTS first, second, third

MCPlans == {<<first, second, third>>}
MCPair == {"system", "home"}

=============================================================================
