----------------------- MODULE MCCircuitBreakerHistory -----------------------
EXTENDS CircuitBreakerHistory, MCCircuitBreaker
==============================================================================
