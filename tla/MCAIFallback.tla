----------------------------- MODULE MCAIFallback -----------------------------
(* Instances of the AI fallback chain for TLC. *)
EXTENDS AIFallback

\* One status of each class: success, bad request, unknown model, request
\* timeout, rate limit, the first server error.
SomeCodes == {200, 400, 404, 408, 429, 500}
===============================================================================
