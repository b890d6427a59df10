----------------------------- MODULE MCSession ------------------------------
(* One session, started with every combination of flags and keys; base URLs *)
(* of each kind that the settings tell apart.                               *)
EXTENDS Session

MCBaseUrl ==
    {VendorUrl("openrouter.ai", "/v1"),                          \* own origin, other path
     Url("https", None, "api.openai.com", "8443", "/v1"),        \* own host, other port
     Url("http", None, "127.0.0.1", "8000", "/v1"),              \* this machine
     Url("http", None, "192.168.1.50", "11434", "/v1"),          \* another one
     Malformed}

MCLoopbackIp == {"127.0.0.1"}
=============================================================================
