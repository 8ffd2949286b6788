------------------------- MODULE MCResolverProcess -------------------------
EXTENDS ResolverProcess

(* Limits::default *)
DefaultLimits ==
    [inbound_body_bytes |-> 8192, active_handlers |-> 64, outbound_fetches |-> 32,
     global_fetch_rate |-> 16, global_fetch_burst |-> 32,
     origin_fetch_rate |-> 2, origin_fetch_burst |-> 4,
     ip_fetch_rate |-> 8, ip_fetch_burst |-> 16,
     new_origins_per_minute |-> 256, state_entries |-> 1024,
     max_keys |-> 32, resolution_timeout |-> 1800]

NoProxy ==
    [v \in {"HTTPS_PROXY", "https_proxy", "HTTP_PROXY", "http_proxy", "ALL_PROXY", "all_proxy"}
        |-> "unset"]

Unix == [scheme |-> "unix", valid |-> TRUE, absolute |-> TRUE, length |-> 100]
Tcp == [Unix EXCEPT !.scheme = "tcp"]

Base == [limits |-> DefaultLimits, ports |-> {8443}, egress |-> "direct", env |-> NoProxy,
         listen |-> Unix]
Proxied == [Base EXCEPT !.egress = "proxy", !.env["HTTPS_PROXY"] = "a", !.env["https_proxy"] = "a"]

MCConfigs ==
    {Base,
     [Proxied EXCEPT !.listen = Tcp],
     [Base EXCEPT !.limits.resolution_timeout = 1801],
     [Base EXCEPT !.limits.ip_fetch_burst = 7],
     [Base EXCEPT !.ports = 1..64],
     [Base EXCEPT !.env["all_proxy"] = "a"],
     [Proxied EXCEPT !.env["HTTPS_PROXY"] = "empty"],
     [Proxied EXCEPT !.env["https_proxy"] = "b"],
     [Base EXCEPT !.listen.length = 101],
     [Base EXCEPT !.listen.scheme = "other"]}
=============================================================================
