----------------------------- MODULE MCLifecycle -----------------------------
(* Lifecycle on a small instance: all variables on the platform, all in    *)
(* the env file, no secret and no file for Sentry, and a URL missing.      *)
EXTENDS Lifecycle

Everywhere(place) == [v \in Variable |-> place]
MCDeployments == {
  Everywhere("platform"),
  Everywhere("file"),
  [Everywhere("platform") EXCEPT !["SUPABASE_JWT_SECRET"] = "nowhere"],
  [Everywhere("file") EXCEPT !["DATABASE_URL"] = "nowhere"],
  [Everywhere("platform") EXCEPT !["REDIS_URL"] = "nowhere"]}
=============================================================================
