------------------------------- MODULE Access --------------------------------
(***************************************************************************)
(* Who may do what (ferriskv-node, auth_layer.rs and grpc.rs; ferriskv-auth *)
(* jwt.rs).  A token is [genuine, tenant, perms]: genuine stands for its    *)
(* signature, its expiration and its form, which the jsonwebtoken library   *)
(* checks.                                                                  *)
(***************************************************************************)
CONSTANTS
  Insecure,   \* auth.insecure: every caller is let in, as nobody
  Own,        \* the tenant the requests name
  Nobody      \* no token, and the principal of an insecure node

\* build_auth_interceptor and AuthInterceptor::call: the principal of a call,
\* none if it is turned away.
Intercept(token) ==
  IF Insecure THEN {Nobody}
  ELSE {t \in {token} : t # Nobody /\ t.genuine}

\* Claims::allows.
ClaimsAllow(claims, perm) == claims.perms \cap {"admin", perm} # {}

\* authorize: a principal with a tenant asks for that one, with the permission.
Authorize(principal, perm) ==
  principal = Nobody \/ (principal.tenant = Own /\ ClaimsAllow(principal, perm))
=============================================================================
