------------------------- MODULE MCAuthEndpoints -------------------------
(* One plugin with two auth methods, installed by the name its manifest has or  *)
(* by another one; one record under an old key.                                 *)
EXTENDS AuthEndpoints
CONSTANTS prom, other, token, basic, key, user, e1, legacy
MCManifest == (prom :> <<token, basic>>)
MCDeclares == (token :> {key}) @@ (basic :> {user})
\* At most two methods have an auth state at a time, at most one for a plugin whose
\* manifest has another name.
Small == \A p \in Plugins :
            Cardinality({m \in Methods \cup {Default} : file.auth[p][m] # None})
               <= IF named[p] = p THEN 2 ELSE 1
MCNormal == (legacy :> e1)
=============================================================================
