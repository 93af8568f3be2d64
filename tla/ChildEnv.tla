------------------------------ MODULE ChildEnv ------------------------------
(* The environment of the program (util.c): a sequence of entries, searched    *)
(* from the front.  A value is the sequence of its words, which is how          *)
(* LD_PRELOAD lists its libraries; <<>> is the empty string.                    *)
EXTENDS Naturals, Sequences, SequencesExt, FiniteSetsExt

kFdEnvVar == "__MINIJAIL_FD"
kLdPreloadEnvVar == "LD_PRELOAD"
kSeccompPolicyPathEnvVar == "SECCOMP_POLICY_PATH"

\* The index of the first entry of that name, or the one after the last entry.
getenv_index(env, name) ==
  Min({i \in DOMAIN env : env[i].name = name} \cup {Len(env) + 1})

Has(env, name) == getenv_index(env, name) <= Len(env)

\* The set of the value found: empty where the code returns NULL.
minijail_getenv(env, name) ==
  IF Has(env, name) THEN {env[getenv_index(env, name)].value} ELSE {}

\* Every caller passes a true |overwrite|.
minijail_setenv(env, name, value) ==
  LET entry == [name |-> name, value |-> value]
      i == getenv_index(env, name)
  IN IF Has(env, name) THEN [env EXCEPT ![i] = entry] ELSE Append(env, entry)

\* Mutant: the array is cut at the entry instead of being filled from its end.
UnsetCuts(env, name) == SubSeq(env, 1, getenv_index(env, name) - 1)

minijail_unsetenv(env, name) ==
  IF Has(env, name)
    THEN Front([env EXCEPT ![getenv_index(env, name)] = Last(env)])
    ELSE env

\* minijail_run_internal() before it makes a child: what is added for the
\* program, and for the library that runs before it.
setup_seccomp_policy_path(env, path) == minijail_setenv(env, kSeccompPolicyPathEnvVar, path)

setup_preload(env, preload_path) ==
  LET old == minijail_getenv(env, kLdPreloadEnvVar) IN
  minijail_setenv(env, kLdPreloadEnvVar,
                  Append(IF old = {} THEN <<>> ELSE CHOOSE v \in old : TRUE, preload_path))

setup_pipe(env, fd) == minijail_setenv(env, kFdEnvVar, fd)

\* The preloaded library takes itself, the last word, out again.
truncate_preload_env(env, name) ==
  IF \E v \in minijail_getenv(env, name) : Len(v) > 1
    THEN [env EXCEPT ![getenv_index(env, name)].value = Front(@)]
    ELSE minijail_unsetenv(env, name)
=============================================================================
