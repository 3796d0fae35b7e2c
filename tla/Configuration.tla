--------------------------- MODULE Configuration ---------------------------
(***************************************************************************)
(* The start of the two programs from their environment.  The gateway:     *)
(* config.Load (backend/internal/infrastructure/config/config.go), the     *)
(* assembly in main.go and NewAdaptiveStrategy.  The controller service:   *)
(* ControllerConfig.from_env (controller/src/config.py).                   *)
(*                                                                         *)
(* Both read ADMISSION_MIN_LIMIT, ADMISSION_MAX_LIMIT, ADMISSION_MAX_DELTA *)
(* and ADMISSION_COOLDOWN, with parsers of their own.  The text of a       *)
(* variable is Unset (or empty), Garbage, or a number with or without the  *)
(* unit `s'.  The variables that are only parsed are left out.             *)
(***************************************************************************)
EXTENDS Integers

CONSTANTS
    Unset, Garbage,     \* texts that are no number
    Environments,       \* the environments, records of texts, see below
    Files,              \* the YAML files, records of the same four texts
    Error,              \* what a parser returns with err # nil, or raises
    Refused, Down       \* a program that ended itself; one not yet started

Strategies == {"static", "heuristic", "adaptive"}

Texts == {Unset, Garbage} \cup [value : Int, unit : BOOLEAN]

ASSUME ConfigurationAssumption ==
    /\ Environments \subseteq
        [strategy : STRING, limit : Texts, min : Texts, max : Texts,
         delta : Texts, cooldown : Texts, fresh : Texts]
    /\ Files \subseteq [min : Texts, max : Texts, delta : Texts, cooldown : Texts]
    /\ Error \notin Int /\ Error \notin Strategies
    /\ Down # Refused
    /\ Refused \notin
        [strategy : Strategies, limit : Int, min : Int, max : Int, delta : Int,
         cooldown : Int, fresh : Int]
    /\ Refused \notin
        [strategy : Strategies, limit : Int, min : Int, max : Int, delta : Int,
         cooldown : Int, fallback : Int, fresh : Int]

VARIABLES
    env,        \* what an operator exports or writes into .env
    file,       \* the YAML file of the service
    compose,    \* whether docker-compose.yml hands the variables on
    gateway,    \* Down, Refused or what main.go has assembled
    service     \* Down, Refused or the service's ControllerConfig

configVars == <<env, file, compose, gateway, service>>

IsNumber(text) == text \notin {Unset, Garbage}

-----------------------------------------------------------------------------
(* strconv.Atoi, unless the variable is not set.                           *)
EnvInt(text, default) ==
    IF text = Unset THEN default
    ELSE IF IsNumber(text) /\ ~text.unit THEN text.value
    ELSE Error

(* time.ParseDuration: a number needs its unit, unless it is 0.            *)
ParseDuration(text, default) ==
    IF text = Unset THEN default
    ELSE IF IsNumber(text) /\ (text.unit \/ text.value = 0) THEN text.value
    ELSE Error

(* ADMISSION_STRATEGY: one of three names, static when it is empty.  (The  *)
(* code lowers their case first: a name stands for all its spellings.)     *)
Strategy(name) ==
    IF name = "" THEN "static"
    ELSE IF name \in Strategies THEN name
    ELSE Error

(* Load up to its validation.                                              *)
Parsed(e) ==
    [strategy |-> Strategy(e.strategy),
     limit    |-> EnvInt(e.limit, 20),
     min      |-> EnvInt(e.min, 4),
     max      |-> EnvInt(e.max, 64),
     delta    |-> EnvInt(e.delta, 4),
     cooldown |-> ParseDuration(e.cooldown, 5),
     fresh    |-> ParseDuration(e.fresh, 60)]

(* The last condition grouped as it is laid out.                           *)
Valid_regrouped(c) ==
    /\ c.limit >= 1
    /\ c.min >= 1 /\ c.max >= c.min
    /\ ~((c.limit > c.max \/ c.limit < c.min) /\ c.strategy = "adaptive")

(* An upper bound that is not itself allowed.                              *)
Valid_strict(c) ==
    /\ c.limit >= 1
    /\ c.min >= 1 /\ c.max >= c.min
    /\ ~(c.limit >= c.max \/ (c.limit < c.min /\ c.strategy = "adaptive"))

(* Go's && binds tighter: only adaptive has to start above its minimum.    *)
Valid(c) ==
    /\ c.limit >= 1
    /\ c.min >= 1 /\ c.max >= c.min
    /\ ~(c.limit > c.max \/ (c.limit < c.min /\ c.strategy = "adaptive"))

Load(e) ==
    LET c == Parsed(e) IN
        IF \E f \in DOMAIN c : c[f] = Error THEN Refused
        ELSE IF ~Valid(c) THEN Refused
        ELSE c

(* NewController, and under `adaptive' NewAdaptiveStrategy, which replaces *)
(* what makes no sense; main.go has the fallback at the minimum.           *)
Assembled(c) ==
    LET min == IF c.min < 1 THEN 1 ELSE c.min
        max == IF c.max < min THEN min ELSE c.max
        fallback == IF c.min < min THEN min ELSE IF c.min > max THEN max ELSE c.min
    IN  [strategy |-> c.strategy,
         limit    |-> IF c.limit < 1 THEN 1 ELSE c.limit,
         min      |-> min,
         max      |-> max,
         delta    |-> IF c.delta < 1 THEN 4 ELSE c.delta,
         cooldown |-> IF c.cooldown =< 0 THEN 5 ELSE c.cooldown,
         fallback |-> fallback,
         fresh    |-> IF c.fresh =< 0 THEN 60 ELSE c.fresh]

(* docker-compose.yml gives the gateway the strategy and the limit only.   *)
Passed == IF compose
          THEN [env EXCEPT !.min = Unset, !.max = Unset, !.delta = Unset,
                           !.cooldown = Unset, !.fresh = Unset]
          ELSE env

BootGateway ==
    /\ gateway = Down
    /\ gateway' = IF Load(Passed) = Refused THEN Refused ELSE Assembled(Load(Passed))
    /\ UNCHANGED <<env, file, compose, service>>

-----------------------------------------------------------------------------
(* The file before the environment.                                        *)
Resolve_fileFirst(key, default) ==
    LET text == IF file[key] # Unset THEN file[key] ELSE env[key] IN
        IF text = Unset THEN default
        ELSE IF IsNumber(text) /\ ~text.unit THEN text.value
        ELSE Error

(* controller.yaml of the image.                                           *)
ImageFile ==
    [min      |-> [value |-> 4, unit |-> FALSE],
     max      |-> [value |-> 64, unit |-> FALSE],
     delta    |-> [value |-> 4, unit |-> FALSE],
     cooldown |-> [value |-> 5, unit |-> FALSE]]

(* resolve, and int() or float() on what it finds: neither knows units.    *)
Resolve(key, default) ==
    LET text == IF env[key] # Unset THEN env[key] ELSE file[key] IN
        IF text = Unset THEN default
        ELSE IF IsNumber(text) /\ ~text.unit THEN text.value
        ELSE Error

(* from_env; nothing is validated.                                         *)
FromEnv ==
    [min      |-> Resolve("min", 4),
     max      |-> Resolve("max", 64),
     delta    |-> Resolve("delta", 4),
     cooldown |-> Resolve("cooldown", 5)]

BootService ==
    /\ service = Down
    /\ service' = IF \E f \in DOMAIN FromEnv : FromEnv[f] = Error THEN Refused ELSE FromEnv
    /\ UNCHANGED <<env, file, compose, gateway>>

ConfigInit ==
    /\ env \in Environments
    /\ file \in Files
    /\ compose \in BOOLEAN
    /\ gateway = Down
    /\ service = Down

ConfigNext == BootGateway \/ BootService

ConfigSpec == ConfigInit /\ [][ConfigNext]_configVars

-----------------------------------------------------------------------------
Running(program) == program \notin {Down, Refused}

(***************************************************************************)
(* Whatever Load lets through, the controller starts at the limit that was *)
(* asked for and not above the maximum, and the adaptive strategy starts   *)
(* within bounds that are those asked for, its fallback at the lower one,  *)
(* and with no part of its protection turned off.  The models of the       *)
(* strategies rest on this.                                                *)
(***************************************************************************)
SoundEnvelope ==
    Running(gateway) =>
        LET c == Load(Passed) IN
            /\ gateway.limit = c.limit
            /\ gateway.limit \in 1..gateway.max
            /\ gateway.strategy = "adaptive" =>
                /\ gateway.limit >= gateway.min
                /\ <<gateway.min, gateway.max, gateway.fallback>> = <<c.min, c.max, c.min>>
                /\ gateway.delta >= 1 /\ gateway.cooldown > 0 /\ gateway.fresh > 0

(***************************************************************************)
(* What makes sense is accepted: numbers in order, the limit between the   *)
(* bounds, their edges included, and durations that have a unit.           *)
(***************************************************************************)
AcceptsSense ==
    /\ Passed.strategy \in Strategies
    /\ \A f \in {"limit", "min", "max", "delta"} :
        IsNumber(Passed[f]) /\ ~Passed[f].unit /\ Passed[f].value >= 1
    /\ \A f \in {"cooldown", "fresh"} : IsNumber(Passed[f]) /\ Passed[f].unit
    /\ Passed.min.value =< Passed.limit.value /\ Passed.limit.value =< Passed.max.value
    => gateway # Refused

(***************************************************************************)
(* controller.yaml:1: both layers agree.  Started from one environment,    *)
(* without a file or with the one of the image, the service never runs     *)
(* with a safety layer other than the gateway's, except for a max_delta or *)
(* a cooldown below what NewAdaptiveStrategy accepts: a cooldown both      *)
(* would read differently makes one of them refuse to start.               *)
(***************************************************************************)
SameEnvelope ==
    /\ Running(gateway) /\ Running(service) /\ ~compose
    /\ gateway.strategy = "adaptive"
    /\ \A key \in DOMAIN file : file[key] \in {Unset, ImageFile[key]}
    /\ service.delta >= 1 /\ service.cooldown > 0
    => \A f \in DOMAIN service : service[f] = gateway[f]
=============================================================================
