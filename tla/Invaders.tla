------------------------------ MODULE Invaders ------------------------------
(***************************************************************************)
(* The PC booter's game (booter/game.c) with its keyboard queue            *)
(* (booter/keyboard.c).  One turn of game_loop touches the queue only in   *)
(* key_queue_pop, with interrupts off, so a turn is one action and the     *)
(* keyboard interrupts between turns.  How much time has passed, and the   *)
(* column that get_time picks, are choices.  Drawing and sound change      *)
(* nothing of the game and are left out.                                   *)
(***************************************************************************)
EXTENDS Integers, FiniteSets, FiniteSetsExt

CONSTANTS
    VID_WIDTH, VID_HEIGHT, ALIEN_SIZE, SHIP_SIZE,
    ENEMY_SPACING,      (* positive, so a bullet is in one hitbox at most *)
    BarHeight,          (* progress_bar_height *)
    ENEMY_SPEED, ENEMY_DROP_SPEED, BULLET_SPEED, ALIEN_BULLET_SPEED, PLAYER_SPEED,
    TopBuffer, DeadZone,        (* the magic numbers 3 and 13 of update_bullets *)
    MAX_BULLETS, ENEMY_BULLETS, KEYCODE_QUEUE_SIZE,
    W,                  (* width of uint16_t *)
    KeyCodes,           (* keys that are pressed *)
    MaxKeys             (* bound on key presses *)

u16(x) == x % 2^W

VARIABLES
    game,               (* struct Space_Invaders *)
    key_queue, queue_read_index, queue_write_index,
    hung,               (* history: the loop of fire_alien_bullet will not end *)
    presses,            (* history: keys pressed; key_queue has their numbers *)
    handled             (* history: number of the last key taken from the queue *)

vars == <<game, key_queue, queue_read_index, queue_write_index, hung, presses, handled>>

-----------------------------------------------------------------------------
(* Layout *)

None == [x |-> -1, y |-> -1]        (* an empty bullet pair *)

enemy_mat_width == VID_WIDTH \div 2
enemy_mat_height == (VID_HEIGHT - BarHeight - SHIP_SIZE) \div 2
num_enemy_rows == enemy_mat_height \div (ALIEN_SIZE + ENEMY_SPACING)
num_enemy_cols == enemy_mat_width \div (ALIEN_SIZE + ENEMY_SPACING)
num_enemies == num_enemy_rows * num_enemy_cols
player_position_y == VID_HEIGHT - SHIP_SIZE

(* Top left corner of the enemy in column E[1] and row E[2]. *)
EnemyX(g, e) == g.enemy_mat_position_x + e[1] * (ALIEN_SIZE + ENEMY_SPACING)
EnemyY(g, e) == g.enemy_mat_position_y + e[2] * (ALIEN_SIZE + ENEMY_SPACING)

(* Whether bullet B is in the square of size S at X, Y, edges included. *)
InBox(b, x, y, s) == b.x \in x .. x + s /\ b.y \in y .. y + s

-----------------------------------------------------------------------------
(* The functions of game.c, from the game before to the game after *)

init_game_state ==
    [game_state |-> "PLAY", player_position_x |-> (VID_WIDTH - SHIP_SIZE) \div 2,
     enemy_mat_position_x |-> (VID_WIDTH - enemy_mat_width) \div 2,
     enemy_mat_position_y |-> BarHeight, enemy_direction |-> 0, enemy_speed |-> ENEMY_SPEED,
     num_enemies_left |-> num_enemies,
     enemy_mat |-> (0 .. num_enemy_cols - 1) \X (0 .. num_enemy_rows - 1),
     bullet_queue |-> [i \in 0 .. MAX_BULLETS - 1 |-> None], bullet_counter |-> 0,
     en_bullet_queue |-> [i \in 0 .. ENEMY_BULLETS - 1 |-> None], en_bullet_counter |-> 0]

(* The part of update_game_progress that is not drawing. *)
update_game_progress(g) ==
    [g EXCEPT !.enemy_speed =
        ENEMY_SPEED + (3 * ENEMY_SPEED * u16(num_enemies - g.num_enemies_left)) \div num_enemies]

(* Whether a bullet of the player has to go before it is in the score bar. *)
AtTop(b) == b.y # -1 /\ b.y <= BarHeight + TopBuffer

(* Both queues; an alien bullet that hits the player ends the loop. *)
update_bullets(g, dy, ady) ==
    LET up(b) == CASE b.y = -1 -> b
                   [] AtTop(b) -> None
                   [] OTHER -> [b EXCEPT !.y = @ + dy]
        down(b) == CASE b.y = -1 -> b
                     [] b.y # -1 /\ b.y >= VID_HEIGHT - DeadZone -> None
                     [] OTHER -> [b EXCEPT !.y = @ + ady]
        hits == {i \in DOMAIN g.en_bullet_queue : g.en_bullet_queue[i].y # -1 /\
                    InBox(g.en_bullet_queue[i], g.player_position_x, player_position_y, SHIP_SIZE)}
    IN  [g EXCEPT !.bullet_queue = [i \in DOMAIN @ |-> up(@[i])],
                  !.en_bullet_queue = [i \in DOMAIN @ |-> IF \E h \in hits : h <= i THEN @[i] ELSE down(@[i])],
                  !.game_state = IF hits = {} THEN @ ELSE "LOST"]

(* The move of the enemies in update_enemies, down where they turn. *)
MoveEnemies(g) ==
    LET x == u16(g.enemy_mat_position_x + g.enemy_direction * g.enemy_speed)
        turn == \/ g.enemy_direction = 1 /\ x + enemy_mat_width + g.enemy_speed > VID_WIDTH
                \/ g.enemy_direction = -1 /\ x < g.enemy_speed
    IN  [g EXCEPT !.enemy_mat_position_x = x,
                  !.enemy_direction = IF turn THEN -@ ELSE @,
                  !.enemy_mat_position_y = IF turn THEN u16(@ + ENEMY_DROP_SPEED) ELSE @]

(* The player's bullets in the hitbox of enemy E. *)
HitBy(g, e) ==
    {i \in DOMAIN g.bullet_queue : InBox(g.bullet_queue[i], EnemyX(g, e), EnemyY(g, e), ALIEN_SIZE)}

(* num_enemies_left without the enemies that were hit or left. *)
CountOut(g, killed, gone) == u16(g.num_enemies_left - Cardinality(killed) - Cardinality(gone))

(* The loop over the enemies: the first bullet in a hitbox and its enemy   *)
(* go; an enemy at the height of the player ends the game; one past the    *)
(* end of the screen (whose width the code takes) goes too.                *)
CheckEnemies(g) ==
    LET killed == {e \in g.enemy_mat : HitBy(g, e) # {}}
        spent == {Min(HitBy(g, e)) : e \in killed}
        beside(e) == EnemyX(g, e) + ALIEN_SIZE > g.player_position_x
                     \/ EnemyX(g, e) < g.player_position_x + SHIP_SIZE
        landed == {e \in g.enemy_mat : EnemyY(g, e) + ALIEN_SIZE > player_position_y /\ beside(e)}
        gone == {e \in g.enemy_mat : EnemyY(g, e) + ALIEN_SIZE >= VID_WIDTH}
    IN  [g EXCEPT !.enemy_mat = @ \ (killed \cup gone),
                  !.num_enemies_left = CountOut(g, killed, gone),
                  !.bullet_queue = [i \in DOMAIN @ |-> IF i \in spent THEN None ELSE @[i]],
                  !.game_state = IF landed = {} THEN @ ELSE "LOST"]

update_enemies(g) ==
    LET h == update_game_progress(CheckEnemies(MoveEnemies(update_bullets(g, 0, 0))))
    IN  [h EXCEPT !.game_state = IF h.num_enemies_left = 0 /\ @ = "PLAY" THEN "WON" ELSE @]

draw_game_start(g) == [update_enemies(update_game_progress(g)) EXCEPT !.enemy_direction = 1]

reset_game == draw_game_start(init_game_state)

move_player(g, dx) ==
    LET x == g.player_position_x + PLAYER_SPEED * dx
    IN  [g EXCEPT !.player_position_x = IF x < 0 THEN 0 ELSE Min({x, VID_WIDTH - SHIP_SIZE})]

(* The shot of the lowest enemy in column C. *)
fire_alien_bullet(g, c) ==
    LET row == Max({e[2] : e \in {d \in g.enemy_mat : d[1] = c}})
        shot == [x |-> g.enemy_mat_position_x + (c + 1) * ALIEN_SIZE + c * ENEMY_SPACING,
                 y |-> g.enemy_mat_position_y + (row + 1) * ALIEN_SIZE + row * ENEMY_SPACING]
    IN  [g EXCEPT !.en_bullet_queue[g.en_bullet_counter] = shot,
                  !.en_bullet_counter = (@ + 1) % ENEMY_BULLETS]

(* fire_bullet, with the alien's answer unless no enemy is left to give it. *)
fire_bullet(g, c) ==
    LET shot == [x |-> g.player_position_x + SHIP_SIZE \div 2 - 1, y |-> player_position_y]
        h == [g EXCEPT !.bullet_queue[g.bullet_counter] = shot,
                       !.bullet_counter = (@ + 1) % MAX_BULLETS]
    IN  IF g.enemy_mat = {} THEN h ELSE fire_alien_bullet(h, c)

pause_game(g) == [g EXCEPT !.game_state = IF @ = "PAUSE" THEN "PLAY" ELSE "PAUSE"]

-----------------------------------------------------------------------------
(* booter/keyboard.c *)

NoKey == [key |-> "none", n |-> 0]

key_handler(key) ==
    /\ presses < MaxKeys
    /\ presses' = presses + 1
    /\ key_queue' = [key_queue EXCEPT ![queue_write_index] = [key |-> key, n |-> presses']]
    /\ queue_write_index' = (queue_write_index + 1) % KEYCODE_QUEUE_SIZE
    /\ UNCHANGED <<game, queue_read_index, hung, handled>>

(* The key that key_queue_pop returns, NoKey for KEY_QUEUE_EMPTY. *)
key_queue_pop == IF queue_read_index = queue_write_index THEN NoKey ELSE key_queue[queue_read_index]

-----------------------------------------------------------------------------
Handle(g, key, c) ==
    CASE key = "LEFT" -> move_player(g, -1)
      [] key = "RIGHT" -> move_player(g, 1)
      [] key = "SPACE" -> fire_bullet(g, c)
      [] key = "R" -> reset_game
      [] key = "P" -> pause_game(g)
      [] OTHER -> g

(* Faulty variant for the mutation checks. *)
FinishLost(g) == IF g.game_state = "LOST" THEN reset_game ELSE [g EXCEPT !.game_state = "PLAY"]

(* The end of a turn: a game that was won or lost starts again. *)
Finish(g) == IF g.game_state = "PLAY" THEN g ELSE [reset_game EXCEPT !.game_state = "PLAY"]

(* The rest of a turn after the key, when the enemies, the bullets or both *)
(* are due.                                                                *)
Progress(g, enemies, bullets) ==
    LET g1 == IF enemies THEN move_player(update_enemies(g), 0) ELSE g
        g2 == IF bullets THEN update_bullets(g1, -BULLET_SPEED, ALIEN_BULLET_SPEED) ELSE g1
    IN  IF g.game_state = "PAUSE" THEN g ELSE Finish(g2)

game_loop ==
    LET k == key_queue_pop
    IN  /\ ~ hung
        /\ \E enemies, bullets \in BOOLEAN :
           \E c \in IF k.key = "SPACE" /\ game.enemy_mat # {} THEN {e[1] : e \in game.enemy_mat} ELSE {0} :
              game' = Progress(Handle(game, k.key, c), enemies, bullets)
        /\ hung' = (k.key = "SPACE" /\ game.enemy_mat = {})
        /\ IF k = NoKey THEN UNCHANGED <<key_queue, queue_read_index, handled>>
           ELSE /\ queue_read_index' = (queue_read_index + 1) % KEYCODE_QUEUE_SIZE
                /\ key_queue' = [key_queue EXCEPT ![queue_read_index] = NoKey]   (* not read again *)
                /\ handled' = k.n
        /\ UNCHANGED <<queue_write_index, presses>>

Init ==
    /\ game = reset_game        (* c_start: init_game_state and draw_game_start *)
    /\ key_queue = [i \in 0 .. KEYCODE_QUEUE_SIZE - 1 |-> NoKey]
    /\ queue_read_index = 0 /\ queue_write_index = 0
    /\ hung = FALSE /\ presses = 0 /\ handled = 0

Next == game_loop \/ \E key \in KeyCodes : key_handler(key)

Spec == Init /\ [][Next]_vars

-----------------------------------------------------------------------------
(* Properties *)

TypeOK ==
    /\ game.game_state \in {"PLAY", "PAUSE"} /\ game.enemy_direction \in {-1, 1}
    /\ game.player_position_x \in 0 .. VID_WIDTH - SHIP_SIZE
    /\ queue_read_index \in DOMAIN key_queue /\ queue_write_index \in DOMAIN key_queue

(* num_enemies_left is the number of enemies in the matrix, so the speed   *)
(* and the test for a win go by the enemies there are: no enemy is counted *)
(* out twice, by a bullet and by leaving the screen (update_enemies).      *)
CountExact == game.num_enemies_left = Cardinality(game.enemy_mat)

(* The loop of fire_alien_bullet, which looks for a column with an enemy,  *)
(* ends: a won or lost game starts again before the next key is read, also *)
(* when the last enemy dies in the turn in which the player is hit.        *)
ShotsEnd == game.enemy_mat # {} /\ ~ hung

(* What is in flight is drawn on the screen, above the bottom and below    *)
(* the progress bar, though bullets jump over the lines at which they are  *)
(* removed, and a low enemy fires from where it is.                        *)
InFlightInside ==
    /\ \A i \in DOMAIN game.bullet_queue :
          game.bullet_queue[i] # None => game.bullet_queue[i].y \in BarHeight + 1 .. player_position_y
    /\ \A i \in DOMAIN game.en_bullet_queue :
          game.en_bullet_queue[i] # None => game.en_bullet_queue[i].y \in BarHeight + 1 .. VID_HEIGHT - 1

(* The keys in the queue are the last that were pressed, in order, and     *)
(* newer than those taken: a queue that overflows loses the keys it held,  *)
(* and never gives a key twice or out of order (key_handler).              *)
KeysInOrder ==
    LET n == (queue_write_index - queue_read_index) % KEYCODE_QUEUE_SIZE
    IN  \A i \in 0 .. n - 1 :
           LET k == key_queue[(queue_read_index + i) % KEYCODE_QUEUE_SIZE].n
           IN  k = presses - n + i + 1 /\ k > handled

(* The enemies stay between the left and the right edge of the screen.     *)
EnemiesOnScreen == game.enemy_mat_position_x + enemy_mat_width <= VID_WIDTH

=============================================================================
