----------------------------- MODULE JobScripts ------------------------------
(* The MXNet, Keras and TensorFlow scripts under byteps/example, told like    *)
(* the PyTorch ones of TorchScripts, and all the scripts by their names.      *)
EXTENDS TorchScripts

\* train_gluon_imagenet_byteps_gc.py: the trainer broadcasts in the first step; the operator
\* names the files and the epoch to resume from.
gluon_init == <<"init">>
gluon_model == <<"given", "load_all">>
gluon_rec == "part"
gluon_files == "discard"
gluon_test == <<"evaluate">>
gluon_trainer == <<"bcast_params">>
gluon_train == <<"train">>
gluon_save == <<"save_all">>
gluon_final == <<"export">>
gluon ==
    [Script EXCEPT !.data = gluon_rec, !.optimizer = "decay",
        !.setup = gluon_init \o gluon_model \o gluon_trainer \o <<"from_epoch">>,
        !.epoch = gluon_train \o gluon_test \o gluon_save, !.finish = gluon_final]
gluon_loader == [gluon EXCEPT !.data = gluon_files]

\* train_cifar100_byteps_gc.py.
cifar100_init == <<"init">>
cifar100_model == <<"given", "load_all">>
cifar100_test == <<"evaluate">>
cifar100_data == "shard"
cifar100_trainer == <<"bcast_params">>
cifar100_train == <<"train">>
cifar100_average == <<"average">>
cifar100_save == <<"save_all">>
cifar100 ==
    [Script EXCEPT !.data = cifar100_data, !.optimizer = "decay", !.optimizer_with_model = FALSE,
        !.setup = cifar100_init \o cifar100_model \o cifar100_trainer,
        !.epoch = cifar100_train \o cifar100_test \o cifar100_average \o cifar100_save,
        !.finish = <<"export">>]

\* train_gluon_mnist_byteps.py and train_gluon_mnist_byteps_gc.py.
gluon_mnist_data == "discard"
gluon_mnist_evaluate == <<"evaluate">>
gluon_mnist_init == <<"init">>
gluon_mnist_trainer == <<"bcast_params">>
gluon_mnist_train == <<"train">>
gluon_mnist ==
    [Script EXCEPT !.data = gluon_mnist_data, !.setup = gluon_mnist_init \o gluon_mnist_trainer,
        !.epoch = gluon_mnist_train \o gluon_mnist_evaluate]
gluon_mnist_gc_init == <<"init">>
gluon_mnist_gc_data == "discard"
gluon_mnist_gc_evaluate == <<"evaluate">>
gluon_mnist_gc_trainer == <<"bcast_params">>
gluon_mnist_gc_train == <<"train">>
gluon_mnist_gc_average == <<"average">>
gluon_mnist_gc ==
    [Script EXCEPT !.data = gluon_mnist_gc_data, !.optimizer = "decay",
        !.setup = gluon_mnist_gc_init \o gluon_mnist_gc_trainer,
        !.epoch = gluon_mnist_gc_train \o gluon_mnist_gc_evaluate \o gluon_mnist_gc_average]

\* train_imagenet_byteps.py and common/fit_byteps.py: a checkpoint of its own for each rank,
\* without the optimizer.
module_init == <<"init">>
module_load == <<"given", "load_own">>
module_save == <<"save_own">>
module_data == "part"
module_optimizer == "decay"
module_broadcast == <<"bcast_params">>
module ==
    [Script EXCEPT !.data = module_data, !.optimizer = module_optimizer, !.optimizer_with_model = FALSE,
        !.setup = module_init \o module_load \o module_broadcast \o <<"from_epoch">>,
        !.epoch = <<"train">> \o module_save \o <<"evaluate">>]

\* keras_imagenet_resnet50.py.
keras_resnet50_init == <<"init">>
keras_resnet50_find == <<"find", "bcast_resume">>
keras_resnet50_data == "divided"
keras_resnet50_load == <<"load_root">>
keras_resnet50_callbacks == <<"bcast_vars", "batch_end">>
keras_resnet50_save == <<"average", "save_root">>
keras_resnet50_score == <<"average">>
keras_resnet50 ==
    [Script EXCEPT !.data = keras_resnet50_data, !.schedule = "callbacks",
        !.setup = keras_resnet50_init \o keras_resnet50_find \o keras_resnet50_load \o <<"from_epoch", "fit_begin">>,
        !.epoch = <<"train", "evaluate">> \o keras_resnet50_save,
        !.each = keras_resnet50_callbacks, !.finish = keras_resnet50_score]

\* keras_mnist_advanced.py: the rate falls when the averaged metric stagnates.
keras_advanced_init == <<"init">>
keras_advanced_data == "divided"
keras_advanced_optimizer == "stateful"
keras_advanced_callbacks == <<"average", "plateau">>
keras_advanced_save == <<"save_root">>
keras_advanced ==
    [Script EXCEPT !.data = keras_advanced_data, !.optimizer = keras_advanced_optimizer,
        !.schedule = "warmup", !.setup = keras_advanced_init \o <<"fit_begin">>, !.each = <<"bcast_vars", "batch_end">>,
        !.epoch = <<"train", "evaluate">> \o keras_advanced_callbacks \o keras_advanced_save,
        !.finish = <<"evaluate">>]

\* keras_mnist.py and tensorflow_keras_mnist.py: every worker goes through all the data.
keras_mnist_init == <<"init">>
keras_mnist_data == "whole"
keras_mnist_optimizer == "stateful"
keras_mnist_callbacks == <<"bcast_vars">>
keras_mnist_save == <<"save_root">>
keras_mnist ==
    [Script EXCEPT !.data = keras_mnist_data, !.optimizer = keras_mnist_optimizer, !.setup = keras_mnist_init,
        !.each = keras_mnist_callbacks, !.epoch = <<"train", "evaluate">> \o keras_mnist_save, !.finish = <<"evaluate">>]
tf_keras_mnist_init == <<"init">>
tf_keras_mnist_data == "whole"
tf_keras_mnist_optimizer == "stateful"
tf_keras_mnist_callbacks == <<"bcast_vars">>
tf_keras_mnist_save == <<"save_root">>
tf_keras_mnist ==
    [Script EXCEPT !.data = tf_keras_mnist_data, !.optimizer = tf_keras_mnist_optimizer, !.setup = tf_keras_mnist_init,
        !.each = tf_keras_mnist_callbacks, !.epoch = <<"train", "evaluate">> \o tf_keras_mnist_save, !.finish = <<"evaluate">>]

\* TensorFlow 2: the variables are broadcast after the first batch.
keras_benchmark_init == <<"init">>
keras_benchmark_callbacks == <<"bcast_model_vars">>
keras_benchmark ==
    [Script EXCEPT !.data = "whole", !.setup = keras_benchmark_init, !.each = keras_benchmark_callbacks,
        !.epoch = <<"train">>, !.finish = <<"evaluate">>]
tf2_keras_mnist_init == <<"init">>
tf2_keras_mnist_data == "divided"
tf2_keras_mnist_optimizer == "stateful"
tf2_keras_mnist_callbacks == <<"bcast_model_vars", "batch_end">>
tf2_keras_mnist_save == <<"average", "save_root">>
tf2_keras_mnist ==
    [Script EXCEPT !.data = tf2_keras_mnist_data, !.optimizer = tf2_keras_mnist_optimizer,
        !.schedule = "warmup", !.setup = tf2_keras_mnist_init \o <<"fit_begin">>,
        !.each = tf2_keras_mnist_callbacks, !.epoch = <<"train">> \o tf2_keras_mnist_save]
tf2_mnist_init == <<"init">>
tf2_mnist_data == "divided"
tf2_mnist_step == <<"bcast_model_vars">>
tf2_mnist_save == <<"save_root">>
tf2_mnist ==
    [Script EXCEPT !.data = tf2_mnist_data, !.setup = tf2_mnist_init, !.each = tf2_mnist_step,
        !.finish = tf2_mnist_save]
tf2_benchmark_init == <<"init">>
tf2_benchmark_step == <<"bcast_model_vars">>
tf2_benchmark ==
    [Script EXCEPT !.data = "whole", !.optimizer = "stateless", !.setup = tf2_benchmark_init,
        !.each = tf2_benchmark_step]
tf_benchmark_init == <<"init">>
tf_benchmark_broadcast == <<"bcast_vars">>
tf_benchmark_run == <<"train">>
tf_benchmark ==
    [Script EXCEPT !.data = "whole", !.optimizer = "stateless",
        !.setup = tf_benchmark_init \o tf_benchmark_broadcast, !.epoch = tf_benchmark_run]

\* tensorflow_mnist.py: a monitored session restores on rank 0 and counts global steps.
tf_mnist_init == <<"init">>
tf_mnist_data == "divided"
tf_mnist_optimizer == "stateful"
tf_mnist_hooks == <<"bcast_vars", "from_global_step">>
tf_mnist_session == <<"find_root", "load_root">>
tf_mnist ==
    [Script EXCEPT !.data = tf_mnist_data, !.optimizer = tf_mnist_optimizer, !.by_step = TRUE,
        !.setup = tf_mnist_init \o tf_mnist_session \o tf_mnist_hooks, !.each = <<"save_timer">>,
        !.finish = <<"save_root">>]

programs ==
    [resnet50 |-> resnet50, vgg16 |-> vgg16, ddp |-> ddp, cifar |-> cifar,
     cifar_new |-> cifar_new, mnist |-> mnist, mnist_dist |-> mnist_dist,
     benchmark |-> benchmark, benchmark_cb |-> benchmark_cb, benchmark_ddp |-> benchmark_ddp,
     elastic |-> elastic, lib |-> lib, inwork |-> inwork, temp |-> temp, kevin |-> kevin,
     accelerate |-> accelerate, gluon |-> gluon, gluon_loader |-> gluon_loader,
     cifar100 |-> cifar100, gluon_mnist |-> gluon_mnist, gluon_mnist_gc |-> gluon_mnist_gc,
     module |-> module, keras_resnet50 |-> keras_resnet50, keras_advanced |-> keras_advanced,
     keras_mnist |-> keras_mnist, tf_keras_mnist |-> tf_keras_mnist,
     keras_benchmark |-> keras_benchmark, tf2_keras_mnist |-> tf2_keras_mnist,
     tf2_mnist |-> tf2_mnist, tf2_benchmark |-> tf2_benchmark, tf_benchmark |-> tf_benchmark,
     tf_mnist |-> tf_mnist]
==============================================================================
